SPECIFICATION MCSpec
CONSTANTS
  f1 = f1
  f2 = f2
  f3 = f3
  h1 = h1
  h2 = h2
  t1 = t1
  v1 = v1
  v2 = v2
  v3 = v3
  joint = joint
  tiny = tiny
  xcsrf = xcsrf
  csrf = csrf
  token = token
  title = title
  pCsrf = pCsrf
  pToken = pToken
  pIndexed = pIndexed
  pNested = pNested
  Redacted = Redacted
  NoFlow = NoFlow
  NoSource = NoSource
  NoValue = NoValue
  AnyHost = AnyHost
  AnyTag = AnyTag
  Header = Header
  FlowIds <- MCFlowIds
  Hosts <- MCHosts
  Tags <- MCTags
  Values <- MCValues
  Useful <- MCUseful
  Inside <- MCInside
  Overlapping <- MCOverlapping
  Fields <- MCFields
  TokenNames <- MCTokenNames
  CsrfNames <- MCCsrfNames
  Secret <- MCSecret
  Paths <- MCPaths
  FieldOf <- MCFieldOf
  KeyOf <- MCKeyOf
  Resolvable <- MCResolvable
  Nested <- MCNested
  Rows <- MCRows
  MaxTime = 4
  MaxRows = 2
  MaxSources = 2
  MaxBindings = 2
SYMMETRY Symmetric
CHECK_DEADLOCK FALSE
INVARIANTS
  TypeOK
  LinksLeadForward
  CsrfUsesAreLinked
  SuggestionSendsFresh
  SuggestionSendsDefaults
  ExportFollowsTheRun
