SPECIFICATION Spec
CONSTANTS
  f1 = f1
  f2 = f2
  NoFlow = NoFlow
  FlowIds <- MCFlowIds
  Workflows <- MCWorkflows
  Statuses = {200, 401, 500}
INVARIANTS
  TypeOK
  RowTellsHowFar
  EveryReplayIsNamed
  BoundToAcceptedResponses
PROPERTIES
  ResendOnlyAfterRefresh
CHECK_DEADLOCK FALSE
