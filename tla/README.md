# Verification of the deconstruct daemon

`deconstructd` captures HTTP traffic (proxy, browser, HAR files), stores it, compiles
workflows from it and replays them. This directory holds TLA+ models of its stateful
parts, TLC configurations that check them on small instances, and proofs that TLAPS
checks for every value of the constants. Paths below are relative to
`daemon/internal/` unless they begin with `cmd/`, `docs/` or `schemas/`.

    tlc -workers 2 -config MCHarImport.cfg MCHarImport     # any run: see "Runs"
    tlapm ReplayEngineProofs.tla

## Inventory

| Component | State it keeps | Operations | What is hard | What makes it correct |
|---|---|---|---|---|
| Replay engine (`replay/replay.go`) | rows in `flows`, `flow_tags`, `replay_runs` | `Run`, `RunVariations` | several store calls without a transaction, retries, concurrent prunes, cancellation | a run row tells what was sent, answered and stored; nothing is sent again after it was answered and stored |
| Replay adapters (`replay/adapters.go`, `cdp.go`) | none (a cookie jar) | `Execute` | only one profile has a total timeout | a standard replay ends |
| Blob store (`blobstore/`) | one file per body | `Put`, `Get` | written in place, no lock, no rename | a body whose hash was returned can be read |
| HAR import (`harimport/`) | session, flows, tags | `Import` | two Puts and an insert per entry, errors half way | a flow names bodies that exist; a session is a prefix of its document |
| Browser capture (`browsercapture/`) | the current run; a goroutine, a pending map and an event channel per run | `Start`, `Stop`, `Status`, CDP events | Stop drops the mutex while it waits; the channel drops events when full; redirects reuse ids | a capture that runs can be stopped; a stored flow joins a request with its own response; Stop returns |
| System proxy (`systemproxy/`) | macOS settings, a state file per service | `Enable`, `Disable`, `Read` | a dozen commands, any of which may fail; a file that may be cut short | what Disable restores is what the user chose, and Disable can restore it |
| Workflow runner (`workflow/modeler.go`: `Run`) | `workflow_runs` | `Run` | many replays in a row, one auth refresh per step, prunes between a replay and the reading of its response | a stored run tells which steps ran, in order, up to the first failure; a step is sent what an accepted response gave |
| Workflow compiler (`workflow/modeler.go`: `Suggest`) | `workflows` | `Suggest`, `Save` | bounds on sources and bodies, colliding keys, values within other values, maps read in any order | replayed against a server that issues new values, the workflow sends those and not the captured ones |
| Auth vault, profiles (`auth/vault.go`, `jsonrpc/server.go`) | key file, `auth_profiles`, `auth_secret_bundles` | `auth.vault.save`, `auth.profiles.save`, `Open` | the key is created by whoever comes first; profiles are read, changed and written back | a bundle that was saved can be opened; its secrets are used for the profile they were saved for |
| Cookie warming (`auth/warming.go`, `cmd/deconstructd`) | `lastRuns` | `RunDue` | the list of due profiles is as old as the tick; the RPC handlers go on meanwhile | runs of a profile that came back were listed by ticks an interval apart |
| Capture proxy (`proxy/`) | capturing flag | `ServeHTTP`, CONNECT, start, stop | tunnels outlive `proxy.stop` and the shutdown; contexts that end with the client | what was forwarded is recorded |
| Certificate authority, trust store (`certs/`, `truststore/`) | two files, leaf cache, keychain | `LoadOrCreate`, `Rotate`, `TLSCertificateForHost`, trust, revoke | two files that change together; the cache; one mutex for all of it | a leaf is signed by the root in memory; the files hold that root; a CONNECT is answered |
| Store (`store/`) | SQLite, one connection | every query | foreign keys, prune, times compared as text | keys hold |
| JSON-RPC, MCP, main | connections | dispatch | a goroutine per connection; nobody waits for them at the end | (it is the scheduler of all the above) |
| Auth analyzer (`auth/analyzer.go`) | none | `Trace` | an index read in Go's map order, over flows that others change | a csrf value is linked to a response that issued it |
| Exported program (`exporter/project.go`) | none | what it sends when it is run | it binds and extracts with code of its own | it sends what a run of the workflow sends |
| Parsers, redaction, fidelity, other exports, evaluation, mobile, diagnostics | none | pure functions or one-shot commands | - | - |

How they interact: every JSON-RPC connection has a goroutine that serves its requests one
after the other (`jsonrpc/server.go:222-257`), so calls of different connections interleave
at every store, file or network access. The MCP server's HTTP handlers, the cookie-warming
goroutine, the proxy's handlers and the browser capture's goroutine do the same. The store
opens SQLite with one connection, so one statement is one atomic step, and foreign keys are
enforced. Nothing spans two statements. On a signal the context of every call is cancelled
and `main` returns without waiting for them; a crash is possible at any step.

## Modules

| Module | Models | State | Actions |
|---|---|---|---|
| `ReplayLedger` | what a reader of `flows` and `replay_runs` may rely on (abstract) | `table`, `runs` | `AddReplayFlow`, `AddRun`, `Prune` |
| `ReplayEngine` | `Engine.Run`, `RunVariations`, prunes, cancellation, restarts | the two tables, and per call a program counter and its local variables | one per access to shared state: `Begin`, `Prepare`, `Answer`/`ExecuteFails`, `RecordReplayFlow`/`RecordFails`, `TagReplayFlow`, `InsertReplayRun`/`InsertFails`, `PruneFlowsBefore`, `Cancel`, `CrashAndRestart` |
| `BlobStore` | `Put` step by step; `Get` as the predicate `Readable` | `file`, `put` | `PutBegins`, `OpenFile`, `WritePart`, `PutFails`, `BlobCrash` |
| `HarImport` | `Import` on top of `BlobStore` | sessions, rows, a program counter per call | `EnsureSession`, `PutRequest`, `PutResponse`, `InsertFlow`, `TagFlow`, `EntryFails`, `CrashAndRestart` |
| `BrowserCapture` | the manager, the capture goroutine, the CDP client; the browser is external | `current`, `stop`, `run`, `pending`, `link`, `rows` | `Start`, `StopCancels`, `StopReturns`, `Dial`, `Enabled`, `HandleEvent`, `BodyArrives`, `Persist`, `LoopEnds`; the browser's `Sends`, `Responds`, `Finishes`, `Fails`, `Replies`, `HangsUp` |
| `SystemProxy` | `Enable`, `Disable`, `Read`, one command or file operation a step; macOS and the user are external | settings, state files, calls | `EnableBegins`, `ReadSettings`, `OpenStateFile`, `WriteStateFile`, `DisableBegins`, `RunCommand`, `RemoveStateFile`, `CallFails`, `UserChanges`, `CrashAndRestart` |
| `WorkflowRun` | `Builder.Run`; a replay is one step with the outcomes that `ReplayEngine` allows a call without retries | captured flows, the replays made, the local variables of `Run`, the `workflow_runs` row | `RunBegins`, `StepTurn`, `ReplayStep`, `AssertStep`, `RefreshAuth`, `ExtractOutputs`, `InsertWorkflowRun`, `PruneFlows`, `Cancel` |
| `AuthVault` | `NewVault`, `Vault.Save`, `Open` and the handlers that write profiles | key file, profiles, bundles, one call per goroutine | `VaultSaveBegins`, `RunBegins`, `ProfileSave`, `LoadKey`, `DrawSeed`, `OpenKeyFile`, `WriteKeyFile`, `KeyFails`, `Seal`, `SaveReference`, `SaveFails`, `OpenBundle`, `Restart` |
| `CookieWarming` | on top of `AuthVault`: the ticker of main, `DueProfiles`, `RunDue`, `RunProfile` with the vault that main keeps | the last tick, the profiles listed, the bundle opened, `lastRuns` | `Check`, `RunProfile`, `RunProfileFails`, `Ran`, `NotRun`, and those of `AuthVault` |
| `FlowTable` | the `flows` and `flow_tags` tables, for the modules below | the two tables | a statement each: insert, delete, tag, untag |
| `CertAuthority` | `LoadOrCreate`, `Rotate`, the leaf cache, `ca.trust`, `ca.revoke_trust`; the keychain is external | the two files, the root in memory, the cache, the mutex as the create that holds it, the process | `CreateBegins`, `RotateBegins`, `OpenCertFile`, `WriteCertFile`, `OpenKeyFile`, `WriteKeyFile`, `Load`, `BootFails`, `RotateFails`, `TrustRoot`, `RevokeRoot`, `Boot`, `Tick` |
| `CaptureProxy` | on top of both: `ServeHTTP`, CONNECT and its tunnel, `record`, start, stop, prunes and the way main ends | `enabled`, and a record per connection | `AcceptPlain`, `AcceptConnect`, `GetLeaf`, `NoLeafForHost`, `Handshake`, `TunnelRequest`, `TunnelEnds`, `ClientLeaves`, `Forward`, `NotForwarded`, `ServerAnswers`, `InsertFlow`, `InsertFails`, `ApplyTags`, `Signal`, `Deadline`, `Exit`, `ExitLate`, `Crash` |
| `FlowInspector` | on `FlowTable`: `QueryFlows`, tags, `PruneFlowsBefore`, and `RFC3339Nano` as an order of texts | | operators, used by `FlowAnalysis` |
| `AuthTrace` | `Trace` of `auth/analyzer.go` | | operators: a turn of its loop, as the set of chains that Go's map order allows |
| `WorkflowCompiler` | `Suggest`, and what a run of its workflow sends | | operators: a turn of its binding loop, as the set of drafts that Go's map order allows |
| `ExportedClient` | the TypeScript program that `workflows.export_project` writes, and what it sends | | operators |
| `FlowAnalysis` | the composition: a connection lists or names flows, reads them one by one and makes a page, a chain or a workflow of them, while others insert, tag and prune | the tables, the local variables of the call, its result | `QueryFlows`, `CountFlows`, `PageFlows`, `AttachTags`, `FlowsListed`, `NameFlows`, `TraceHost`, `GetFlow`, `NothingMatched`, `TraceNext`, `ReturnChain`, `BindNext`, `ReturnWorkflow`; `Insert`, `AddTag`, `RemoveTag`, `PruneFlowsBefore` of others |
| `ReplayEngineProofs`, `HarImportProofs`, `BrowserCaptureProofs`, `SystemProxyProofs`, `WorkflowRunProofs`, `CookieWarmingProofs`, `CaptureProxyProofs`, `FlowAnalysisProofs` | theorems about the module they are named for | | |

`MC*` modules give the constants of these their values. A definition introduced by a comment
"Mutant of X" is X as a plausible bug would have it; no specification uses it, it shows that
the property named with it in `PROJECT.json` depends on that code.

Conventions. A step of a goroutine is what it does between two accesses to state that others
can see; local computation joins the access before it (but each turn of the loops of `Trace`
and of `inferCrossStepBindings` is a step, so that an invariant can say what the loop has
done). Ids from `id.New` never repeat, so a fresh id is any member of a set that is still free.
Bodies, headers, URLs and templates are model values, or left out where nothing is claimed
about them; where the outcome depends on them (a JSON path that is missing, an override that
does not parse) both outcomes are possible. A step of a workflow stands for its id: ids are
distinct in the workflows of `WorkflowRun`, as Suggest makes them. `serving` is the daemon's
context: once it is cancelled, store calls fail.

How the modules meet. `HarImport` puts its bodies through the steps of `BlobStore`;
`CaptureProxy` takes its certificates from `CertAuthority` and stores its flows in `FlowTable`;
`CookieWarming` opens what the calls of `AuthVault` have sealed; `FlowAnalysis` feeds what
`FlowInspector` lists to `AuthTrace`, `WorkflowCompiler` and `ExportedClient`. `WorkflowRun` and
`CookieWarming` each take a whole replay, or a whole run, as one step.

## Runs

| Run (module / cfg) | Question | Result |
|---|---|---|
| `MCReplayVariations` | two variations with a retry each, failing writes, prunes at any time: does a run row tell what was answered, and is no final answer left out of it? | holds |
| `MCReplayConcurrent` | two unrelated replays over three profiles, of which passthrough makes up its answer, a cancelled context, a crash: do the tables follow `ReplayLedger`, does a standard replay end? | holds |
| `MCHarImport` | two imports that put the same bodies, fail half way and crash: which bodies may a flow name that cannot be read? | only those of which a write was cut, or is going on; the others settle |
| `MCHarImport` / `MCBlobRoundTrip` | `Put` then `Get` gives the body back (`blobstore_test.go:18`) | violated: after a failed write the short file is taken for the body ever after |
| `MCBrowserCapture` | two captures, the second started while a Stop waits; redirects, a full channel, lost connections, failing writes, requests that fail with or without response headers | holds: a capture nobody can stop comes only from a Stop that waited for another; wrong pairs only from dropped events; Stop returns |
| `MCSystemProxy` | Enable and Disable one at a time, with failures after any command, a crash, a user who changes the settings meanwhile: are the user's settings ever lost? | not while the state file was written whole: what is saved is the user's, and goes only when it is in force again. A file whose write was cut is excepted: the next Enable takes it for saved settings, and no Disable decodes it |
| `MCSystemProxy` / `MCSystemProxyOverlap` | Enable and Disable from two connections (`docs/backend.md:10`) | violated: the service stays on the daemon's proxy and no file is left to restore it from |
| `MCWorkflowRun` | bound steps as Suggest makes them and as only `workflows.save` accepts them, an auth refresh, dry runs, prunes between a replay and the reads of its response | holds: the row tells how far the run came and names every replay; outputs come from the accepted response; a step is resent only after a refresh |
| `MCAuthVault` | a connection and the daemon's start create the key, save bundles and write profiles back, with any bundle id, failing writes and a restart, while cookie warming lists profiles and opens their bundles | holds: secrets are used for the profile they were saved for, unless a client named another's bundle; a key that does not fit the file was read while the file was empty, or two calls have written it; runs that came back were listed by ticks an interval apart |
| `MCVaultSave` | "The RPC returns the bundle ID and updates the profile reference" (`docs/backend.md:163`) | violated: it writes the whole profile back as read before, and undoes an `auth.profiles.save` in between |
| `MCCaptureProxy` | plain requests and tunnels while the root is rotated, writes of its files fail or crash, clients leave and the daemon ends | holds: what was forwarded is recorded but for four reasons, which the property lists; leaves and files agree with the root; CONNECT is answered |
| `MCFlowAnalysis` | every auth chain and every suggested workflow of up to three flows which others change while they are read, with long bodies and values within others | holds: links lead forward, and a csrf use is linked to a flow that issued the value, but for the uses that `MayHideItsSource` describes; a run sends what the server issued to it, but for what `MayBeMissed` and `Renews` name; so does the exported program |

### Bounds, and why they are enough

- *Replay*: three statuses stand for the three classes that `Run` tells apart (2xx/3xx, other
  below 500, 5xx). One retry gives a call two attempts, so every pair of consecutive outcomes
  occurs; there are as many fresh flow ids as attempts, so no insert fails for want of an id.
  A prune takes any set of stored flows, because creation times come from the imported
  document.
- *HAR*: two bodies, two calls, documents with an empty body, a repeated body and a body that
  both calls put; two writes per file, so that a file may be empty, half written or have a
  hole below a later write. One crash: a second one meets the same kinds of files.
- *Browser*: the channel holds two events instead of 256 and the request has up to two hops,
  so that the channel overflows at any event. Two runs are needed for a Stop to remove the
  wrong one. One connection calls Stop: its two halves interleave with Start, which any
  connection may call.
- *System proxy*: one service with its own state file, two servers a user may choose. Services
  only meet in a state file when their names collide under `statePath`, which is not
  modelled; the proofs cover any number of services with files of their own.
- *Workflow*: a workflow whose third step is bound to the first with an excluded one between;
  one with two unbound steps whose assertions allow a 401; and one as only `workflows.save`
  accepts it, with bindings to an excluded step, to the step itself, to a later one and to one
  that does not exist. One run of one workflow: two runs share nothing but the tables, and what
  others do to these is `PruneFlows`.
- *Vault and warming*: `MCAuthVault` has one connection beside the start of the daemon, and two
  seeds and bundles: two calls that create the key are what it takes to disagree. Two profiles
  let one wait in the list while the other is warmed, and let a client give one the bundle of
  the other, or one that is not stored; with an interval of 2 and ticks up to 3 a profile is due,
  not due and due again. `InBounds`: the daemon restarts once, and ticks once after that, or
  clients name one foreign bundle (these two have nothing to do with each other). About
  1 770 000 states. `MCVaultSave` has two connections and no warming.
- *Proxy*: one connection, one host and one flow id, since connections meet in the mutex, the
  cache and the table only, whose other users are `CertAuthority`'s actions and the prunes.
  Two roots and two starts let a rotation replace the first root and a crash meet files of
  different roots. A leaf lives for less than a unit of time, so that it expires once
  (`LeafLife = 0`, `MaxTime = 1`). Store calls do not fail (`StoreFaults = FALSE`): that a flow
  may then be missing is one of the four reasons of `ForwardedIsRecorded`, and the theorem
  covers it. About 400 000 states.
- *Analysis*: three flows. Traces take them from ten possible rows: with a token, a csrf token
  under one name and the same value under another, a response that repeats what its request
  used, a value that is too short, two hosts. Suggestions take them from thirteen: with and
  without the header, a request and a response beyond 256 KiB, a text that three values occur
  in, two of which overlap, a response with three leaves, two leaves of one key, a value in a
  nested array, an excluded flow, a status that stops the run. `InBounds` keeps the two apart:
  each kind of call meets tables of its own rows. Instants 0, 1 and 4 are in quarters of a
  second: the text of 0 comes after that of 1, and 4 is another second. A page, the sources of
  a response and the values that the compiler knows are two at most, so each limit is met.
  Others change the rows once during a call, and not after the result. About 595 000 states.

Symmetry is used for interchangeable ids in runs without liveness properties only.

### Fairness

- `ReplayEngine`: a goroutine inside `Run` keeps being scheduled and store calls return; and
  `Execute` ends for the standard profile, whose HTTP client has a total timeout of 60 s
  (`replay/adapters.go:28-33`). Of the other adapters those that send the request have none, and
  none of them is counted on (passthrough returns at once, and needs no claim).
- `HarImport`: goroutines are scheduled, file and store calls return.
- `BrowserCapture`: the same of the capture goroutine, and of Stop after its goroutine has
  ended; nothing of the browser, which may never reply. The dial ends by its handshake timeout
  or by the context.
- `CaptureProxy`: a create that holds the mutex goes on, file by file; and a CONNECT that waits
  for the mutex gets it if it is free again and again (strong fairness), because Go's
  `sync.Mutex` hands itself to a waiter that has waited too long (1 ms). Nothing is assumed of
  clients, servers or the operator who rotates.
- The other modules state no liveness.

## Proofs

Each `*Proofs` module proves its theorems for every value of the constants that satisfies the
`ASSUME`s of the module it is about; TLC evaluates the same `ASSUME`s in the runs. The pattern
is the same everywhere: an inductive invariant, one lemma per action, one theorem per property.

- `ReplayEngineProofs`. `TypeOK` is not inductive: that an attempt never exceeds the attempts
  allowed needs `AttemptLeft`, which says that a call about to execute has one left and that a
  call that has not begun has no local state. The answers of passthrough need nothing of
  their own: a 204 is an answer like another (`PassthroughAssumption`), also after the context
  was cancelled, when recording it fails. `Refinement` (`Spec => ImplementsLedger`): the
  mapping forgets the attempt and the tag of a flow; inserting a row implements `AddRun` only if
  the replay flow a call remembers is its own and carries the status it is about to report, and
  only if a call has no row yet. `CallInv` says so for each place a call may be in. Every other
  step is a stutter, an `AddReplayFlow` or a `Prune`. The three properties of the rows follow
  from `RowInv`: the status in the hands of a call is that of its last response, the flow in
  its hands is the record of that response except between an answer and its recording, no
  other flow of the call holds an answer below 500, and the row says what was in its hands.
- `BrowserCaptureProofs`. `OrphansComeFromLateStops` is inductive given the types.
  `PairedUnlessDropped` is not: it needs, for each request of which no event was dropped, the
  order of its events that are still in the channel (`QueueInv`: hops and kinds only grow, and
  a response follows its request, the end its response, which is in the channel before it or
  is what the pending map holds), and how far that lags behind the browser (`Behind`). Taking
  the first event and adding one at the end each keep both; the lemmas on positions in a queue
  say so once for all kinds. A request that failed keeps the response
  that the pending map holds, so its row needs the same facts as that of a finished one.
  `NothingLeftPending` is read off `Behind`.
- `HarImportProofs`. `HolesHaveACause` is inductive with what a Put knows (`PutInv`: its parts
  are written in order, and the file exists while it writes). `UnreadableHasACause` follows
  from it and from `RowsMatch`: a row is written after both its Puts have returned, so each
  body it names has a file, and files are never removed. `SessionIsAPrefix` rests on the place
  of a call: `Len(rows) + 1 = entry` up to the insert, and equal to it after.
- `SystemProxyProofs`. `TypeCorrect` needs nothing. The other three are proved from
  `Undisturbed`: calls do not overlap and no two services share a file; the run
  `MCSystemProxyOverlap` shows what happens otherwise. `FileOK` relates the file of a service
  to the settings and to the user's choice; `CallOK` says for each place of a call what it has
  read and, for Disable, that what is left of its commands turns the settings of now into
  those of the file (`Restoring`). A file that is "torn" is being written, or the
  write was cut (`TornOK`); the code takes either for saved settings, so `OursIsUndoable`
  excepts the second, and the first belongs to a call that has not touched the settings yet.
- `WorkflowRunProofs`. Nothing is assumed of the bindings of a workflow.
  `BoundToAcceptedResponses` needs that the outputs in the map are those of the included
  extracting steps before the current one (`TurnOK`, `Gives`), each of the last and successful
  replay of its step (`OutputsOK`), that the response which is judged is the last (`JudgedOK`),
  and that no replay is of a step not yet reached (`ReplaysOK`). `ResendOnlyAfterRefresh` adds
  `AttemptsOK`: which replays of the current step there are at each place. `RowTellsHowFar` is
  proved of the list while it grows (`FarInv`): what is in it is true of the replays, in turn
  and explained, the included steps before the current one have passed (`PassedBelow`), and its
  last entry lets the current step come next (`Expects`). `EveryReplayIsNamed` has the same
  shape (`NamesOK`): but for the replay that is being judged, the list names all there are.
- `CookieWarmingProofs`. `SecretsAreTheirOwn` is inductive with the place of a save: a bundle
  that is about to be referred to was sealed for the profile of its call, and a bundle never
  changes once it is stored; `foreign` remembers what clients named otherwise. `KeysInv`: a key
  in use is the seed of a call that has written the file, or that of the empty file, and while
  there is one writer the file holds its seed. `ScheduleInv`: a profile that is listed or runs
  was due at this tick and still is, because only its own run sets `lastRuns`; so the ticks of
  two runs are an interval apart.
- `CaptureProxyProofs`. `LeavesComeFromTheRoot` holds because the cache is emptied in the step
  that replaces the root. `FilesAreTheRoot` is strengthened to `FilesFollow`, which says at
  each step of a create which file is already the new root's. `Addressed` (a connection that
  is open has a host, and the process serves) carries `ForwardedIsRecorded`.
- `FlowAnalysisProofs`. `ChainOK` is the invariant of the loop of `Trace` after k flows: the
  artifacts with a source are those a response has shown, and the source is a flow whose
  response showed it (`SourcesOK`); a link leads from an earlier flow to a later one
  (`LinksOK`); a csrf value that is used after it was issued is linked, or the source that
  was found may be the flow itself, which then was the first to show it under some name
  (`UsesOK`, `MayHideItsSource`).
  `TurnOK` keeps it for every chain that `TraceFlow` allows, and `CsrfUsesAreLinked` follows.
  `LinksLeadForward` needs besides that the flows are in order: `InTime` sorts because the rank
  of a flow, the number of flows before it, is a bijection onto the places (`RanksAreReached`);
  and a page that a query listed keeps the order of its texts while rows come and go
  (`OrderInv`). The last holds because no flow is inserted under an id of the page. In the
  code an id is never used again; the model has finitely many, and uses the bound of one
  change during a call instead: a pruned id does not come back before the call has ended.

  `DraftOK` is the invariant of the binding loop. `PreviousOK`: a value that is known has a
  step that runs and a path of its response that issued it; and a value of use that was issued
  is known, unless its response was too long or not walked to its end, or there was no room
  (`KnownAt`: as many were known then as fit; `NoRoom`: so more had been issued). `StepOK`:
  each value that is replaced in a text occurs in it, was issued by an earlier step and is
  extracted under the same key there (`PieceOK`); and a value that was issued and stands in the
  text as it was captured was missed, or gave way to one that shares letters with it and is of
  no later step (`TextOK`, `PartsOK`). Which values occur within which, and which pairs may
  share letters, are constants (`Inside`, `Overlapping`) of which nothing is assumed but that a
  value is not inside itself. `BindFlowOK` keeps these for every draft that `BindFlow` allows,
  although a later turn adds extractions to earlier steps. `RunsSendFresh`, `RunsSendDefaults`
  and `ExportSendsAlike` follow for every workflow that is returned, without another look at
  the loop.

Every invariant and action property that a passing run checks is the subject of a theorem. Only
model-checked is liveness (`StandardReplayEnds`, `NamedBodiesSettle`, `EveryStopReturns`,
`ConnectIsAnswered`): it needs fairness and `ENABLED`, which the prover does not handle.

The constants are assumed to be what the modules' `ASSUME`s say. These were needed by
the proofs: `Requests # {}` (`BrowserCapture`: there is something to capture),
`IsFiniteSet(FlowIds)` (`FlowInspector`: a table has finitely many rows) and
`IsFiniteSet(Useful)` (`WorkflowCompiler`: `bindingValueUseful` bounds the length of a text);
`PassthroughAssumption` says that the 204 which passthrough makes up is among the statuses;
the others are natural numbers as bounds, names that are told apart, and sets that contain each
other.

## Findings

Three runs refute what a document or a test says; `PROJECT.json` quotes the lines. A blob whose
write failed can never be stored again; overlapping system proxy calls lose the user's settings;
and saving a secret undoes a concurrent change of the profile.

Other behaviours are visible in runs that pass, because the specification has to allow them:

- a replay whose original flow is pruned while the request is on the wire leaves no row,
  although `docs/backend.md:125` says that each execution is recorded;
- a system proxy state file whose write was cut is taken for the saved settings by every later
  Enable, and no Disable can decode it (`OursIsUndoable` excepts it, `TornOK` in its proof);
- a csrf use gets no link when the response to its own request was the first to show the value
  under another csrf name (`MayHideItsSource`), although `docs/backend.md:156` lists the links
  from a response to a later use;
- a capture that Stop forgot (`OrphansComeFromLateStops`), a vault key created twice
  (`StrangeKeysHaveACause`);
- a profile may name a bundle that is not stored, or one sealed for another profile, whose
  secrets its runs then use: `auth.profiles.save` does not ask (`foreign` in `AuthVault`);
- a dry run fails at the first step with an extraction (`ExtractOutputs` after a `DryRow`);
- exchanges of a tunnel are lost at an orderly shutdown, and a tunnel goes on capturing after
  `proxy.stop`;
- `ca.trust`, `ca.rotate`, `ca.revoke_trust` in this order leave the old root trusted and
  revoke the new one, because trust and revoke name the certificate by its path;
- a cached leaf certificate is handed out after it has expired;
- a binding is missed when paths share an extraction key, when the value is in an array in an
  array, in a body of more than 256 KiB, beyond the limit on the sources of a response or on all
  of them: `MayBeMissed` of `WorkflowCompiler` names these conditions for
  `SuggestionSendsFresh`. A number of seven digits or more is one of the values that cannot be
  bound, because `fmt.Sprint` writes it in another form than it was sent;
- a value that contains or overlaps another is replaced piece by piece if the other was issued
  before it, and keeps letters of the captured text between the pieces (`ReplacedIn`, `Renews`);
- flows of one second are listed in the order of their texts, so a link may lead from a later
  flow to an earlier one of that second (`LinksLeadForward` allows it for queried flows);
- a binding to a step that is excluded, later or missing is sent as the placeholder itself;
- the run of a workflow sends in a shared input the text that the last flow with that field
  had (`RunSendsDefaults`);
- the exported Python program applies no overrides at all: it is the mutant `CapturedOnly` of
  the exported TypeScript program.

## Not modelled, and why

- MCP server: a second entrance to the operations modelled here. It keeps no state.
- Body parsing, redaction, fidelity, protocol schemas, curl, OpenAPI and Postman exports: pure
  functions on text. The data they work on is abstracted to model values here.
- HAR capture command, evaluation, mobile setup, diagnostics: one-shot commands or helpers
  without state that others see.
- Sessions, migrations, statistics, saved workflows and schemas in the store; query filters
  other than host and tag. They only read, or write one row in one statement.
- The contents of requests and responses, the wire protocols of the adapters, cookies and query
  parameters in chains and workflows (they are treated like fields by the code). In the text of a
  body that Suggest binds: values in the names of its fields, in its numbers and in placeholders,
  where they are replaced as well, and values that JSON writes with escapes.
- Workflows saved with two steps of one id, which share their outputs.
- A request line longer than the scanner's buffer on a JSON-RPC connection, and the order in
  which a CDP call sees its reply and the end of its connection: each ends one connection.
- Losing power: a crash here ends the process, and what was written to a file stays.
- Reading the vault's key file while another goroutine has written only part of its 32 bytes:
  they are one write.

## Plan

Done: replay with its ledger, blobs and HAR import, browser capture, system proxy, workflow
runner, vault with cookie warming, capture proxy with the certificate authority, the compiler,
the analyzer and the exported program over flows that others change; theorems for each of these.

What would be worth adding next:

1. An abstract content-addressed store that `BlobStore` implements without crashes and faults.
2. The capture proxy with two connections to one host, and the MCP server as a second caller.
