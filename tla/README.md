# AuTHRity-APC: specifications, model checking and proofs

AuTHRity-APC is an advanced process control system: a model predictive
controller (`apc_engine`) that samples a plant over OPC UA, solves a quadratic
program once per sample time and moves setpoints; a supervisor
(`controller_host`) that deploys models and starts and stops engine processes;
an HMI (`hmi`, Rust back end and React front end); an OPC UA server
(`opcua_server`) whose address space is hot-reloaded when a model is deployed;
and a simulated plant (`virtual_plant`). This directory holds TLA+ modules for
the parts whose behaviour depends on the order in which things happen, TLC
configurations that check them, and TLAPS proofs.

## 1. Inventory

| Component | State it keeps | Operations | Talks to | What is hard |
|---|---|---|---|---|
| Engine loop, `apc_engine/src/main.rs` | connection, `heartbeat_counter`, `consecutive_failures`, the sample of the current scan, the controller object | connect, probe, push baseline, sample, validate, solve, demote, write setpoints, heartbeat, pause, reconnect | OPC UA nodes shared with operator, DCS and plant; one read or write per await | everything sampled is stale when used; writes are fire and forget; failing scans take other paths |
| DMC algorithm, `dmc.rs` | `prev_prediction`, matrices | `next_move`: shift, correct, feed forward, solve, keep or discard | called by the loop | which paths keep or drop the prediction; index arithmetic at the ends of the horizon |
| Saving the configuration, `main.rs` | model snapshot file | trigger node, read live values over the baseline, write JSON | OPC UA nodes, file system | partial reads keep baseline values; the file written is the input of a later start |
| Controller host, `controller_host/src/main.rs` | `processes` map, `opc_client_defaults` in memory and on disk, model folders, child processes | start, stop, watch, set defaults, deploy, list | HMI back end (HTTP), engine processes | check and insert are separate critical sections; the kill is not awaited; the map is not persisted |
| OPC UA worker, `hmi/src/opc_worker.rs` | session, failure count, command queue, broadcast channel | connect with back-off, validate, subscribe, write, read all, ping | OPC UA server, all browsers, historian | commands dropped while disconnected; snapshot and subscription race |
| Historian, `hmi/src/historian.rs` | `last_logged`, buffer, batch count | log update under a dead-band, flush by size or timer, request snapshots | broadcast channel, QuestDB | what is marked as logged before it is flushed |
| Authentication, `hmi/src/auth.rs` | users, failed attempts, lock-out, `auth_version`, sessions | login, logout, role / disable / password changes, per-request check | every route | checks and updates in separate statements |
| Routes, `hmi/src/web_routes.rs`, `infrastructure.rs` | infrastructure row, audit log | write over WebSocket, save infrastructure, deploy bundle, proxy | worker queue, controller host, OPC UA server | multi-step operations that stop half way; read-modify-write of one row |
| Front end: tag store and write hook, `store/tagStore.ts`, `hooks/useWriteNode.ts` | tags with pending marks, timers | optimistic write, time-out, polling, update | WebSocket | which update confirms which write |
| Front end: root, `App.tsx`, `lib/api.ts` | who is logged in, CSRF token, socket, controller on display, two switches | bootstrap, keep-alive, login, logout, password, socket events, selection, toggles | sessions of the back end, WebSocket | answers in any order, sockets that end late, switches against the mode heard |
| Front end: model generator, `ModelGenerator.tsx` | tables of CVs, MVs and DVs, their matrices, imported coefficients | add, remove, move, resize, upload, import, load from a host, save, deploy | files, controller host, engine's loader | separate arrays that must stay aligned; files read at any later time |
| Front end: step response tool, `StepResponseTool.tsx` | range, series, step time, responses | load, detect the step, calculate, export | historian, calculation in `web_routes.rs` | results that belong to earlier choices |
| Front end: trends tab, `TrendsTab.tsx` | window, buffer, choice of series with drafts, stored preferences | window controls, requests, live mode, fitting of limits | historian | answers in any order, when to ask again, what an answer may overwrite |
| Front end: settings, `SettingsView.tsx` | lists of servers and hosts, security panel, accounts, audit list | edit, load, save, restart, change accounts | routes, hosts, OPC UA servers' administration | overlapping loads and saves of one form, partial failures |
| Front end: other views | none to speak of | display | WebSocket, single requests | little: they show what they are sent |
| OPC UA server, `opcua_server/src/bridges` | address space, node files, security configuration | inject nodes, hot reload, save, restart | all OPC UA clients | memory and disk diverge when saving fails |
| Virtual plant | simulated process | write outputs and measurements each cycle | OPC UA server | floating-point arithmetic; its effect on the others is an environment action |

What makes each part correct: the engine moves a setpoint only under
permissions it sampled in this scan and never engages by itself, moves it only
within safety limits it sampled, always knows which moves its prediction accounts for, and
gives up when solving fails; the supervisor runs at most one engine per
controller and its record agrees with the processes; the HMI shows the value
the server holds, reports a write as done only when it was, and the historian
loses nothing it marked as logged; a revoked session or role stops working; a
deployment that reports success is running; a model that was edited, imported or
moved about is still the model its author meant and one the engine can load; the
trends show the window and the series asked for; a settings form does not write
one server's configuration into another.

`PROJECT.json` lists all components with their status and every hazard with the
properties that watch it.

## 2. Modules

| Module | Role |
|---|---|
| `EngageGate` | abstract: under which permissions the engine moves a setpoint |
| `LimitGate` | abstract: to which values it moves a setpoint |
| `ApcEngine` | the engine's loop with operator, DCS, plant, network and crashes; its properties |
| `MCApcEngine` | instances of `ApcEngine` for TLC |
| `ApcEngineProofs` | type correctness, the prediction behind every write, and that `ApcEngine` implements `EngageGate` and `LimitGate`, proved |
| `ControllerSlot` | abstract: one controller as an operator sees it, at most one working engine |
| `Supervisor` | the controller host: requests, process table, engines, exit watchers, client defaults |
| `MCSupervisor` | instances of `Supervisor` for TLC |
| `SupervisorProofs` | type correctness, the table against the processes; under serial requests one engine per controller, and that `Supervisor` implements `ControllerSlot`, proved |
| `OpcWorker` | the HMI's OPC UA worker: connection, command queue, snapshots and subscription |
| `MCOpcWorker` | instances of `OpcWorker` for TLC |
| `OpcWorkerProofs` | retry delay, type correctness, the status told, snapshots against reports, proved |
| `WriteHook` | writes in the browser: tag store, pending marks, time-out and polling |
| `MCWriteHook` | instances of `WriteHook` for TLC |
| `WriteHookProofs` | a write that waits is timed unless writes of two nodes overlapped, an error means no update, proved |
| `Filtering` | the filter of a list, as a function that can be proved about; used by both pages |
| `ModelEditor` | the model generator: tables, matrices, files, and the engine's loader as judge |
| `StepResponseTool` | extends it by its step response tab, with the HMI's calculation |
| `MCModelEditor` | the instance of both for TLC |
| `ModelGeneratorProofs` | what the helpers on arrays compute; every property of the two, proved |
| `TrendsView` | the trends tab: window, buffer, requests, live mode, choice of series |
| `MCTrendsView` | its instance for TLC |
| `TrendsViewProofs` | the buffer follows the window, typed limits stay, the choice comes back, proved |
| `HmiSession` | the front end's root against sessions, socket and modes of the controllers |
| `MCHmiSession` | its instance for TLC |
| `HmiSessionProofs` | no socket without a login, the switches are honest, proved |
| `OpcSecurityPanel` | the security panel against the administration of the OPC UA servers |
| `SettingsForms` | extends it by the lists of the settings page and the user accounts |
| `MCSettingsForms` | the instance of both for TLC |
| `SettingsFormsProofs` | what the operators on lists and profiles compute; every invariant of the two, proved |

`ModelEditor` with `StepResponseTool`, and `OpcSecurityPanel` with
`SettingsForms`, are compositions of parts of one page: the upper module adds its
variables and interleaves its actions with those of the lower one. `ModelEditor`
also composes the page with the engine: `CountsMatch` is what `modelloader.rs` wants
of the numbers of rows and columns.
`ApcEngine` and `Supervisor` name their abstract specifications and the mappings
to them (`GateSpec`, `LimitSpec`, `SlotSpec`).

### ApcEngine

The engine is one Tokio task, so the points at which something else can happen
are its awaits. `pc` names the OPC UA call being awaited and each action is the
code from one such call to the next.

| Code (`apc_engine/src/main.rs`) | Action |
|---|---|
| connect, wait, probe `OperatingMode` (430-495) | `Connect`, `ProbeOk`, `ProbeFails` |
| push baseline limits, reset counters (509-658) | `Push` |
| section A, twenty bulk reads (694-761) | `ReadMode`, `ReadMvMode`, `ReadTarget`, `ReadHiHi`, `ReadLoLo`, `ReadFails` |
| Idle branch, input validation (834-934) | `IdleScan`, `RejectInputs` |
| `next_move` and the failure count (936-992, 1012-1017) | `SolveOk`, `SolveFails` |
| the ladder Engage, Monitor, Idle (993-1011) | `Demote` |
| second read of the outputs (1029-1033) | `RereadOps` |
| section E, one iteration per MV (1062-1107) | `WriteBumpless`, `WriteMove`, `WritesDone` |
| heartbeat, countdown (1143-1174), reconnection (1176-1179) | `Beat`, `Sleep`, `Reconnect` |

The OPC UA nodes are variables; `sp` is written by the engine only. Reads are
kept for the groups a setpoint decision depends on; the values used only by the
optimisation (measurements, outputs, targets, weights, soft limits) are abstracted into
the choice of `plan`, which ranges over all values: the solver may propose
anything, so a property that holds does not rest on the solver being right.
All reads of the code happen before any is examined, so `ReadFails` may take
effect at any of them. `Landed` is the fire-and-forget write: with the fault
`write` the node may keep its old value. `solverStatus` and `heartbeat` are kept
because operators watch them; trajectories and statistics are not.

`pred` is `controller.prev_prediction`, known by the plan whose moves it contains:
a solve in Engage stores it, one in Monitor discards it, a solve that fails wipes
it, and a solver that cannot be initialised leaves it as it was. The failure count
saturates at `IdleAfter`, the heartbeat counts modulo `BeatMod`; both bounds keep
every comparison the code makes. The environment is the operator (mode, targets,
limits), the DCS (loop modes), the plant (outputs, which nothing keeps inside the
limits) and the supervisor (kill, launch).

### Supervisor

The controller host serves HTTP requests on a pool of threads. Nothing but its
two mutexes orders the requests, so a step of a handler is what it does under
one lock, or between two; `req[h]` holds the place of handler `h` and its
locals.

| Code (`controller_host/src/main.rs`) | Action |
|---|---|
| `start_controller`: check under the lock of `processes` (441-451) | `StartChecked` |
| copy and override the defaults, validate (453-490) | `StartResolved`, `StartRefused` |
| store them again, in memory and in the env file (492-499) | `StartStored` |
| log files, spawn (507-566) | `Spawned`, `SpawnFails` |
| `try_wait` (568-597) | `ExitedAtOnce`, `StillThere` |
| insert into `processes`, spawn the watcher (598-616) | `Recorded` |
| watcher: wait, lock, compare the pid, correct the state (614-642) | `Watched` |
| `stop_controller` (730-756), one critical section | `Stop` |
| `set_opc_client_defaults` (376-427) | `SetInMemory`, `SetInFile` |
| end and restart of the host; children are not ended with it | `Restart` |

`record` is the `processes` map. An engine is an operating-system process that
outlives the host: `alive` or `dead`, `doomed` once a kill was sent to it,
`watched` while a task of the host waits for it; `Exits` ends it at any time.
A write of the env file may fail, which leaves the file cut short or as it was
(what is read from it then is left open), and so may the spawn of the kill command;
the code ignores both. Two settings and the value `Keep`, for a request that overrides
nothing, tell apart whose settings end up in memory and file.

`ControllerSlot` sees a controller through the state listed for it and a phase:
no engine, one started and not yet listed, one listed, or one that ended before
it was listed. `SlotSpec` is the refinement.

### OpcWorker

The worker is one Tokio task; `at` names the call it waits for. The callback of
the subscription runs in a task of the client library, so reports reach the
broadcast channel between any two steps of the worker.

| Code (`hmi/src/opc_worker.rs`) | Action |
|---|---|
| read the settings, announce no connection (101-128) | `ReadConfig` |
| user name or password empty (138-150) | `NoCredentials` |
| connect (168-199), validate (201-228, 544-595) | `Connected`, `ConnectFails`, `Validated`, `ValidationFails` |
| `wait_retry_or_reconnect` (526-542) | `WaitEnds`, `TakenWhileWaiting` |
| discovery and subscription (230-268, 366-436) | `Discover` |
| `read_and_broadcast` (438-482): the read, then the broadcast | `SnapRead`, `SnapFails`, `SnapSend` |
| commands of the main loop (275-340) | `TakenWrite`, `TakenReadAll`, `TakenReconnect` |
| the ping (342-359) | `PingFails` |
| an item is sampled and differs from what was reported last (411-429), callback of the subscription (384-404) | `Sampled`, `Reported` |
| senders: WebSocket, historian's timer, settings page | `Put` |

`told` is the last value broadcast for a node, and `from` by which path. A monitored
item is sampled now and then, has a queue of one and the default filter: `last` is
the value it reported last, `report` the one on its way to the callback, and `Due`
says that a sample taken now would be reported. A value that leaves and returns
between two samples is never reported. Leaving a session (`TakenReconnect`, `PingFails`) does not
close it, and its items go on reporting: `items` holds those of all living
subscriptions. A new subscription takes any member of `Subs`, also one that old
items use, which keeps their number finite. Discovery handles one model after
the other; here they are taken together. Commands carry one kind of value; the
server's refusal of a node or type is the failed write. The attempts of the
client library to restore a broken session by itself are left out, so a session
lost with the server is found by the ping.

### WriteHook

Each action is one JavaScript callback. `writes` lists the writes made through
one use of the hook, with the node at that time, whether their interval polls,
whether an update of the node came in since, what the user was told, and whether a
write of another node was polled for at the same time (`alone`). The node of the hook
may change with every write, as in the tables that use it (`ProcessTable.tsx` 48,
`TuningTab.tsx` 36, 143).

| Code | Action |
|---|---|
| `updateTag` (`store/tagStore.ts` 32-49) | `UpdateTag` |
| `write` (`hooks/useWriteNode.ts` 21-52) | `WriteNode` |
| its time-out (45-52) | `TimedOut` |
| its interval (56-66) and the end of the polling (68-71) | `Polled`, `PollingEnds` |

The order of the time-out before the end of the polling is the order of their
delays (3000 and 3500 ms); otherwise timers and updates interleave freely.

### ModelEditor and StepResponseTool

React takes over a state at the end of an event handler; a handler is one
action, and what it starts (a file reader, a request) ends in another. A pending
file keeps the model its closure saw, which is what it will be merged into.

| Code | Action |
|---|---|
| the tables (`ModelGenerator.tsx` 1130-1361) | `AddCv`, `RemoveCv`, `AddMv`, `RemoveMv`, `SetTarget`, `AddDv`, `RemoveDv` |
| `moveMvToDv`, `moveDvToMv` (148-261) | `ToDv`, `ToMv` |
| matrices, mode (1065-1070, 1376-1455) | `EditMatrix`, `EditMatrixDv`, `SetMode` |
| `handleFileUpload`, `handleLoadModelFromController` (280-435) | `PickModel`, `ReadModel`, `ReadFails` |
| `handleStepResponseUpload` (437-671) | `PickMdl`, `ReadMdl` |
| `handleStepResponseJsonImport` (674-814) | `PickJson`, `ReadJson` |
| `downloadFile`, `handleDirectDeploy` (816-823, 995-1053) | `Download`, `Deploy`, `Deployed` |
| the tab `StepResponseTool.tsx`: controls (236-364, 486-490) | `SetStart`, `SetEnd`, `SetInput`, `ToggleCV`, `SetStep`, `SetBaseline`, `Fill`, `FillOther` |
| `loadHistoricalData` with `autoDetectStep` (41-132) | `LoadData`, `HearData`, `DataFails` |
| `calculateStepResponse`, `exportToJSON` (134-200) | `Calculate`, `HearResponse`, `ResponseFails`, `ExportToJSON` |

An entry of a matrix is the pair it was entered or measured for, or `Zero`; that
is all `MovesKeepData` and `ImportMerges` tell apart. A model file is what
`GenerateJson` makes of a model, and it is judged by the numbers of rows and columns
the engine wants (`CountsMatch`, from `modelloader.rs`). The engine also wants every
curve to be as long as the horizon; the length of curves is not modelled. The editor
computes the horizon back from the sample time in floating point
(`ModelGenerator.tsx` 477, 898), so for some sample times the file may say one more
than the curves have, and the loader would refuse it. Two imports that are read at
the same time into a model that already holds coefficients share its arrays; that
case is left out (`PickJson`). Effects that run after a render (`Truncates`)
are part of the action that renders.

### TrendsView

| Code (`TrendsTab.tsx`) | Action |
|---|---|
| mount with the stored preferences, unmount (719-792) | `Open`, `Close` |
| mount for one render on the way to a controller (`App.tsx` 186-205) | `Glance` |
| variables of the controller (794-828) | `Variables` |
| range, shift, custom and live window (1000-1048, 1549-1554) | `SetTimeRange`, `ShiftWindow`, `ApplyCustomWindow`, `UseLiveWindow` |
| choice of series, presets, limits, drafts (454-522, 863-930) | `ToggleVariable`, `SetEnabled`, `UpdateAutoScale`, `UpdateDraft`, `CommitField`, `SetFilter` |
| sampling, refresh (1264-1267, 1769-1772) | `SetSampling`, `Refresh` |
| timer of live mode (1388-1399) | `Tick` |
| `fetchTrendsData` after its await (1269-1325) | `Data`, `Unauthorized`, `Fails` |

Three effects follow a render: the preferences are saved, the chart copies the
buffer, and a window outside the buffer asks for more. `Rendered`, `Copies` and
`Saved` are conjuncts of every action that renders, so that no behaviour is
checked in which an effect does not run. The effects of a first render see no series
yet and save that; `Open` ends with the render that follows, `Glance` is a mount that
does not get that far. Time advances with the timer.

### HmiSession

| Code | Action |
|---|---|
| `apiFetch` and its answers (`App.tsx` 119-164, 498-576; `api.ts`) | `KeepAlive`, `Login`, `Logout`, `ChangePassword`, and `Deliver`, with one operator per answer |
| the handlers of `auth.rs` (778-936) | `Serve`: `AnswerMe`, `FindUser`, `AnswerLogin`, `RefuseLogin`, `AnswerLogout`, `StorePassword`, `RenewSession` |
| change of the role by an administrator (`auth.rs` 628-656) | `SetRole` |
| socket events (`App.tsx` 280-330) | `SocketOpens`, `SocketRefused`, `SocketDropped`, `OldSocketEnds`, `Message` |
| `handle_socket` (`web_routes.rs` 881-934) | `Announce`, `Write` |
| choice of a controller and its configuration (187-272, 608-613) | `Select`, `Loaded`, `LoadFails` |
| the two switches (333-346, 469-480) | `Toggle`; `Synced` is part of every action that renders |

A password change is two writes of the server (`StorePassword`, `RenewSession`)
with other requests between them; a login reads the role with the credentials
(`FindUser`) and the version of the account later (`AnswerLogin`). Bumping `auth_version` is how a change of
role, too, ends sessions. `SetMode` stands for whoever else moves the mode of a
controller: engine, DCS, another operator.

### OpcSecurityPanel and SettingsForms

A call keeps the arguments it was made with and is handled by the server at any
later time, in the steps between which other calls may be handled: reading the
file and writing it (`ServePanel`), storing the row and pushing it host by host
(`ServeInfra`). The page names a server by its id; the proxy looks the address of
that id up in the stored row for each request (`Addresses`), and it is by its address
that a server has its file (`files`). So storing a row may readdress a panel that is
open (`Readdressed`). The HMI's database does not fail in the model: the code stores
a fallback over the row when a read of it fails (`web_routes.rs` 242-248). A change of
the own role or password ends the own session; the model goes on granting.

| Code | Action |
|---|---|
| security panel (`SettingsView.tsx` 292-479, 753-902) | `Toggle`, `UsePanel` (profiles, default, tokens, save, restart), `HearPanel`, `LosePanelCall` |
| administration of an OPC UA server (`web_api.rs` 192-519) behind the proxies (`web_routes.rs` 461-549) | `ServePanel` |
| lists of hosts, servers and client settings (202-290, 579-628) | `UseInfra`, `HearInfra`, `LoseInfraCall` |
| `save_infrastructure`, `save_controller_host_clients`, `sync_controller_host_opc_defaults` (`web_routes.rs` 259-437) | `ServeInfra`: `TakeSave`, `TakeClients`, `StoreRow`, `Push`, `PushFails`, `Pushed` |
| accounts and audit list (482-568, 1131-1278) | `UseUsers`, `HearAccounts`, `LoseUserCall` |
| `list_users`, `create_user`, `update_user_role`, `set_user_disabled` (`auth.rs` 577-656) | `ServeUsers` |

## 3. Runs

| Run | Instance | Checks |
|---|---|---|
| `EngineScan` | one MV, limits `<<1,2>>` that the operator may narrow, values 0..2, thresholds 2 and 3, all faults and solver results | `TypeOK`, `WriteIsPredicted`, `GateSpec`, `LimitSpec` |
| `EngineLadder` | every solve fails, writes may be lost, thresholds 2 and 4 | `FailureDisengages`, `HeartbeatResumes` |
| `SupervisorConcurrent` | one controller, two requests at a time, three engines, two settings, all faults, restarts | `TypeOK`, `RunningIsWatched`, `WatcherSpares`, `DeadIsReported` |
| `SupervisorSerial` | two controllers, one request at a time, three engines, spawn and file failures | `OneServing`, `ServingIsManaged`, `SlotSpec` |
| `WorkerLink` | one node with two values, two subscriptions, a queue of one, all faults, reconnection requests | `TypeOK`, `StatusFollowsLink`, `OnlySnapshotsMislead`, `BroadcastConverges`, `LinkRecovers` |
| `WriteHook` | three writes of two nodes through one hook | `HookInv`, `ErrorMeansNoUpdate`, `PendingEnds` |
| `ModelEditor` | two CVs, two inputs, files with a block too many and a block too few, responses for an MV and a DV, two recorded series | `EditorInv`, `ToolInv`, `MovesKeepData`, `ImportMerges`, `UploadsFill` |
| `TrendsView` | two series, windows of two lengths, two requests at a time, one failure | `TrendsInv`, `SelectionSurvives`, `TypedLimitsKept`, `LiveShowsAll` |
| `HmiSession` | an operator and two controllers, one of them in control at first; two calls at a time, one fault | `SessionInv`, `OnlyTogglesDiffer`, `SessionConverges`, `SwitchesConverge` |
| `SettingsForms` | two servers, three addresses, two hosts, two profiles, two tokens, two accounts; five kinds of visits, two calls at a time, one fault | `SettingsInv`, `PanelMatches`, `RowFollowsPage`, `UsersMatch`, `RequestsReport` |
| `V_OneServing` | one controller, two requests at a time, no faults | `OneServing`, expected to be violated |
| `V_ColdStart` | one MV, a solver that solves or cannot be initialised, no faults | `FailureColdStarts`, expected to be violated |

* `WriteIsPredicted`: the plant is never moved by a scan whose prediction the
  controller did not keep.
* `GateSpec`: the refinement of `EngageGate`.
* `LimitSpec`: the refinement of `LimitGate`. Limits are read one group after the
  other and may change before the write, so what is promised is the most that can be:
  a setpoint changes to a value under a high-high limit and over a low-low limit each
  in force since the scan began, or to an output the loop had in that time (the
  bumpless transfer, which the code does not check against the limits), or to the
  zero that stands for outputs that could not be read (`Fallback`).
* `FailureDisengages`, `HeartbeatResumes`: under a quiet operator the ladder
  ends outside Engage, and in Idle, whose scans beat.
* `RunningIsWatched`: however starts, stops, exits and restarts interleave, a
  controller listed as running names an engine that was started for it, and a
  task that will notice its end. Hence `DeadIsReported`.
* `WatcherSpares`: stop and start again before the watcher of the first engine
  runs; it must not mark the second one stopped.
* `OneServing`, `ServingIsManaged`, `SlotSpec`: with requests one after the
  other and a host that stays up, a controller has one working engine at most,
  and it is listed or about to be. Both conditions are necessary: `V_OneServing`
  shows overlapping starts, and after a restart of the host the table is empty
  while the engines go on.
* `StatusFollowsLink`: whatever failed or was asked for, the browsers are told of
  a connection only while the worker serves one.
* `OnlySnapshotsMislead`: browsers that show a wrong value with nothing under way to
  correct it have it from a snapshot: one read before a report and broadcast after it,
  or one that told a value the subscription never reported, because the value returned
  to what was reported last before it was sampled. What a report told is right or
  will be corrected, the reports of an abandoned subscription included.
* `BroadcastConverges`: the next snapshot repairs this, once values rest. It is
  the historian's timer that asks for snapshots; with no historian running the
  browsers may keep the old value until a page is opened or the value moves.
* `LinkRecovers`: a server that stays up is served again, whatever came before.
* `HookInv`, `PendingEnds`: a write that waits has its time-out running and does not
  wait for ever, if no write of another node was polled for beside it. The condition
  is necessary: a hook has one time-out, which a write of another node takes over and
  the acknowledgment of another node stops, and the mark of the first write then stays
  until an update comes.
* `ErrorMeansNoUpdate`: a failure is reported only if no update came in.
* `EditorInv`: until coefficients are imported, whatever was added, removed,
  moved, saved and loaded, the parametric model has the rows and columns the engine's
  loader wants; and the nodes the model names are in the node file deployed with it.
* `MovesKeepData`: an input that changes from MV to DV or back takes along what the
  matrices of the mode in use say of it, and nobody else's data change place there.
  Nothing is claimed of the other mode's: curves imported before do not follow a move
  made in parametric mode (`ModelGenerator.tsx` 173, 231).
* `ImportMerges`: every response of an imported file ends at its pair, whatever the
  tables were when it was read.
* `UploadsFill`: a legacy file that parses gives a curve for every pair, also where it
  lacks a block or a response, and the rows and columns the loader wants.
* `ToolInv`: a step time the tool found is the first of the largest changes of
  what was loaded; the warning of a short baseline is true; the exported label is
  right unless another input was chosen after the calculation was asked for.
* `TrendsInv`: a window the buffer does not reach is being asked for, unless a
  request failed since. Answers carry no number, so the last to arrive replaces
  the buffer, be it the one to the oldest question.
* `SelectionSurvives`: leaving the tab and coming back keeps the length of the window,
  and the choice of series if what was drawn last were the same series. The condition
  is necessary: coming from another page to a controller, `App.tsx` (189-198) draws the
  tab for one render before it takes it away to load the model; that render has no
  series and saves none, and the stored choice is lost. This happens in the code.
* `TypedLimitsKept`: limits that were typed give way to fitted ones only in an
  answer to a request that was made while the series scaled itself.
* `LiveShowsAll`: live mode catches up again and again with the present, the
  series and the sampling chosen, for none of which changing them asks by itself.
* `SessionInv`: no late event of a closed socket leaves a socket behind or a
  reference to a dead one, and nothing else is asked before the first answer.
* `OnlyTogglesDiffer`: the switches come to differ from the last mode heard only
  by the user's own hand, through selections, loads and messages in any order.
* `SessionConverges`: when changes cease, a page that takes itself for logged in
  has a session at the server, and the role and the token of that session. An
  answer that overtakes a login may put an old token in place; the keep-alive
  repairs it.
* `SwitchesConverge`: a switch shows a mode before it is written, and the write
  may be dropped by a closed socket, a lesser role or a full way; while a socket
  stays open the switches come to show the mode the controller is in.
* `SettingsInv`: servers store no default profile they do not have and no secured
  profile that admits ANONYMOUS; the server prevents the one, only the page the
  other. The page has one row of client settings per controller host.
* `PanelMatches`: while no call of the panel overlapped another or an edit or failed,
  and no stored address changed under a panel that shows or asks for a server, the panel
  shows what its server has, and a save goes where its profiles were read. Both
  conditions are necessary: the answer of a load fills the panel whichever server it
  shows by then; and an address edited and stored while the panel is open sends the
  profiles of the old address to the new one, without any call failing.
* `RowFollowsPage`: while no load and no save of the lists failed and none overlapped,
  the stored row loses only what the administrator removed, and hosts have its settings.
  A load that failed leaves the lists empty, and a save then stores that; a push that
  failed leaves a host behind its row. The model contains both; the property excludes
  them.
* `UsersMatch`: while no call on accounts failed or overlapped, a page with nothing under
  way shows the accounts and the events of its filter. The variables `panelCalm`,
  `infraCalm` and `usersCalm` are history variables that record these conditions.
* `RequestsReport`: no request stays "busy" - but for a new account whose answer
  is lost, as `createUser` has no handler for that. It rests on every handler answering;
  the push to the hosts uses a client without a time-out (`web_routes.rs` 386), so a
  host that accepts a connection and never answers is outside the model.

One MV suffices for everything that concerns the order of steps in a scan; that the
permissions and limits of one loop never move another is left to the proofs, which
hold for any number of MVs. Two values inside the limits and the fallback 0 outside
them, with limits that may be narrowed to one value, separate the outcomes of every
comparison. The thresholds 2 and 3 (2 and 10 in
the code) keep both rungs of the ladder and the scans between them.

Three engines (`MaxPid`) let a controller have a dying engine, its successor and
a third one in the making, the longest chain a watcher can confuse; at the bound
a spawn fails. Two handlers are the least that overlap, two controllers the
least that could be mixed up. `Stop` needs no handler, since it is one step.

One node is enough for the worker, whose paths for different nodes share only the
queue; two values tell old from new; two subscriptions are one present and one
abandoned. A queue of one still lets a command wait in every place the worker can
be; its order matters to none of the properties. `BaseRetry` 2, `MaxDelay` 10 and `FailureCap` 2
(4 in the code) let the delay meet both its caps. Three writes (`MaxWrites`) are one
whose time-out is running, one before it that still polls, and one after, of two
nodes, so that they may overlap or not; one value is enough, as no step compares values.

For the four pages the bounds count operations. In `ModelEditor` five operations
on the tables (`MaxOps`) are enough to build a table, move an input, import, and
move it back, with a file picked before and read after any of them; two of each
variable (`MaxVars`) make a row or column that is not the last one. The tool's
seven operations are a range, an input, an output, a load, a choice in between,
a calculation and an export; the tab opens after at most `ToolOpens` operations
on the tables, since it reads only their tags. One input moves twice by the same
amount, so that first and last of the largest changes differ, and one by no more
than the threshold before its step. In `TrendsView` the window can leave what the
preload covers on either side (`Start` 6, `MaxTime` 7, custom times 5 and 7),
and two requests are the least that overtake each other. In `HmiSession` three
operations are a login, something, and a logout or another login, against one
change by others and one lost call or dropped socket; two calls are the least that
overtake. In `SettingsForms` a behaviour is one visit of `Visits`: four operations
in the panel, two there and one on the lists, one there and two on the lists (an
address edited and stored while the panel is open), three on the lists, or three on
the accounts as an administrator. The forms share nothing but the list of servers and
their addresses. Four runs say
`CHECK_DEADLOCK FALSE`: a user may stop, and the bounds run out.

`V_OneServing` must find a violation: the controller host answers that a
controller is already running, and two overlapping starts both run. So must
`V_ColdStart`: a comment says that a failure wipes the prediction (`dmc.rs` 834), and
a solver that cannot be initialised returns before (`dmc.rs` 768-780), so that a later
solve shifts a prediction from before the failure. These are the findings of
`PROJECT.json`.

Where code and words disagree, or the code does what nobody may expect, and no
run is kept for it:

* The demotion to Monitor writes that mode over whatever the node holds by then:
  a controller the operator put to Idle during the scan is raised to Monitor.
* A bumpless transfer writes 0.0 when the second read of the outputs fails
  (`main.rs` 1033), where `DCS_ADAPTER_GUIDE.md` 44 speaks of the current output; and
  an output outside the safety limits is written back unchecked (1084).
* A reconnection pushes the baseline over limits the operator changed since.
* The write hook reports success after its own time-out, because the poll takes
  the cleared mark for a confirmation.
* A hook whose node changes between overlapping writes loses the time-out of one.
* An address edited under an open security panel, a failed load of the settings lists,
  and a glance at the trends tab: see `PanelMatches`, `RowFollowsPage` and
  `SelectionSurvives` above.
* Removing a variable leaves its imported coefficients (`ModelConfig.ts` 60), so
  those of later variables shift; `EditorInv` and `MovesKeepData` speak of models
  that were not left in that state.
* The smart fill of the step response tool writes an instant in UTC into a field
  that is read as local time, so "1 hour later" is off by the zone (`Zone`).
* The WebSocket called persistent is opened once per login and never reopened.

### Fairness

`FairSpec` assumes weak fairness of the engine as a whole: it is one task whose
awaits are calls with a time-out or sleeps. Strong fairness of `DemoteLands`
says that a demotion, written again on every failing scan, is not lost for
ever. Nothing is assumed of operator, DCS or plant.

For the controller host the only fairness is that of each watcher: the runtime
polls a task whose child has exited. Requests may stop at any point for ever.

For the worker: it goes on (weak fairness); an attempt that may succeed does so
in the end if it is repeated (strong fairness of `ReadConfig`, `Connected`,
`Validated`, `SnapRead`); the wait for a retry is a pinned sleep that commands do
not restart (weak fairness of `WaitEnds`); the library delivers notifications;
`SF_vars(Put(ReadAll))` is the historian's snapshot timer. Strong fairness of
`PingFails` without a session is the one assumption the code does not give by itself: every
command restarts the second the ping waits for, so it says that commands pause.
Timers of the browser fire; no update need ever come.

For the pages: a call that is not lost is answered and the answer delivered (weak
fairness of `Serve` and `Deliver`, of every `Data`, of `Answers`), and timers fire
(`KeepAlive`, `Tick`); sockets open or are refused; messages on an open socket are
delivered. Strong fairness of `Announce` is the worker's: it broadcasts every mode
again and again (its periodic snapshots), and the bound on messages under way
makes the action disabled now and then, which the channel of the code is not.
Nothing is assumed of users, administrators or controllers.

## 4. Proofs

The theorems hold for every value of the constants that the assumption of the
module allows, and each assumption says no more than that thresholds are numbers
in order, bounds are naturals, and `None` is not one of the things it stands
beside. The two of the settings page also say what a page finds when it is opened:
the security file of each server is one the server could have written (its default
profile exists, its profiles list tokens it has, ANONYMOUS only where no security is
asked for), and each host has the settings stored for it.

| Module | For any | Assumption |
|---|---|---|
| `ApcEngineProofs` | number of MVs, values, limits, thresholds, faults, solver results | `EngineAssumption` |
| `SupervisorProofs` | controllers, requests at a time, engines, faults | `SupervisorAssumption`; serial requests for three theorems |
| `OpcWorkerProofs` | nodes, values, subscriptions, delays, queue | `WorkerAssumption` |
| `WriteHookProofs` | nodes, values, writes | `HookAssumption` |
| `ModelGeneratorProofs` | tags, files, responses, recorded series, thresholds, numbers of operations | `EditorAssumption`, `ToolAssumption` |
| `TrendsViewProofs` | series, tags, window lengths, preloads | `TrendsAssumption` |
| `HmiSessionProofs` | controllers, calls, messages, operations, faults | `SessionAssumption` |
| `SettingsFormsProofs` | servers, profiles, tokens, hosts, settings, accounts, calls, faults, visits | `PanelAssumption`, `SettingsAssumption` |

### Engine

* `TypeCorrect`: `Spec => []TypeOK`. `TypeOK` is inductive because the index
  and the sample return to neutral values when their scope ends.
* `WritesArePredicted` rests on `PredInv`: from the solve to the last write the failure
  count is zero and, in Engage, the stored prediction is that of the plan being written.
  `WriteIsPredicted` alone says nothing about the states between the solve and the
  write, hence the strengthening.
* `EngineImplementsGate`: the step simulation needs `ScanInv`, that the sample
  is empty before each of its reads and outside a scan; without it dropping the
  sample could look like granting a permission.
* `EngineKeepsLimits` is the refinement of `LimitGate`. Every step but a write is one
  that observes: `Observes` shows that what counts as known - the limits and outputs of
  the nodes, and the samples while their scan lasts - only ever gains what is in force,
  or the zero of an unreadable output. The solver is not trusted: `plan` is any value.

### Controller host

* `RunningAlwaysWatched` and `WatchersSpare` rest on what the table says of an
  engine it names.
* `SerialStarts` and `SerialManaged` prove `OneServing` and `ServingIsManaged`
  from `SerialInv`: while the one request runs, its controller is not listed.
* `HostImplementsSlot` is the refinement of `ControllerSlot` under the same
  conditions. The phase of a controller is computed from its request and its
  engines, so each action needs to know the engines it does not name: `SlotInv`
  joins `SerialInv` with the types, `RunningIsWatched` and `OneServing`, and
  `StartingAlone` and `ListedAlone` conclude from it that no other engine of the
  controller works. Six actions are steps of the slot (launch, giving up,
  announcing, retiring, ending, noticing), the others stutter.

### Worker and hook

* `StatusIsHonest` is inductive with the types. `SnapshotsAloneMislead` needs
  `ReportInv`: what a report told is vouched for by a living item (`Vouches`), which
  remembers nothing yet, is about to report, or remembers what was told. If the value is
  another by then, that item is due, and the browsers will hear of it.
* `WaitingIsTimed` proves `HookInv` for any number of nodes. `OverlapsKnown` says that
  two writes of different nodes that are both polled for are both marked as not alone;
  so a poll that stops the time-out, or a write that takes it over, of another node,
  leaves no waiting write behind.
* `ErrorsMeanSilence` proves `ErrorMeansNoUpdate` for any number of nodes. It
  rests on `UpdatedIsClear`: if an update came in for the write whose time-out
  runs, its node has no pending mark. A later write of that node sets the mark
  again, but the time-out is then that write's.

### Model generator and step response tool

The provers cannot instantiate the library's induction theorems, which take an
operator. Sets can be quantified over, so `Counting` derives induction over an
interval, for sets, from the well-foundedness of strict inclusion among finite
sets, and `Recursion` from it that a recursion over an interval has a solution.
With these it is proved what the recursive functions of the two modules compute: `KeptTyped` for the filters, `DetectedIsFirst` for the
comparison loop of `autoDetectStep`, and `Assigned` and `RowsMakeGrid` for the
nested loops that write responses into coefficient tables.

* `EditorHolds` proves `EditorInv`. It speaks of models saved as parametric until
  coefficients are imported; what is inductive is `EditorTyped`, and in it
  `Clean`, which says of a model in *either* mode that its six matrices have the
  size of its tables and that no imported coefficients are held, so that
  switching modes forth and back is covered; files picked and not yet read carry
  models that satisfy it too.
* `UploadsFillTables` and `ImportsMerge` are action properties: `AnswersStep`
  derives them from `EditorTyped`, for a file that was picked when the tables may
  have been others.
* `MovesCarryData` rests on one lemma, `Carried`: an input that leaves one table
  for the other, with its column, keeps the data of every pair, given that names
  are unique and the matrices have the size of their tables. The two directions
  are that lemma with the tables exchanged.
* `ToolHolds` proves `ToolInv`. `Located` says of a step that was found that it is
  in the points it was found in, which later choices need not match; `Chosen` that
  unless another input was chosen since, calculations under way, the result and
  the file are for the input of the form.

### Session and trends

* `SocketFollowsLogin` proves `SessionInv`. That no socket is held without a login
  is not inductive alone: a bootstrap answer logs the page in or leaves it as it
  is, and would log it out with its socket open if it could come twice or late.
  `BootstrapFirst` excludes that: nothing else is asked before that answer.
* `SwitchesHonest` rests on `TagFollows`: while a model is on display, the tag
  that the socket's handler reads is that of the controller on display, so a
  message for another controller changes no switch.
* `BufferFollowsWindow` proves `TrendsInv`. The effect compares the window with
  the buffer and with what was asked for last; the proof needs `WindowIn`, that
  the window stays within the times the tab can reach (an operation moves it back
  by at most its length), so that a request made for it covers it, and
  `RenderedFetches`, one lemma for the effect after every action.
* `TypedLimitsStay` rests on `DraftsFollow`: the limits a user types go through a
  draft, which follows the series it belongs to.
* `ChoiceComesBack` proves `SelectionSurvives` from `StorageFollows`: what is stored is
  what the last render of the tab had, also while the tab is away.

### Settings

* `SettingsHold` proves `SettingsInv`, whatever calls overlap, are lost or fail.
  What the browser keeps from a server's file is not that file any more when
  another call has changed it, so `PanelTyped` asks of every configuration
  anywhere - shown, sent, being written - only what every way to it keeps.
  `FileWritten` is the step that matters: the server rebuilds the profiles as a map,
  where one of two with the same name is lost, and `MapOf`, with `LastFound`,
  proves what is needed of `AsMap`: it holds no profile that was not sent, and every
  name that was, so a default that was accepted is still there.
* `PanelStaysMatched` adds `PanelFollows`, which holds while `panelCalm`: one call
  at most, and each kind of call on its way back carries what its server has
  stored (`CallFollows`). What the panel shows need not be current while a call is
  under way, only who it will be corrected by. Both are stated for the addresses
  stored now, since the files are kept by address; `PanelReaddressed` is the step
  that stores a list of servers: it leaves the panel calm only when no address
  changed, or when the panel had no server chosen and no call under way.
* `RowStaysFollowed` rests on `RowFollows`: while calm, whatever a call carries -
  to the server, in its handler, or back - contains everything the administrator
  did not remove (`Covers`), and a host differs from its stored row only while it
  is among those still to be told (`Pushing`). `NormalCovers` shows that the
  server's normalisation of the rows loses no host.
* `UsersStayMatched` rests on `ListsFollow`: a list that is behind the accounts is
  so while the call that changed them, or the request for the list that follows
  it, is under way.
* Each of the three invariants has one lemma per action of its form and one that
  the actions of the others leave it alone; only the panel's needs another's,
  that the lists name servers only, of which one is chosen
  for the panel. `KeptElems` and
  `KeptAligned` are the lemmas on filters: which elements are left, and that two lists
  filtered alike stay aligned, which is what `ClientPerHost` needs.

### Model-checked only

The liveness properties (`FailureDisengages`, `HeartbeatResumes`,
`DeadIsReported`, `BroadcastConverges`, `LinkRecovers`, `PendingEnds`,
`LiveShowsAll`, `SessionConverges`, `SwitchesConverge`, `RequestsReport`), which
are outside TLAPS' reach. Every invariant, every action property and both
refinements are proved.

## 5. Not modelled

The quadratic program and the step-response matrices (floating-point
arithmetic), diagnostics written for display, parsing of files and command
lines, layout and wording of the front end, build scripts, and third-party
libraries; the OPC UA stack appears through the success or failure of its calls.

* Saving the engine's configuration: it reads nodes and writes a file between
  scans, and the loop never reads that file again; what is hard about it is a
  partial read that keeps a baseline value, and the next start from it.
* The virtual plant: floating-point process equations; its effect is the plant's
  part of `ApcEngine`'s environment.
* The other views of the front end (models, tuning, prediction graph,
  deployment, diagnostics, overview): they display what the socket or one
  request delivers, and hand values to the write hook. The models tab fetches once
  per controller, without cancelling; the rest keep no state that outlives an event.
* The model store of the controller host and the deployment of a bundle.
* Address space and hot reload of the OPC UA server.
* Of the trends tab the rows inside an answer (derived values, resampling,
  bands), of the root the status line and the staleness timer, of the settings
  page the fields no property is about.

Hazards that no property covers yet, and that the list of `PROJECT.json`
therefore leaves out: a failed flush of the historian drops samples that stay
marked as logged (`historian.rs` 179), and a receiver that falls behind the
broadcast loses updates (153); concurrent failed logins read one count
(`auth.rs` 472); a WebSocket keeps the role it was opened with; a bundle whose
model is deployed and whose node file is not; a hot reload that fails half way;
a configuration snapshot of a partial read; client defaults that differ between
memory and file, or that a start overwrites with an older copy (`controller_host`
414, 495); two deployments in one second that choose one file name (762); a probe
that meets a server still coming up (`apc_engine` 487); the last element of the
shifted prediction (`dmc.rs` 412).

## 6. Plan

Done: `ApcEngine`, `EngageGate`; `Supervisor`, `ControllerSlot`; `OpcWorker`;
`WriteHook`; `TrendsView`; `HmiSession`; `ModelEditor` with `StepResponseTool`;
`SettingsForms` with `OpcSecurityPanel`; all with proofs.

Left, in order:

1. `Historian`: dead-band, batch, flush failure; what is marked as logged.
2. `WriteAck`: composition of `WriteHook` and `OpcWorker`, where a write may be
   dropped on its way and an update for another reason acknowledges it.
3. `AuthLockout`: the count of failed attempts under concurrent logins, and a
   socket's role after a change of role.
4. Composition of `Supervisor` and `ApcEngine`: two engines on one model.
5. `ConfigLifecycle`: save, deploy, start, push - a saved snapshot started again.
6. `DeployBundle` and hot reload: partial failure between model and node file.
7. `DmcPrediction`: the shift-and-correct arithmetic against a reference
   definition, including both ends of the horizon.
