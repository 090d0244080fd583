# A TLA+ verification of ÄKÄ

This directory models ÄKÄ, a desktop application (a Tauri back end in Rust, a web
front end in TypeScript) in which a user lets coding agents and local language
models work on a project. Paths below are relative to the repository. The modules
are checked with TLC; the theorems in the `*_proofs` modules are checked with
TLAPS.

- `PROJECT.json` lists the components, the runs, the lines each definition
  stands for, the disagreements found, the hazards and the theorems.
- A run `X` is `tlc -config X.cfg MC<module>.tla`; a proof is
  `tlapm X_proofs.tla`.

## 1. The system

| component | state it keeps | operations | what makes it correct |
|---|---|---|---|
| chat store (`src/stores/use-chat-store.ts`) | `runs` (sessions shown as working), `sessionGen`, `cancelledRuns`, `rememberedAnswers`, approval resolvers, one asynchronous handler per submit | submit, stop, answer, pause, resume, restart, rollback, delete; callbacks of back-end events | a session is shown as working exactly while its current handler works; a stale handler changes nothing of a newer run; every bubble ends settled |
| external agents (`src-tauri/src/commands/agent_runner.rs`) | map run id → handle (killer, writer, pid); a PTY thread per agent | run, answer, pause, resume, stop | a handle belongs to a run in flight; a live run can be reached; a killed run returns |
| built-in loop (`src/lib/builtin-loop.ts`, its branch in the store, `src/lib/builtin-approvals.ts`) | abort signal, step and retry counters, transport, one approval slot per session | model turn, tool call, approval, stop | gated tools start only with consent; a stopped run stops; every run ends |
| its conversation and tools (`message_validator.rs`, `providers.rs`, `builtin_tools.rs`) | messages of the run; a child with two pipes | sanitize, convert, bash, paged reads | a provider accepts what it is sent; nothing is cut silently; the child does not outlive its call |
| streamed replies (`llm.rs`, `submit`'s chat branch) | map session → cancel flag; a watchdog per turn | stream, stop, restart a stuck runtime | a stop reaches the stream on screen; every handler ends |
| sidecar manager (`src-tauri/src/sidecar.rs`) | child, epoch, status, restart budget; a watcher per process | spawn, watch, restart, user restart, shutdown | the child has exactly one current watcher; a dead runtime returns or an error shows |
| `aka-runtime` (`src-tauri/aka-runtime`) | lockfile, loaded model, context size, active requests | start, load, unload, chat, abort | a request is answered by the model it named, in a context that fits, and heeds its abort |
| external runtimes (`llm.rs`, `ConnectionPanel.tsx`) | one managed server per runtime | start, stop, detect | the newest server can be stopped; no other is left |
| runtime store (`use-runtime-store.ts`) | active runtime, health, models; the permanent list, the deleted ones, both on disk | bootstrap, select, validate, poll, hydrate; add, edit, delete | the user's choice stands; what is shown becomes true; a deleted runtime stays away |
| model downloads and browser (`models.rs`, `use-model-browser-store.ts`) | part file, flag per file, progress; results, facets, listings | download, cancel, delete, import; search, sort, pick | a finished file is whole; nothing is shown that is not under way; a pick leads somewhere |
| dev server, console shell (`dev_server.rs`, `shell_run.rs` and stores) | one slot for a child each; wait task, reaper | start, stop, reset, heal; run, stop | no child is lost behind another; its end is shown; a lock comes back |
| editor pane and files (`use-file-buffer.ts`, `files.rs`) | buffer, modification time, conflict; a watcher | load, type, save, resolve; edits of a run | typed text is not lost; no stale view |
| boundary of edits (`sandbox.rs`, `AppShell.tsx`) | the active project's folder | set, clear, edit, patch, delete | an edit stays in the viewed project and can be undone |
| project configuration (`project_config.rs`, `use-project-config-store.ts`) | a file per project, a copy of the open one's | open, set, reset, import, remove | the file is whole, its own project's, and keeps each setting |
| conversations (`use-messages-store.ts`, `use-projects-store.ts`) | messages in view, archive, list, pointer; two files | submit, switch, delete, save, restore | no message is lost or lands elsewhere; the archive catches up |
| timeline (`src/lib/agent-parsers`, the store's rows) | the parser's open call and blocks; rows | feed, flush, detach, backfill | rows are the calls, each with its own result, none spins after the run |
| checkpoints (`checkpoints.rs`) | per run id: a list, a counter, private git refs | create, restore, clear | listed checkpoints stay restorable; a clear leaves nothing |
| context compiler (`src-tauri/src/compiler`) | nodes and bundles on disk, by hash | compile, prune, collect | a manifest refers to complete nodes |
| MCP servers (`tools/mcp.rs`, `use-mcp-store.ts`, `commands/mcp.rs`) | list, statuses, cached tools, a file; a child per discovery | add, remove, reconnect; discover | the registry has the tools of the servers listed; a discovery ends and leaves no child |

Components meet in these ways. The store *invokes* commands of the back end and
gets a promise; Tauri runs commands of different invocations on a pool, in any
order. The back end *emits* events, which arrive in order, but on another channel
than the promises. The store passes the **session id as the run id**, so the agent
map, the checkpoints, the streams' flags and the store's own bookkeeping each have
one slot per session, shared by all runs the session ever makes. Most of the hard
behaviour comes from there: two runs of one session overlap whenever a stopped run
has not finished. The front end tells them apart by a generation number; the back
end does not.

The other sources of difficulty are awaits between a check and its use (answers of
superseded calls are installed as if they were current), locks released around a
spawn or held around a wait, whole-file writes begun without waiting for each
other, processes that die at any moment, and an application that may end between
any two writes. `PROJECT.json` lists each hazard at its line.

## 2. The modules

Each module has one component's state, one action per operation or per stretch
between two awaits, its specification, and its properties.

| module | models | its counterpart in the code |
|---|---|---|
| `RunIds` | sessions, generations and runs `<<session, generation>>` | `sessionGen`, `runKey`, `myGen` |
| `AgentRunner` | the back end for external agents, under any front end | `cmd`: progress of each `run_agent`; `handle`: the map; `proc`, `killed`, `suspended`: the processes; `events`: the channel to the webview |
| `ChatRuns` | the store's part of external-agent runs | `shown` and `entry`: the keys and values of `runs`; `gen`, `cancelled`, `remembered`; `msg`, `toolRows`; `hpc`: where each handler is suspended; `calls`: commands not yet served |
| `AgentRun` | both together | run and resume, calls served, events delivered, the rollback |
| `ApprovalGate` | what the approval modes promise, with no loop and no promise to resolve | `APPROVAL_MODES`, `needsApproval` |
| `BuiltinLoop` | the built-in loop of one session and its approval wait; implements `ApprovalGate` | `loop[h]`: a handler's awaits, counters, calls left; `resolver`, `question`: the approval slot and the card |
| `Conversation` | what a provider is sent of the native loop | the loop's `messages`; `sanitize` of the validator; the three adapters' requests |
| `ToolReads` | a long file read page by page | `paged_read` and the offset its marker names |
| `BashCalls` | one shell command of the loop | the two `read_capped` futures, the `select!`, the kill, the timeout |
| `LlmStreams` | streamed replies, stop, watchdog | `handler`, `watchdog`: the awaits of `submit` and its timer; `slot`: `LlmStreamState`; `channel`: events |
| `Sidecar` | the manager, the runtime processes, the lockfile | `child`, `epoch`, `status`, `stamps`; `watch`, `wepoch`: watchers; `tpc`: tasks that bring a process up |
| `RuntimeServer` | the runtime while it serves | `rq`: a request's stretch; the loaded instance, `ctxSize`, `activeRequests` |
| `RuntimeLauncher` | managed servers of one external runtime, and its row | `slot`: the entry of the map; `launch`: tasks; `Lookers`: detections in flight |
| `RuntimeChoice` | the active runtime, its health and models | the store's fields; `InFlightOf`: calls whose answers are due |
| `SavedRuntimes` | the permanent list and the deleted endpoints | `saved`, `dismissed`, `writes` in flight, `disk` |
| `DevServers` | dev server runner and its store | `killSlot`: the sender; `told`, `server`: children; `view`: the store |
| `ShellRuns` | console shell | `holder`: the lock; `childSlot`; a `reaper` per command; `prompt` |
| `FileEdits` | one file: pane, watcher, anchored edits, other writers | `pane`: `useFileBuffer`; `fileWatch`; `disk` |
| `Sandbox` | the boundary and the edits it lets through | the state's folder, the calls that move it, each job's edit |
| `ProjectConfig` | configurations on disk and in memory | files as inodes, `opens` and `configSaves` in flight, `mem`, `memPath` |
| `Downloads` | one model file | `.part` and final path, the flag, the store's `entry`, `events` |
| `ModelSearch` | the search panel | `results`, facets, `listings` in flight |
| `McpDiscovery` | one discovery over a child's pipes | `StdioTransport`; requests, responses, noise |
| `McpServers` | the list of servers and the registry's cache | `use-mcp-store`, the cache of `commands/mcp.rs`, the file |
| `Checkpoints` | the checkpoints of one run id | `records`, `next`, `refs`; `op`: commands in flight |
| `ChatHistory` | sessions, messages, archive | `chat`: visible, current, buckets; `saves`, `timer`, `writing`; `disk` |
| `AgentTimeline` | three dialects of output, the parsers, the rows | what an agent told, the lines, the parser's state, `rows` |
| `Compiler` | compiles and the artifact store | `nodeStore`, `bundles`: files present; one compile's position |
| `MC*` | instances for TLC | |
| `AgentRun_proofs`, `AgentTimeline_proofs`, `MCBuiltinLoop_proofs`, `MCStreams_proofs`, `MCRuntime_proofs`, `MCSessions_proofs`, `MCFiles_proofs` | theorems; those named after an `MC` module are about the components it puts side by side | |
| `FoldLemmas` | facts the proofs share: folds, counting, finite sets in order | |

An action is what the code does between two awaits (TypeScript, async Rust) or
while it holds a lock. A definition whose comment calls it a slip belongs to no
specification: it is a plausible mistake that the properties are tested with.
Variables that exist for a property only are said to be so where they are declared.

`AgentRun` composes two components that interact. The instances `MCRuntime`,
`MCBuiltinLoop`, `MCStreams`, `MCFiles` and `MCSessions` only put components side
by side: in the models these share no state, so a variable `focus` picks one at the
start and the others keep their initial state. This checks each alone; it says
nothing about their interaction, and the components table of `PROJECT.json` says
which compositions are left out.

### Choices worth knowing

*Store and agents.*
- A handler runs to the end after a stop; nothing in it looks at the generation
  between the claim and `runAgent`. Nor do the model's `Attached` and `Invoke`.
- `SetupFails` merges the spawn and the failure after it. The child survives.
- "Exit" of an agent is the end of its terminal's output: the PTY thread drains
  the output, then reaps the child. A kill is a hang-up signal; the model assumes
  that an agent which is not suspended obeys it. A suspended one does not.
- `Missed`: while listeners are being attached an event may reach none of them.
- An event names its session only. The model's event also carries the invocation
  that emitted it, for properties; `Deliver` does not use it except to remember
  who asked.
- `pause` and `resume` set the state a second time when their promise resolves.
  That write repeats the event's value and is left out. The stop of LLM streams
  and the abort of the runtime that `stop` also requests are in `LlmStreams`.
- `deleteSession` calls `forgetSession` after a dynamic import; the two are one
  action. The session's messages go with it.
- The watchdog that marks a run as stale only changes the display.

*Built-in loop.*
- Answers are remembered by prompt in the code and by tool in the model, which
  has one prompt per tool.
- Resolving a promise resumes its waiter as a microtask, so it happens in the
  same step. Deletion of a session is not modelled here (it answers "n").
- A message of `Conversation` is its role, its calls, their ids and whether it has
  text; an id is a model value or missing. A request is a turn for each message kept:
  what the system says goes elsewhere in the code and is a silent turn here.
- A line of `ToolReads` is its length; what a page shows is which lines.

*Runtimes.*
- The runtime kills the process named in the lockfile (SIGTERM obeyed at once;
  recycled process ids left out), waits, then writes the file and binds; these
  last two are one step, since nothing waits between them.
- `kill_port_occupant` is modelled for runtimes of this app.
- The window of the restart budget is a choice of how many stamps are left.
- In `RuntimeServer` a load makes an *instance* of the weights that lives while
  somebody holds it; what the machine holds is a constant `Fits` per model.

*Files.*
- A text of `FileEdits` is the set of changes it contains; a write gives a new
  modification time.
- In `ProjectConfig` and `Downloads` a file is an inode: a rename moves a name and
  a writer goes on writing to what it has opened. A write of a configuration is
  truncation, content, rename.
- In `Compiler` a hash stands for what it covers; a file is there or not.

*Sessions.*
- What a snapshot contains is left out; a commit is named by the command that made
  it. A create reserves its number, parks its commit under the ref and records it,
  three steps between which other commands run. A rollback is a create followed by
  the restore, which may fail. The end of the app empties list and counter; the
  refs stay. `ClearsAlone` is an assumption about callers (see below).
- A line of `AgentTimeline` is its kind and the call it belongs to; an *agent*
  decides what it does, the line is what its dialect prints of it, and the
  properties compare what the agent did with the rows.

## 3. The runs

### Runs that pass

| run | bounds | shows |
|---|---|---|
| `AgentRun_core` | 1 session, 4 generations, tool rows, questions, restart, a submit without a project | the safety properties of store and back end |
| `AgentRun_sessions` | 2 sessions of 2 generations, navigation, restart, deletion | generations and entries do not leak across sessions |
| `AgentRun_liveness` | 3 generations, text, pause, restart | a stop that reached the agent ends the handler |
| `Sidecar_safety` | 3 processes, 1 user restart, 1 fault, 2 launches, every spawn may fail | supervision |
| `Runtime_lives` | manager: 5 processes, 3 faults, 2 launches; server: 2 requests, 2 models of which one does not fit the size of the other; launcher: 2 starts; list: 2 endpoints, 2 writes in flight, 3 gestures, 2 launches | runtimes recover, serve what was asked, and stay in the user's hand |
| `BuiltinLoop_promise` | 4 generations, 2 turns of 2 calls, 1 retry; conversations of 3 turns with 2 ids; files of 4 lines, 5 pages, 1 edit | the approval promise, what providers are sent, pages |
| `Streams_end` | streams: 3 turns; 2 runtimes, 2 outages; 2 servers, 2 upsets; 3 commands; pipes of 1 block, cap 2 of 4 blocks; 2 pages | children and tasks report, and end |
| `Files_kept` | 2 typings, 1 edit, 1 other writer; 2 folders, 1 background job; 2 projects, 2 opens, 2 saves, 1 crash; 2 overlapping downloads of 2 chunks; 2 searches over 2 repositories; 2 servers, 2 calls | files, settings and lists are kept |
| `Sessions_kept` | 4 checkpoint commands; 2 sessions, 2 messages, 3 gestures, 2 launches; 2 runs of 4 lines with 2 calls; 3 compiles over 3 nodes, 1 death | what a session leaves behind |

A property of these runs is a conjunction of the parts its module names, and each
part is stated and explained there:

- `RuntimesTypeOK`, `BuiltinTypeOK`, `ReportTypeOK`, `KeptTypeOK`,
  `SessionsTypeOK`: the type invariants of the components put together.
- `ServerSafe`: a request is answered by the model it named; no cache is allocated
  that the machine cannot hold unless the user chose so; an abort interrupts within
  one token. `ExternalSafe`: the launcher's entry is the newest server's; deleted
  runtimes stay away and both lists reach the disk. `RuntimesSettle`: the manager
  recovers, aborted requests end, stray servers end, the row tells the truth.
- `LoopSafe`: the answer to a card resumes the run the card is of; a stopped run
  starts at most one more tool.
- `ConversationSafe`: each call of a request stands with its own result, in its place;
  prose arrives; a repaired conversation needs no further repair.
  `PagesTile`: the pages of a file tile it.
- `ChoiceSafe`, `StreamsSafe`, `RunnersSafe`, `ToolsSafe`: see `MCStreams`;
  `Settles` collects what must come to an end in the six components.
- `FilesSafe`: no stale view; the boundary follows the view and what an edit changed
  has been saved for undo. `ConfigSafe`: whole, nothing lost, the pane never waits
  for nothing. `ModelsSafe`: downloads, search and MCP registry. `TypedSurvives`,
  `PickNeverDeadEnds`: action properties.
- `CheckpointsSafe`: what is listed can be restored, and a clear leaves nothing.
  `HistorySafe`, `NoMessageLost`, `ArchiveCatchesUp`: messages.
  `WorkSafe`: rows settle, a manifest is backed where compiles do not overlap, and
  cycles are refused. `TimelineSafe`: the rows are the calls, and a backfill agrees.

The runs with one component each check:

- `ShownIffCurrentActive`: for sessions that exist, *working* is shown exactly
  while the handler of the current generation is under way.
- `OnlyOwnerClears`: a session leaves `runs` only by a stop or by the handler
  that owns the generation.
- `FinishedIsQuiet`, `StaleBubbleFrozen`: a finished handler leaves nothing pending;
  a stopped run's bubble, once it shows something, is final.
- `HandleInFlight`, `TornDownIsOver`: the map points at registered invocations
  only, and no run is torn down under a living agent.
- `KilledRunEnds`: the chain kill, exit, teardown, postrun, return, finally makes
  progress.
- `Supervised`, `OneCurrentWatcher`: the child's death is acted on, once.
- `KeepsApprovalPromise`: `BuiltinLoop` implements `ApprovalGate`.
- `LoopEnds`: no run spins.

Why the bounds suffice to show the interesting cases: two *overlapping* runs of
one session need a claim, a stop and a second claim, that is three generations,
and a fourth to stop the second run; every stale/fresh interaction in the code
compares one handler with one current generation, so a third overlapping run adds
no new pair. One event in flight is enough to arrive late because delivery waits
arbitrarily long. The same holds of the other slots: two launches, commands,
downloads, requests or opens can overlap, replace each other and end in either
order; the dev server and the shell, where a third actor repairs or waits, get
their upsets and a third command. Three processes and a fault allow a boot, an
automatic restart and a user's; `Runtime_lives` has five and an orphan of an
earlier launch. Two writes of a list can cross. Two messages, two sessions and two
launches allow a message in the background, a switch and a restore; two calls in
four lines are the fewest in which the result of one can be taken for the other's.
A graph of three nodes has the cycles of each length, and three compiles one that
supersedes, one that hits, one that collects after a death. What the proofs cover,
they cover for every value.

Conditions in the properties. Some promises hold only for a user who waits, or of
operations that do not overlap; the module records that the condition was broken
(`hasty`, `overtaken`, `steady`, `overlapped`, `loadsCrossed`, `disturbed`,
`early`, `haunted`, `torn`) and the next but one section says what happens then.

### Runs that find a disagreement

Each checks one sentence of a comment against the code; `findings` in
`PROJECT.json` quotes it and gives the line.

| run | what happens |
|---|---|
| `AgentRun_reachable` | run 1 is stopped and its process lingers; run 2 registers; the teardown of run 1 removes the handle of run 2 |
| `BuiltinLoop_declined` | the end of a stale run answers "n" to the fresh run's question |
| `ProjectConfig_apart` | a late configuration is installed over the project opened after it, and the next setting writes it into that project's file |

### Met while modelling

The models also reach these states, which no run of its own is about. Where a name
is given, it is a property stated in the module that the component violates; it can
be checked by putting it into the run's cfg. Lines are of `use-chat-store.ts` (CS),
`sidecar.rs` (SC), the runtime's `main.rs` (RT) and `checkpoints.rs` (CP).

*Runs of agents.*
- A stop that comes before registration finds no handle; the agent runs on unseen.
- A run that crashes while the cancelled flag of its stopped predecessor is still
  set shows `[cancelled]` (CS:1476).
- A stale handler clears the newer run's question when it detaches, or points the
  newer entry at its own placeholder (CS:1007).
- After navigation during its rollback, restart submits in another session
  (CS:2428); and the rollback does not wait for the stopped agent (CS:2423).
- A session deleted while it runs stays in `runs` (CS:297).
- An ungated tool starts after Stop, once per run (CS:1801; `OneLateTool` is the
  bound); two runs that ask share one slot and the older wait is lost (CS:1790).

*Runtimes.*
- Shutdown between spawn and adoption leaves an orphan for the next launch; a
  restart queued by a watcher kills the runtime of a later user restart (SC:471); a
  superseded watcher reports Ready (SC:418); a user restart whose spawn fails stays
  "Restarting" (SC:532). Of two overlapping spawns, the second runtime kills the
  first through the lockfile, even one the app has adopted (RT:124).
- A request whose client goes away before generation stays registered
  (`DeregisteredWhenOver`, RT:808-816); the size carried over does not fit when
  loads cross (`CarriedOverFits`).
- The watchdog restarts the runtime for a run its own abort has ended
  (`RestartOnlyIfStuck`, CS:2137); an abort ends another session's generation
  (`StopSparesOthers`, CS:2312-2316); a run is ended by the end of its
  predecessor's stream (`EndsByOwnStream`).
- Two presses of Play within 800 ms start two servers for a while (`OneAtATime`,
  `llm.rs` 718-731 and 787); launched servers outlive the app.
- The runtime's first status is read before the listener is there, so Ready can be
  missed (`AdoptsWhenReady`, lines 530 and 560 of `use-runtime-store.ts`); a model
  of the runtime before stays selected (`NoLingering`). A project with the same
  endpoint and other models is not hydrated again.
- An edit to an endpoint that is listed makes two rows (`OneRowEach`); a project
  hydrated before the list is restored can replace the list; an end of the app
  between the two writes of a deletion brings the runtime back.

*Child processes.*
- The wait task of a replaced dev server drops the sender of the new one, which
  ends it (`NewestSurvives`, `dev_server.rs` 160); a late end of the old one is
  taken for the new one's (`LateDoneHarmless`). A stop during recovery is undone by
  the restart.
- The shell's reaper holds the lock while the command runs, so a rerun or a stop
  waits for the end it should bring about (`RerunKills`, `StopEndsCommand`,
  `shell_run.rs` 137-147).
- What a command of the loop starts outlives a timeout (`NothingOutlives`), and
  what an MCP server starts outlives a discovery: both kills reach the direct child
  only.

*Files.*
- At the end of a save the pane takes its present text for the saved one
  (`DirtyIfTyped`, `use-file-buffer.ts` 118): what was typed meanwhile counts as
  clean. A save during loading writes an empty text; two saves may land in either
  order; text and modification time are read apart; two panes of one file share a
  watcher key.
- An anchored edit writes the whole text it read, and undoes a change made
  meanwhile (`EditSparesOthers`, `sandbox.rs` 462-485).
- Two saves share one temporary file, so a crash can leave part of one under the
  canonical name (`AlwaysWhole`, `project_config.rs` 304-330); hand edits are
  overwritten by the next setting (`HandEditsKept`), a file that came with a folder
  by its import (`ImportKeepsFile`), a corrupt one by the healing save.
- Crossing or failed `set_sandbox` calls leave the boundary at another project; a
  run's edit is refused while the user views another project. `delete_file` looks
  at its target only: a run of another project that names a file of the viewed one
  deletes it with a snapshot of its own project (`DeletionsUndoable`, `sandbox.rs`
  524-530). A patch recreates its folder under a project that has vanished.

*Models.*
- A download begun while an earlier one of the same file unwinds shares its part
  file and flag: a part can be renamed into place (`NeverLooksComplete`,
  `models.rs` 330-333), the guard removes the other's part file, a cancel reaches
  the wrong one.
- The answer of an older search replaces that of a newer one, a first answer ends
  the spinner of both, one that comes after the panel was closed fills it again; a
  listing that failed is kept as an empty one; *removing* a pick can leave an empty
  list.

*MCP servers.*
- A server removed during its discovery, or while the reconnecting at start has
  still to reach it, comes back to the registry and leaves a status behind; one
  added again under another command may keep the tools of the first; a discovery
  that fails leaves the old tools in the registry beside the error; a server added
  before the list was read leaves the view and may replace the list on disk.

*Sessions.*
- A create in flight parks its ref after a clear has listed the refs, which is what
  `ClearsAlone = TRUE` excludes: with `FALSE` the run finds it. A clear resets the
  counter, so a create begun during it may get a number in use (CP:508); a rollback
  goes on when its own snapshot failed (CP:483). `run_file_changes` diffs the first
  prerun with the last postrun of the session, not of the run (CP:409).
- Messages typed before the archive is read are replaced by it (`early`); a load
  that failed enables the saving of what little is there. Deleting a session or a
  project does not stop its run, whose later writes bring the session's entry back
  (`haunted`). A run begun in no session writes nowhere once its messages were
  adopted. The pointer to the session in view is saved after the list and may go
  back by one.
- The rows of changed files are compared with the calls above only as far as the
  last thought, so a file can be told twice (`NoDoubleCount`, the loop of CS:1549,
  whose comment is at 1539). An agent that mixes two dialects may have one call's
  preview on another's row; SmallCode's `$` line after a `bash` line leaves that
  row failed; the flush of ReAct marks an unfinished tool as done; a call only named
  when the run ends gets no row; the detaching of a stopped run marks the newer
  run's running rows as failed.
- Two compiles at once can collect each other's nodes (the comment of
  `compiler/mod.rs` 339-342 takes nodes to stay referenced); a node's hash leaves
  out the type of task although its prompt has it; a bundle whose removal was cut
  off by the end of the app is taken for a hit (`torn`).
- The validator drops orphans only in part (`OrphansRemoved`,
  `message_validator.rs` 18-19); a line longer than the cap of a page is never
  passed (`AlwaysProgresses`).

Deadlock is not checked (`CHECK_DEADLOCK FALSE`): every model may stop, when the
user does nothing more or a bound is reached. What waits for ever is a liveness
property instead.

### Fairness

- `Fairness` (`AgentRun`): tokio runs what is ready; the PTY thread comes to the end
  of a finished process's output; calls are served; events are delivered; settled
  promises resume their handlers; a process that was killed and is not suspended
  ends. The user owes nothing, nor does an agent nobody stopped.
- `Sidecar` (in `MCRuntime`): tasks and watchers run; a runtime that starts binds or
  dies; the READY deadline passes for a watcher that saw READY and no health.
  `ServerFairness`: handlers run, and a reader of tokens reads or leaves.
  `RuntimeLauncher`: wait tasks run, a killed server is reaped, the detection
  polls, its interval being a timer.
- `LoopFairness`: model turns, tools and set-up calls return. An approval may
  wait for ever.
- `ChoiceFairness`, `StreamsFairness`, `DevFairness`, `ShellFairness`,
  `BashFairness`, `DiscoveryFairness`: calls in flight are answered, events
  delivered, timers fire, tasks whose await is ready run, a killed child ends. No
  child owes an end of its own, no server an answer: where one may be silent for
  ever, the code's timeout is the fair action.
- `HistoryFairness`: the debounce timer fires and a write lands.

Several liveness properties have the form `[]<>~bad` rather than `bad ~> good`: the
state in which something is owed is left again and again, which is the same for
states that persist until they are answered and costs TLC less.

## 4. What is proved

| theorem | states |
|---|---|
| `RunnerTypeCorrect`, `HandlesAreInFlight`, `TornDownRunsAreOver` | the invariants of the back end under any front end |
| `BackendImplemented` | `AgentRun` implements the back end: each of its steps is a back-end step or leaves the back end alone |
| `TypeCorrect` | the type invariant of the whole |
| `ShownIsActive` | `ShownIffCurrentActive` |
| `StaleNeverClears` | `OnlyOwnerClears` |
| `FinishedRunsAreQuiet` | `FinishedIsQuiet` |
| `StaleBubblesAreFrozen` | `StaleBubbleFrozen` |
| `SidecarTypeCorrect`, `ChildSupervised`, `WatchersDistinct` | the type invariant (with the restart budget), `Supervised`, `OneCurrentWatcher` |
| `LoopTypeCorrect`, `LoopIsSafe` | the type invariant of the built-in loop, `LoopSafe` |
| `LoopKeepsPromise` | `KeepsApprovalPromise`: the loop implements `ApprovalGate` |
| `StreamsTypeCorrect`, `LateStreamsDoNoHarm` | the type invariant of the streams, `StreamsSafe` |
| `ServerTypeCorrect`, `RequestsAreServed` | the type invariant of the serving runtime, `ServerSafe` |
| `CheckpointsTypeCorrect` | the type invariant of the checkpoints, wherever clears overlap |
| `CheckpointsAreKept` | `CheckpointsSafe`, given `ClearsAlone` |
| `HistoryTypeCorrect` | the type invariant of the messages store and the list of sessions |
| `SessionsKeepTheirOwn`, `NoSessionLosesAMessage` | `HistorySafe`, `NoMessageLost` |
| `ChoiceStands` | `ChoiceSafe` |
| `ReportTypeCorrect` | `ReportTypeOK`: the types of the six components of `MCStreams` |
| `RunnersAreKept`, `ToolsAreWhole` | `RunnersSafe`, `ToolsSafe` |
| `RuntimesTypeCorrect`, `ExternalRuntimesAreTheirs` | `RuntimesTypeOK`, `ExternalSafe` |
| `FilesTypeCorrect` | `KeptTypeOK`: the types of the six components of `MCFiles` |
| `FilesAreSafe`, `TypedIsNotLost` | `FilesSafe`, `TypedSurvives` |
| `ConfigsAreSafe` | `ConfigSafe` |
| `ModelsAreWhole`, `PicksNeverDeadEnd` | `ModelsSafe`, `PickNeverDeadEnds` |
| `BuiltinTypeCorrect` | `BuiltinTypeOK`: the types of the loop, the conversation and the reads |
| `PagesTileFiles` | `PagesTile` |
| `ConversationIsSafe` | `ConversationSafe`, for any tools, ids, turns and calls |
| `SessionsTypeCorrect` | `SessionsTypeOK`: the types of the four components of `MCSessions` |
| `RowsSettleDown` | `RowsSettled`: no row runs once the handler has ended |
| `TimelineIsSafe` | `TimelineSafe`, for all that an agent may print |
| `CompilerTypeCorrect`, `StoreIsBacked` | the type invariant of the compiler, `StoreSafe` given `OneCompile` |
| `CyclesAreRefused` | `CycleRefused`, for every finite graph |
| `WorkIsSafe` | `WorkSafe`, given `OneCompile` |

They hold for any set of sessions, projects, folders, endpoints, servers, queries and
edits and any value of the bounds, given only the named assumptions of the modules
(their `ASSUME`s: bounds are natural numbers, and where something happens at all
positive ones; values that stand for "none" are none of the others;
`GesturesAreKnown`). Five say more. `FileConstants`: the edits are finitely many,
since each takes one new modification time, and a typed change is none of the
others'. `ServerConstants` of `McpServers`: the names are finitely many, since
bootstrap walks them as a list. `ProjectConfigConstants`: a project is not the
number of an inode, so that a file's identity tells who made it.
`CompilerConstants`: a spec has finitely many nodes, since it is a list of them.
`ConversationConstants`: the ids are enough for the calls of one turn.
`CheckpointsAreKept` has `ClearsAlone` as a hypothesis: nothing in the code keeps a
clear apart from a snapshot of the session that is being deleted (section 3), and
where they overlap the property fails. `StoreIsBacked` and `WorkIsSafe` have
`OneCompile`, that at most one compile is under way: two do collect each other's
nodes (section 3).

The arguments:

- *Back end.* `RunnerInv` is inductive as the conjunction of the type invariant,
  `HandleInFlight` and `TornDownIsOver`: the handle must be known to be awaiting
  before a signal can be said to reach a registered run.
- *Store.* The strengthening says that no handler exists whose generation has not
  been claimed, and relates a handler's position to its message: it has a
  placeholder from `Attached` on, settled once `runAgent` has returned, and a tool row only
  while it may still close it. `ShownIffCurrentActive` is then preserved because
  the only steps that move a generation also set `shown`, and the only step that
  ends a handler clears it exactly when the generation is still its own.
- *Sidecar.* `WatchersOld` (no watcher carries an epoch above the current one)
  makes every adoption's epoch new, from which both supervision properties follow.
- *Built-in loop.* A card is shown only while the session runs; the run in the
  approval slot is parked, and the tool on the card is the next of its calls. A
  tool that starts after a stop raises its run's signal in the same step, which the
  loop checks before the next. With these each step of the loop is a step of
  `ApprovalGate` or a stutter, rule and mode being read when the tool comes up.
- *Streams.* Registering a stream cancels the one whose flag it displaces, and a
  call that returns removes only its own flag, so that the live stream is the slot's
  owner. No handler belongs to a turn nobody claimed, and one that listens has a
  message: hence what is shown follows the turn and every end settles a message.
- *Serving runtime.* An instance is held by the request that loaded it, which is
  what ties it to a model. Outside crossed loads one request loads at a time, so a
  clamp about to be stored is below the size it replaces; and a request sends a
  token after its flag went up only between the check and the send.
- *Checkpoints.* No more seqs are reserved than operations are under way, which
  bounds `next`. A seq an operation holds is below `next` and no other operation's
  or record's; a target under way is a listed record's; a clear runs alone and only
  removes what it listed.
- *Runtime store.* `ChoiceSafe` is inductive as it stands: the built-in is adopted
  only where nothing was ever chosen, and the flag of the spinner rises in the step
  that starts a fetch.

- *Messages* (`ListsInv`, `FollowInv`). A message's number is below the count of
  those sent, it carries the session it was typed in, and no list has it twice; what
  is on screen is the bucket of the session in view. What is typed in no session is
  in no bucket before it is adopted, and in nothing still to be read. The view
  follows the list because, of a user who waits, nothing is there before the restore
  but what was read; a bucket whose session is gone is of a run that outlived it.
- *Dev servers* (`DevInv`). The backend numbers launches, and what the store shows
  as running is one of them. The end of the newest server is on its way to the store
  until it is shown. One restart follows a crash because the note that it was tried
  is taken back only by the user.
- *Console and commands* (`ShellInv`, `BashInv`). The child in the slot has a reaper
  that has not let go. Every block written is in the pipe or read, a reader that
  ended whole left nothing and one that was cut read past the cap; the call answers
  only when both have ended.
- *Discovery* (`DiscoveryInv`). The pages asked for are the pages read and one more.
- *Manager and launcher.* The manager's argument is that of `Sidecar` above. The
  server entered last has gone through its start (`WantedWasEntered`), so the map
  cannot name one whose task has yet to begin.
- *List of runtimes* (`SavedInv`). Writes land in order, so what each list comes to
  is what the last write carrying it says: that is always the list in the store.
- *An open file* (`FilesInv`). Each modification time has a text of its own, and
  nobody holds a version newer than the file's; the last news is of the version the
  watcher saw. Typed text is in what is written or about to be only if it was saved.
  Under one load or save at a time, and no writer crossing it, what is loaded or
  saved is the version on disk, a conflict is news, and a pane that has the file's
  time shows its text: so once the news has arrived nothing is stale. That times fit
  the bound is a count of the writes that are over (`TimesCount`).
- *Boundary* (`SandboxInv`). The last move under way is the view's; an edit let
  through is of its own project's file or a deletion.
- *Configurations* (`ConfigInv`). No temporary file is another's nor a canonical one.
  For a user who waits one thing is under way at a time and the temporary file is the
  writer's own, so what is renamed is whole. Either memory and file agree or the call
  under way will make them: `Agreed`, `SavesBringIt`, `OpeningsBringIt`.
- *Downloads* (`DownloadsInv`). A part file is a download's and never the finished
  one's inode; unless two overlapped, it holds what the one under way has received.
- *Search.* `SearchSafe` is inductive with the types.
- *MCP servers* (`ServersInv`). For a name not met out of turn, at most one call or
  turn of bootstrap is due, it is about the server as listed, and once none is due
  list, registry and view agree.

- *Folds* (`FoldLemmas`). A fold over a finite list has a state after each element,
  so what holds of the first and is kept by each step holds of the last: this, by
  induction over the natural numbers and not over the data, is what the arguments
  about conversations, parsers, pages and searches rest on.
- *Conversation* (`TalkTold`). Between two turns of the model no call is left to run;
  and always, `Told`: what is kept of the conversation answers every call but the
  named ones still to run, which are the open ones, in order; the validator leaves
  it as it is; it says as often as was said; and each open call has its id among
  those kept and, where results go by name, that id stands for the call's name. This
  is more than the property, which speaks only of the moment of a request. It is
  kept because the validator and the adapters are folds that take one more message:
  a turn of the model opens its named calls, and its ids, which Gemini counts from
  the first again in each turn, hide the earlier ones without two of one turn
  sharing one; a result closes the first, blank or not, and the result of a call
  without a name is dropped with it, or, where a missing or a reused id pairs it,
  kept beside no call and left out of the count.
- *Pages.* A page begins where the one before it ended, ends within the file, and
  shows at least one line unless a line is wider than the page.
- *Timeline: settling* (`TimelineInv`). A parser emits only events the store knows,
  with the names it has read; a tool event touches the row its run last opened. The
  end of a run closes every row that runs, and a stopped run's drain opens none.
- *Timeline: the calls* (`TimelineTie`). The rows hold more than the calls, so the
  invariant is about an *account* of them (`AbsOf`): for each call its name, its
  status and whose result it shows, and which one is open. Five facts carry it from
  the first line to the end. Applying an event to the rows applies it to the account
  (`Simulated`, and `DrainSimulated` once the run was stopped), so a line of output,
  which is a fold of events over rows, is a fold over accounts. Each dialect ties
  the account to what was told so far, with the call its parser holds back: ReAct
  names a call before it starts it, `protocol` opens and closes in two lines,
  SmallCode may say a call again or never end it (`ReActTie`, `ProtocolTie`,
  `SmallCodeTie`); every line the dialect has keeps the tie, and the flush at the
  end turns it into the property. A stop freezes the account but for what the drain
  may still close, which the tie allows for. Closing the rows that run, and adding
  those of the files, leave the calls as they are. And for SmallCode the account is
  also what the raw lines come to when fed again from the first (`Comes`), while the
  walk of the backfill over these events tells what the account tells at each of
  them (`WalkKeepsUp`): so the backfill agrees, `$` lines and all.
- *Compiler* (`StoreInv`). Where one compile is under way, the nodes of its spec it
  has passed over are complete until it has written its manifest, and what it
  removes no manifest refers to. A bundle is partial only if it is being removed, was
  torn, or is the one being written.
- *Cycles.* Each visit takes a white node, so the recursion ends by the number of
  those. Grey nodes each lead to a grey one or to the one visited, so that a grey node
  met again closes a cycle; black ones lead only to black ones and have no cycle
  among them. If nothing was found all nodes are black. That a graph without cycles
  has a node nothing leads to follows by taking away nodes that lead nowhere.

Left to TLC: liveness (`KilledRunEnds`, `RuntimesSettle`, `LoopEnds`, `Settles`,
`ArchiveCatchesUp`), which needs fairness and `ENABLED`. Every safety invariant and
every property of a step that a passing run checks is stated by a theorem.

## 5. Not modelled, and the plan

`components` in `PROJECT.json` gives the reason for each part left out: static
tables and pure policy (tool registry, phases, capabilities, concurrency gate),
one-shot programs and queries (`aka-tool`, shell commands of the file tree, agent
probe, tokens, hardware statistics), diffs, display, and verification, whose panels
are mounted nowhere. Of the permission requests only the receiving side exists:
nothing in the app makes one.

What would add most next:

1. The composition of `ChatRuns` with `LlmStreams` and `BuiltinLoop` in one store,
   whose entries and generations they share, and of `ChatHistory` with the runs
   that write into it.
2. Two compiles at once in `Compiler`, with the temporary files they share.
3. The truth of *paused* with the replies of pause and resume; file-edit cards and
   phases in `BuiltinLoop`.
