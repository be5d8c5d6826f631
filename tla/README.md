# TMark: a TLA+ verification project

TMark is a desktop Markdown editor: a Rust process (Tauri, under
`src/src-tauri`), one webview per document window (TypeScript, `src/src`), and a
Node sidecar (`src/tmark-mcp-server`) through which AI clients reach the open
documents. This directory holds TLA+ models of the parts where these processes
and the user meet, the TLC configurations that check them on small instances,
and proofs, checked by TLAPS, of what holds for instances of any size.

Paths below are relative to the repository; `mcp_bridge/server.rs` is short for
`src/src-tauri/src/mcp_bridge/server.rs` and so on. `PROJECT.json` maps every
definition to the lines it translates.

## 1. The system and its components

### Modelled

**MCP bridge** (`mcp_bridge/{server,state,commands}.rs`,
`hooks/mcpBridge/handleRequest.ts`). A WebSocket server in the Rust process.
*State*: the clients table, the table `pending` of one-shot channels by request
id, the write lock `WRITE_LOCK`, a shutdown channel per client; in each window
the queue of events it has not handled. *Operations*: accept, register,
authenticate, one `handle_message` at a time per connection (take the lock
unless read-only, insert, emit to one window, wait 10 s, re-insert and re-emit,
wait 10 s, give up), `mcp_bridge_respond`, `stop_bridge`, `start_bridge`.
*Interaction*: tasks of the tokio runtime share the tables under one lock;
windows are reached by events and answer by a command. *Hard*: an answer that
races a time-out and a retry, windows that close or whose webview sleeps (App
Nap), a stop at any point, clean-up on twelve return paths. *Correct if*: writes
exclude each other, no entry stays in the table and none that is needed goes,
who is told "ok" was served, whoever was emitted is answered, nobody waits for
ever.

**Document, saves and watcher** (`stores/documentStore.ts`, `utils/saveToPath.ts`,
`utils/pendingSaves.ts`, `utils/reentryGuard.ts`, `utils/openPolicy.ts`,
`hooks/useAutoSave.ts`, `hooks/useFileSave.ts`,
`hooks/useExternalFileChanges.ts`, `watcher.rs`, `lib.rs`). *State*: the
editor's text, the text last saved, the text last seen on disk, three marks
(dirty, missing, divergent), the registration of pending saves by path with
their timers, the files. *Operations*: edit; auto-save, Save, Save As, Move To,
the change dialog's Save As and `tmark.workspace.save`; the watcher's events
with their debounce; the handler that reads the file and decides between
ignoring, reloading and asking; the single and the batch dialog. *Hard*: every
file operation is an await during which the user types, another save runs or
another program writes; own events are told from foreign ones by content and by
a one-second timer. *Correct if*: "saved" means saved, no text of the editor is
lost, an unmarked document shows its file, the program does not ask the user
about its own writes.

**Quit and window close** (`quit.rs`, `lib.rs`, `menu_events.rs`,
`window_manager.rs`, `hooks/useWindowClose.ts`, `hooks/useTabOperations.ts`,
`hooks/closeSave.ts`, `hooks/useFileSave.ts`). *State*: `QUIT_IN_PROGRESS`,
`EXIT_ALLOWED`, `QUIT_TARGETS`, the confirm gate, the exits under way; per
window its tabs, documents, event queue and close handlers. *Operations*: quit
by menu (two presses) or by the system, cancel, a window's end, close of a
window or tab with its dialog and saves, Save All and Quit, new windows. *Hard*:
four kinds of handlers of one window that look at each other's flags, events to
windows that are loading or closing, text typed while a dialog or a save is up.
*Correct if*: the process ends only after every window was asked, no text goes
that was neither saved nor given up, a quit always ends.

**Bridge lifecycle** (`mcp_server.rs`, `mcp_bridge/{server,state}.rs`,
`hooks/useMcpAutoStart.ts`). *State*: `BRIDGE_RUNNING`, `BRIDGE_PORT`, the port
file, `SHUTDOWN_TX`, `MCP_SERVER`, `SIDECAR_SPAWNING`: one atomic or one locked
cell each. *Operations*: `mcp_bridge_start`, `mcp_server_start`,
`mcp_bridge_stop`, the clean-up at exit, a loop's `on_exit`, a sidecar's monitor.
`mcp_server_start` is a registered command that no window calls at present.
*Hard*: each step sees one cell, the main window's auto-start and the settings
may both start the bridge, and what an old listener or sidecar leaves to do runs
beside the next command. *Correct if*: a listener can always be stopped, the port
file leads nowhere wrong, one sidecar is spawned at a time, and, when nothing
overlaps, the cells agree.

**Hot exit** (`hot_exit/{coordinator,storage,commands}.rs`, `utils/hotExit/`,
`hooks/hotExit/`). *State*: the window states a capture collects, the session file
and its backup, `PendingRestoreState` with its generation, the windows' own
restores and guards. *Operations*: a capture asks every window and waits five
seconds; the session is written by way of its backup; the next process reads it,
creates the windows, and each pulls its state and completes; time-outs of 15 s and
60 s; "Test Capture" and "Test Restore" of the settings. *Hard*: late answers,
captures that overlap, a process that ends between any two file operations, windows
that cannot be created or never pull. *Correct if*: captured text is on disk until
a window shows it, a session holds nothing older than its capture, the main window
starts in any case.

**Sidecar's WebSocket client** (`tmark-mcp-server/src/bridge/websocket.ts`,
`cli.ts`). *State*: the current socket and the listeners on it, the flags
`connected`, `connecting`, `intentionalDisconnect`, the one pair
`_authResolve`/`_authReject`, the reconnection timer and its count, the request
queue and `pendingRequests` with a timer each. *Operations*: `connect`, open,
authenticate, close, error, reconnect, `send`, flush, answer, time-out,
`disconnect`. *Hard*: events of an older socket meet the state of a newer one; a
queued call may be written after its caller was told of a failure. *Correct if*:
the client never stops trying while it may, a call is told its outcome once and
written to one socket at most, every attempt ends.

**Tab transfer** (`tab_transfer.rs`, `components/StatusBar/tabTransferActions.ts`,
`contexts/WindowContext.tsx`, `components/Tabs/useTabContextMenuActions.ts`).
*State*: per window its tabs with their texts, `TRANSFER_REGISTRY`, the events
between windows. *Operations*: move to an open window or a new one, claim, apply,
the toast's Undo, windows that end. *Hard*: the text is taken before two awaits and
the tab dropped after them. *Correct if*: a tab is in one window, or on its way.

**MCP document handlers, and the rich-text editor** (`hooks/mcpBridge/v2/`,
`stores/revisionStore.ts`, `stores/mcpCheckpointStore.ts`,
`components/Editor/TiptapEditor.tsx`). *State*: the text in the store and the text
in the editor, which reaches the store a frame or a debounce later; one revision
for the window; what each client last heard; the replaced texts. *Operations*:
type, flush, switch tab or mode, read, write, transform, patch, restore, clear.
*Hard*: store and editor differ for a while, and one revision stands for all
documents. *Correct if*: typed text is kept, and a client that names the revision
it read replaces nothing newer.

**Workflow engine** (`workflow/{commands,runner,approval}.rs`,
`hooks/useWorkflowExecution.ts`, `stores/workflow*Store.ts`,
`components/WorkflowApproval/`). *State*: `running`, `cancel_requested`, the runner
task, the tokens, the registry of questions, each window's execution and dialog.
*Operations*: start, cancel, answer, the steps with their skips, questions and
time-outs, events to all windows. *Hard*: commands, replies and events overtake one
another. *Correct if*: nothing that asks runs unapproved, an answer that came
before the runner's last look is obeyed, a window leaves its running state.

**Crash recovery** (`utils/crashRecovery.ts`, `hooks/useCrashRecovery*.ts`).
*State*: the snapshot files, each window's pass with its guard and hash cache,
deletions under way, the recovery of the main window. *Operations*: the interval,
the write that a rename ends, the clean-up on save, undo, close and move,
`beforeunload`, the recovery file by file. *Hard*: writes and deletions that
overlap, a recovery that runs beside the new session, a process that ends in the
middle. *Correct if*: what a process left is shown or stays, and unsaved text gets
on disk.

### Not modelled

| Component | State and operations | Why not |
| --- | --- | --- |
| Windows, menus, opening files | readiness, queued events, files the system opens | what a quit depends on is in `QuitCoordinator`; the queue of files opened before a window is ready is left out |
| Terminal | processes and streams | I/O; the session table is small |
| AI providers and genies | external services and streams | I/O; a suggestion reaches a document as a keystroke does |
| Undo history | undo stacks over editor modes | sequential; the mode's toggle is in `McpDocuments` |
| Updates | a machine around the updater plugin | a small state machine, mostly the plugin's |
| Workspace and search, editor plugins, Markdown and formats, export, menus, settings, UI, website | parsing, rendering, layout | pure functions and I/O over texts and trees, which unit tests cover and whose data the models abstract from; they are most of the repository's lines |

`PROJECT.json` says of each modelled component what is left out of it.

## 2. Modules

| Module | What it is |
| --- | --- |
| `RequestService` | abstract: what the bridge promises about a request |
| `McpBridge` | the bridge; `ImplementsService` is its refinement of `RequestService` |
| `McpBridgeProofs` | types, write lock, table and channels; answers, the refinement, late writes |
| `DocumentSync`, `DocumentSyncProofs` | document, saves and files; types, saves, registrations, and that a document follows its file in time |
| `QuitCoordinator` | quit and close |
| `TabTransfer` | tabs that move between windows |
| `WindowProofs` | both of these: types, the exit, quits that are carried, losses, moved tabs |
| `BridgeLifecycle`, `BridgeLifecycleProofs` | start and stop; types, listeners, port file, spawn, the calm bridge and sidecar |
| `SidecarClient`, `SidecarProofs` | the sidecar's end of the bridge; types, connection, calls |
| `McpDocuments`, `McpDocumentsProofs` | one window's store, editor, clients and revision; types and three invariants |
| `WorkflowRunner`, `WorkflowProofs` | executions and their questions; types, approvals and answers |
| `HotExit` | capture, session files, restore |
| `CrashRecovery` | snapshots and their recovery |
| `SessionProofs` | both of these: types, fresh captures, what a restart and a recovery keep |
| `MC...` | what TLC needs: ids, symmetry, and several small instances side by side |

A definition that `PROJECT.json` names in a mutant (for instance
`AcquireAtOnce`, "Mutant of Acquire") is a plausible mistake in that operation.
It is used by no specification here: it is put in the operation's place to see
that a property notices.

**How they compose.** `McpBridge` takes the client's socket and the window's
handler as its environment; `SidecarClient` is that client (its server is free to
answer, refuse or close), `McpDocuments` is that handler (the bridge delivers its
requests one at a time, in any order). `BridgeLifecycle` starts and stops the
listener that `McpBridge` calls `listening`. `DocumentSync` and `McpDocuments` share
the store's text: the first has it with the files, the second with the editor and
the clients. `QuitCoordinator` ends windows, `HotExit` and `CrashRecovery` bring
their texts back. The interfaces are narrow (a request id, one text, one window)
and each side is modelled with the other free to do whatever it may.

### How the models correspond to the code

*Steps.* An `await` of Rust or TypeScript ends a step; what runs between two
awaits, or under one lock, is one action with all the calls it makes. In
`BridgeLifecycle`, where plain threads share atomics, a step is one access of one
cell. In `QuitCoordinator` and `TabTransfer`, synchronous Rust commands are whole
steps because they run one after the other on the main thread.

*Data.* A text is a body and its line endings (`DocumentSync`), a document and the
number of its edits (`HotExit`), a tab and a number (`McpDocuments`), a number
(`TabTransfer`, `QuitCoordinator`) or a value (`CrashRecovery`): what the
properties tell apart. A request is its client and its number. Time is counted in
ticks of 10 s (`McpBridge`), or is a choice between "within the pauses the code
counts on" and "later" (`Late` in `DocumentSync`), or is left to nondeterminism: a
timer that runs may fire.

*`McpBridge`.* `pc[c]` is where the `handle_message` of slot `c` is; `pending` is
the table, an entry naming the request and the attempt whose channel it feeds;
`chan` is the receiver's side. Dropping a sender closes the channel (`After`).
`lockq` is tokio's FIFO mutex. `Execute` and `Respond` are the window's event
handler and `mcp_bridge_respond`. `sent`, `ran`, `reply` are history; a `reply` is
what was put into the client's channel, whose send task may be aborted before it has
written it (`server.rs:333`).

*`DocumentSync`.* `pc`, `job` are the five saves; `Begin`, `Persist`, `Saved`,
`WriteFails` are `saveToPath` before the write, the write itself, and its two
ends. `Deliver`, `ReadFile`, `Resume` are an event's handler before, during and
after its read; `Policy` is `resolveExternalChangeAction`. `OpenDialog` and
`Choose...` are `processBatchedChanges` and `handleDirtyChange`. `persisted`,
`own`, `dropped` are history; `dropped` also records the one content check that a
document in time can fall behind by (`Mistaken`): another program has written the very
text that a save of the last second registered. The truncation that a non-atomic `writeTextFile` goes
through is left out.

*`QuitCoordinator`.* `task[w]` holds a handler for the window, one for Save All
and Quit and one per tab (`isClosingRef`, `closingTabIds`). `inbox[w]` are the
events emitted to a window: one that is loading loses them, except those of
the menu, which `menu_events.rs` queues until it is ready. A `close_window` or
`persist` that fails after the decision is left out.

*`BridgeLifecycle`.* Each invocation is a command `c`; the listener, port and
sidecar it makes are named after it. `loop` and `child` are what outlives a
command. `calm` is chosen once: in a calm history a command begins, and takes
each step, only when the exits and monitors of earlier ones are done.

*`HotExit`.* `run` counts the processes; a crash or relaunch keeps only `session`
and `backup`. `cap[c]` is a capture at the place its `phase` names, `asked` stands
for the clock its id is made from, so that two in one millisecond may share an id
(`sameId` among the `faults`). `pend` is `PendingRestoreState`, `timer` and `fired`
the time-outs of its generations. `startup` follows `checkAndRestoreSession` of the
main window; `rs[w]` a window's pull, application and completion. `owed` is history:
the texts a restart took and no window has shown since.

*`SidecarClient`.* A socket is the number of the attempt that made it; `heard` are
those with listeners on. `auth` is the socket whose promise `_authResolve` and
`_authReject` settle, `waiter` who waits for an attempt. `batch` is what
`flushRequestQueue` took and has not written yet; `wire` where a call was written.
The `ws` library is external: it emits open, error, close and message in its order.

*`TabTransfer`.* `BeginMove` takes the text, `Send` or `Detach` is the command,
`Finish` drops the tab. `HearEvent` is an event's handler in the target, `Apply` what is
left of it after the workspace is open. `known` is history: the tabs that met one
of the races listed in section 5, which the properties exempt.

*`McpDocuments`.* `store[t]` is the document store's text, `shown` the editor's;
`pending` says that a flush is due, `internal` that the editor ignores the store for
a frame. `heard[c]` is what a client last learned. `Forget` names the exceptions
of `TypedIsKept`. A byte limit of the history, the read-only guard and the source
editors' poll of 100 ms are left out.

*`WorkflowRunner`.* `calls` are commands and replies on their way, `events` those
to a window, in order. `runner.phase` is where the task is; `Sorted` is Kahn's
algorithm. What a step does is how it ends: done, failed, or too late. The end of
a question has three steps: the last look at the channel (`TimeOut`, `Abandon`), the
drop of the receiver (`DropReceiver`) and the removal of the sender (`DropPending`).
An answer has two, as `respond` takes the sender out under the mutex and sends after
it (`Respond`, `Send`), and they fall anywhere between those three. `missed` is
history: the questions whose answer was delivered after the last look.

*`CrashRecovery`.* `PassBegins`, `Look`, `WriteLands`, `PassEnds` are a pass;
`Ask` and `Delete` a clean-up and the deletion it asks for; `RecoveryBegins` to
`RecoveryEnds` the start-up hook. `found`, `shown`, `kept`, `old` are history.
`Hash` stands for `simpleHash`: the run takes one without collisions.

## 3. What TLC checks

Every run's constants are in its `.cfg`, or, where a run has several instances,
in its `MC` module: a behaviour begins with one of them and keeps it. Bounds are the
constants named `Max...`, `Timeout`, `TTL`, `Budget`, `Limit`, `Concurrent` and the
sets; they appear in guards only.

| Run | Instances | Properties |
| --- | --- | --- |
| `bridge` | 2 clients with a request each of an exclusive, a shared or a Rust-side type; 2 reads and a table of 1; 1 client with 2 writes, a stop and restarts; always a window that may close and a webview that may sleep | `WriteExclusion` `EmittedIsAnswered` `PendingHasServer` `UnlockedIsLate` `ImplementsService` `RequestsEnd` `DrainedEnds` |
| `doc_saves` | auto-save and Save, failures, late reads, 2 edits; Move To and the MCP save over 2 files; auto-save and the dialogs in time, 2 foreign changes | `CleanIsPersisted` `NewestIsRegistered` `NothingDiscarded` `InSyncInTime` `OwnSavesInTime` |
| `quits` | 2 windows that close with their last tab, quits by menu and system, Cmd+W, 2 edits; every input, 2 tabs, a new window, an edit | `ExitOnlyAfterAll` `QuitIsCarriedThere` `LossIsLate` `QuitEndsThere` |
| `lifecycle_races` | 4 commands of every kind, two at a time or calm | `FileNamesListener` `OneSpawner` `RunningIsDiscoverable` `SidecarIsStored` |
| `hotexit` | 2 labels, 2 documents; 3 processes or captures with 2 windows, 4 with one | `OwedIsKept` `SessionIsFresh` `StartupEnds` |
| `sidecar_calls` | 3 calls, 4 sockets, queue of 2, 2 reconnections | `NeverStranded` `OneAttempt` `NoneForgotten` `SentOnce` `ConnectEnds` |
| `tab_transfer` | main and 2 document windows, 2 tabs, 2 moves, an edit | `MovedTextIsKept` `OneCopy` `DetachedIsShown` |
| `mcp_documents` | 2 tabs, 2 clients, 3 texts, a restore | `EditorAgrees` `TypedIsKept` `TrackedIsSafe` |
| `workflow_runs` | 2 windows, 2 executions, a cancel, an answer, over a workflow and a circle | `ApprovedOnly` `AnswerIsObeyed` `WindowIsFreed` |
| `crash_recovery` | one document; one that changes windows; a recovery beside a document; a recovery that is broken off | `NothingIsLost` `StaleIsLate` `UnsavedIsKept` |
| `editor_switch` | the user alone, 2 tabs | `OwnText`, violated |
| `stale_write` | a client and the user, 1 tab | `StaleIsRefused`, violated |

What they show, beyond the sentences above each property in the modules:

- `PendingHasServer` and the theorem `ReceiversHaveSenders` together say that table
  and waiting handlers match at every instant, across both attempts: there is
  neither a lost wake-up nor a leak, whichever of answer, time-out, retry, stop and
  window close comes first.
- `UnlockedIsLate` is what is left of "writes are serialized": a write runs
  outside the lock only after its client was told it had failed, or as the second
  copy of an event whose first copy was answered. Section 5 has the rest.
- `NewestIsRegistered` is what `pendingSaves.ts` needs its tokens for.
- "No text is lost" takes a form per component: `NothingDiscarded` in the editor,
  `LossIsLate` when a tab, a window or the process goes, `OwedIsKept` over a restart,
  `NothingIsLost` and `UnsavedIsKept` over a crash, `MovedTextIsKept` between windows,
  `TypedIsKept` beside AI clients. Each names its exceptions; section 5 has them.
- `InSyncInTime` and `OwnSavesInTime` hold under the timing the code counts on
  (`InTime`: one file, events handled within the pauses, neither suppressed nor
  reported as renames); section 5 says what happens without it.
- `QuitIsCarriedThere` and `QuitEndsThere` speak of the instance without the close
  button, whose dialog makes a window skip a quit.

**Why these bounds.** The bridge's conflicts are between two handlers (the lock,
the table's limit) or between two attempts of one (everything else); a table of
one entry makes "full" a normal case; `Timeout = 1` lets everything happen before
and after each time-out, and `TTL = 6` (60 s) is more than the two time-outs, as
in the code. In the first two instances of `bridge` clients do not leave, which
adds nothing to the conflict of two requests; the third has every end of a
connection. Request ids are distinct in the run, so `ChannelClosed` does not happen
there; the theorems `WritesAreExclusive` and `EmittedAreAnswered` cover ids that
collide. Two overlapping saves give every order of two registrations, writes,
answers and timers; a third adds only repetition of a pair. Two foreign changes
allow the editor, the file and the registration to differ from each other
pairwise. A quit distinguishes a window that is done from one that is not; two
are enough, and three inputs allow a quit, its cancellation and another. Two
commands at a time give every interleaving of two starts, two stops or one of
each, with two more before and after them. A capture distinguishes a window that
has answered from one that has not; the instance with a budget of 4 allows a capture,
a crash in the middle of the restore, another capture and another restore. Four sockets with two
counted reconnections reach the limit, success after a failure, and an event of an
old socket beside a new one; three calls fill a queue of two. Two moves overlap or
follow one another. Two clients, one text of the user and one each of theirs give
every order of who read and who wrote; a history of one is full at once. A
workflow whose first step needs a later one, with a question and a false condition,
meets every branch of the runner once; a second execution meets what the first
left behind. Three edits are a change, its undo and its return, which is what the
hash cache can get wrong; two leftovers are one duplicate or two documents.

**Deadlock** is not checked (`CHECK_DEADLOCK FALSE`): every instance ends when its
bounded inputs are used up, and these programs may idle.

**Fairness.** `McpBridge`: a ready task of the tokio runtime is scheduled and its
timers fire (`Tick`, the handlers, the shutdown branch, the time-out of the
authentication); the mutex is FIFO by its documentation. Nothing is assumed of
clients, windows or webviews, so `RequestsEnd` says that the bridge frees a
request by itself. `QuitCoordinator`: the event loop and the webviews run, and a
user answers a dialog some day; inputs and edits are not fair. `HotExit`: timers
fire, commands return, and a webview that pulls goes on; no window has to come up.
`SidecarClient`: timers fire; nothing is assumed of the server. `TabTransfer`: the
pages of open windows run. `WorkflowRunner`: commands, events and the runner go on,
a question times out at the latest; no user has to answer. `CrashRecovery`: the
interval fires and file operations answer. The other modules have safety
properties only.

## 4. What is proved

`tlapm` checks the following for every value of the constants that satisfies the
`ASSUME`s of the modules (numbers are naturals, sets are not empty, `None` is not a
value).

**Bridge.** `TypeCorrect` and `WritesAreExclusive` rest on `BaseInv`: a handler
inside the write section is the head of the FIFO queue, every waiter is somewhere
in it, and how often a request was emitted follows from its handler's place. They
need nothing of request ids, so they also hold when two sidecars' ids collide.
`EntriesHaveServers` and `ReceiversHaveSenders` rest on `TableInv` (entry, attempt
and program counter agree; an entry is never older than its handler's clocks
allow, so that `cleanup_stale_pending` takes none that is in use), under
`Distinct`: ids differ and `Timeout < TTL`, as in the code (10 s and 60 s for each
attempt). `EmittedAreAnswered` needs no such assumption (`ReplyInv`);
`OkAnswersAreTrue` adds `OkInv`: an "ok" on its way, in a channel or sent was put
there by an execution. `BridgeImplementsService` shows, under `Distinct`, that
every step is a begin, an answer or an end of a request in `RequestService` or a
stutter; for the execution of a queued event it needs `QueueInv`, that such an
event was emitted.

`RunsOutsideTheLockAreLate` is `UnlockedIsLate`, again under `Distinct`. It needs the
order of the events: those of a request are in one window, by attempt (`EventInv`),
and no window's answer exists before the first of them was taken (`AnswerInv`). So a
write that runs without the lock is the event of an attempt that was given up, or a
second copy.

**Document.** `TypeCorrect` needs, beyond the types, that a dialog that is open
has the change it is about (`DialogInv`). `CleanMeansPersisted` is not inductive
as it stands: `SyncInv` adds that the remembered texts, and the files' texts, and the
text of every write that has returned and of every read under way, are on record
(`RecordInv`), and that the dirty mark is the comparison of the editor with the
saved text (`DirtyInv`). `NothingIsDiscarded` follows step by step from it.
`NewestStaysRegistered` rests on `TokenInv`: tokens of saves and timers never
exceed the counter, no two saves share one, and the timer of a save starts only
when its write is over.

`DocumentsFollow` says, for any texts, tasks, failures and bounds with `InTime`, that a
document at rest agrees with its file, is marked, or met the exception in `dropped`.
Two invariants carry it: what was written or read is still in the file when the code
resumes (`SampleInv`: this is what "in time" is worth), and a document behind its file
is marked, or an event, a read, the dialog or a save is under way that will bring it
forward or mark it (`FollowInv`). `OwnSavesAreFiltered` adds `OwnInv`: while an event is
unhandled the text that auto-save wrote last is registered, because neither its
timer nor the next save comes before the event (`Remembered`).
`DocumentsFollowInTime` and `OwnSavesFilteredInTime` are the same for `MCSpec`, the
specification that TLC runs. The proof found the exception: an earlier statement
without `Mistaken` held within the run's bounds, and TLC refuted it beyond them when
the induction did not go through. Without `InTime` both are false.

**Quit.** `ExitsAfterAll` rests on `ExitInv`: windows that were there at the begin
have been created; while a quit is in progress those that are left are among the
targets; once the exit is allowed none is left. The last two are what the order
of `handle_window_destroyed` and `cancel_quit` has to maintain. `QuitIsNeverDead`
assumes that there is neither the close button nor a new window among the inputs
(section 5 has what happens with them); `QuitIsNeverDeadThere` is the same of `MCSpec`.
Then only quits start a window's handler, and while a quit is in progress there is a
target, and each target carries it: it is closing, has cancelled, has the event
waiting, or its handler runs (`CarriedInv`). `LossesAreLate` is an action property;
what it needs of a state is `LossInv`: texts that were saved are on record, a handler's
snapshot is never newer than the texts, what a handler has not to decide any more is
on record, and a tab's handler closes a window only when no tab is left.

**Tab transfer.** `MovedTextKept` and `OneCopyOfATab` rest on `TransferInv`. A tab that met
none of the races of section 5 is in one of three places. It rests: in a window, or on
its way to it with nobody else moving it. It moves: the text sent is at the target or
on its way there, the latest text still at the source. It is being undone: one at
least of the removal at the target and the return to the source is to come. In each
place every other window is without it, and queues and the registry of detached
windows hold one event of it at most. The steps that touch no text of a tab share one
lemma (`CalmInPlace`).

**Lifecycle.** `ListenersAreHeld` and `FilesNameListeners` are inductive together
with the phases (`PhaseInv`); `SpawnsAreSerial` needs `SpawnInv`: the guard is set
while a command is past it, and the stored handle is empty from the second check
to the store. `RunningBridgesAreFound` and `SidecarsAreStored` hold while commands
come one at a time (`calm`) and rest on `CalmInv`: one command runs (`Alone`); a
bridge that says it runs is up at its port, or the command that takes it down or
sets it up is known (`BridgeCalm`); one sidecar at most is not done with, and it is
stored or about to be (`SidecarCalm`). Without `calm` both are false, as section 5
says.

**Sidecar.** `NeverStrands` and `OneAttemptAtATime` rest on `AttemptInv`: between the
start and `disconnect()` one socket is heard, the current one, and an attempt that is
under way has its connection timer or is the one that `_authResolve` belongs to.
`NoCallIsForgotten` and `CallsAreSentOnce` rest on `CallInv`, which says where a call
can be: not made and nowhere; queued, with its timer and unwritten; in a flush, the
head sent and the others unwritten; pending; and that a queue timer that outlives
its place in the queue is of a call in the flush or sent. `BusyInv` adds that a flush
goes on only over a connection, so a second one never meets it.

**Documents of AI clients.** `EditorAndStoreAgree` adds to `EditorAgrees` what the
editor last took from or gave to the store. `NewerIsNotReplaced` says in its
invariant what a client that has heard the current revision knows: the text of its
tab, if that text came with a revision at all. `TypedTextIsKept` follows typed text
from the editor to the store and on to the replaced texts.

**Workflow.** `NothingRunsUnapproved` and `AnswersAreObeyed` rest on
`OneExecution` (there is one execution from the claim of `running` to its release)
and on `FreshCalls` (a command on its way belongs to no execution that has run).
Of the order of the steps only `OrderAssumption` is used, that it is without
repetition; TLC evaluates, over every way three steps can need one another, that
it is a topological order (`SortedIsTopological`). `AnswersAreObeyed` needs two more
parts: `TakenOnce` (an answer that is being sent is to a question that was asked once
and is out of the registry) and `Obeyed` (a denied or missed answer leaves the runner
where nothing more runs).

`TypeCorrect` needs of the events that they are about questions and executions there
were, and of the runner that its steps are its workflow's.

**Hot exit.** `OwedTextStays` is `OwedIsKept`: the texts that a restart took are in the session
or its backup until every window that was to show them has. `KeepInv` says so by
phases, when no fault but shared ids has occurred: a capture has the application for
itself (`Alone`); before the restore nothing is pulled (`Before`); from then on every
text still owed is in a state that its window has not completed (`Awaited`); when the
files are cleared none is owed (`After`). It needs that the files have one state of
each window and that the payload last written is the session (`SessionInv`), and how the
counters limit one another (`CountInv`). `CapturesAreFresh` rests on `FreshInv`: an
answer is no older than the id it carries, an accepted one carries its capture's, and
without shared ids that is the moment at which the capture began.

**Crash recovery.** `LeftoversAreKept` is `NothingIsLost`. Its invariant has four
parts: tabs and snapshots are numbered in order (`Numbered`); what a process
writes, deletes and closes is its own, never a tab it found (`Apart`: this is where
a tab id that recurs would break it); how far the recovery is with each snapshot
(`Progress`); and that it is on disk until then (`Still`). The lemma `Newest`, by
well-founded induction on the natural numbers, shows that a dropped duplicate has a
newest one of its path that is kept, so that deleting the duplicates last is safe.
`StaleSnapshotsAreLate` follows step by step from the same invariant.

**Only model-checked**: liveness (`RequestsEnd`, `DrainedEnds`, `QuitEndsThere`,
`StartupEnds`, `ConnectEnds`, `DetachedIsShown`, `WindowIsFreed`, `UnsavedIsKept`),
which needs fairness and `ENABLED`, out of the prover's reach. Every invariant and
every action property that a passing run checks is also a theorem, and so is the
`TypeOK` of every module; no run spends a property on types, since any of them can be
added as an `INVARIANT` to a cfg. Induction over recursive data is not needed: the
modules declare no recursive operator.

## 5. Divergences

What the code does and a comment, a document or its own purpose says otherwise.
The first two are shown by a run. Of the others, those that name a definition in
brackets are seen by adding it to a cfg: it is stated in the module and violated.

- *A flush goes to the wrong tab* (`editor_switch`, `OwnText`): the clean-up of the
  old editor resolves the active tab after the switch (`TiptapEditor.tsx:454`), so
  typed text replaces another document's.
- *A stale write is accepted* (`stale_write`, `StaleIsRefused`):
  `initializeRevisionTracking` is never called, so typing makes no new revision
  (`document.ts:261`, against `revisionStore.ts:11`).

**Bridge.**
- After the first time-out the same event is emitted again (`server.rs:613`), and
  `handleRequest` executes each; the cache that `mcpBridge/index.ts:19` speaks of
  does not exist [`AtMostOnce`].
- `tmark.document.read` is not in `is_read_only_operation` (`state.rs:173`) and
  queues behind writes. A request whose window is gone ends with no answer
  (`server.rs:559`), as does one that meets a full table: `EmittedIsAnswered` speaks
  of emitted ones only. A connection that registers after `stop_bridge`'s drain stays
  in the table.
- When two sidecars' ids collide, an answer reaches whichever request is in the
  table: `OkMeansExecuted`, `ImplementsService` and `UnlockedIsLate` are claimed of
  distinct ids only.

**Document.**
- Auto-save writes over the change that the open dialog asks about
  (`useAutoSave.ts:84`, against `workspace-management.md:179`); Reload then loads the
  user's text [`AskedChangeSurvives`].
- Save does not look for a running auto-save (`useFileSave.ts:129`): the older text
  may be renamed into place last, and the older one's event prompts the user.
  `tmark.workspace.save` registers no pending save: its own event may prompt.
- A change within one second that restores the registered text (`Mistaken`, the
  exception in `InSyncOrDropped`), or that is reported as a rename
  (`useExternalFileChanges.ts:372`), is not looked at; the
  second of two changes within 200 ms is not reported (`watcher.rs:150`). A document
  made clean by undo while the dialog waits stays different from its file if the
  dialog is left.
- A document with CRLF endings is dirty after every save (`documentStore.ts:151`).
- An auto-save beside Move To brings the old file and path back. A deletion handled
  while a save recreates the file leaves the missing mark.

**Quit.**
- A quit that arrives while the close button's dialog is open is skipped
  (`useWindowClose.ts:206`); Cancel does not cancel it, and later quits do nothing
  [`QuitIsCarried`, with `"close"` among the inputs].
- Windows opened after a quit began are not waited for (`quit.rs:151`);
  `ExitOnlyAfterAll` says no more than the code does. Text typed during a close's
  save goes with the window (`useWindowClose.ts:142`): the last case of `LossIsLate`.
  `force_quit` without windows does not end the process (`lib.rs:816`).

**Lifecycle.**
- The second of two overlapping starts of the bridge (auto-start and the settings'
  button) ends the first listener, whose `on_exit` then resets the flag while the
  second listens (`mcp_server.rs:71,89`). A start right after a stop may lose its
  port file to the old listener's `on_exit`; a sidecar's monitor may clear a newer
  sidecar's handle (`mcp_server.rs:297`). These are why two properties speak of calm
  histories.

**Hot exit.**
- The session is deleted although a window could not be created, and its text with
  it (`coordinator.rs:522`, against `restartWithHotExit.ts:181`)
  [`PartialRestoreIsKept`].
- Overlapping captures: the slower, older one replaces the newer session; the clear
  after a restore deletes what a capture wrote meanwhile; a capture during or after
  a failed restore replaces the session that was kept. Two captures that begin in
  one millisecond share an id.
- A session without a main window's state sends the first window's both to the main
  window and to a new one (`coordinator.rs:445`). A label used again makes the merge
  take another window's state, and merging renews an old state's age.
- A session kept after the 15 s time-out is not deleted when the late windows
  complete: the next start restores it again. A crash between the two deletions
  leaves the backup, with the same result.

**Sidecar client.**
- A queued call whose timer fires after `flushRequestQueue` has taken the queue is
  rejected to its caller and written all the same (`websocket.ts:595`): the exception
  in `SentOnce`. Calls made during a flush overtake the queued ones. Both need
  `queueWhileDisconnected`, which `cli.ts:450` leaves off.

**Tab transfer.**
- Text typed during a move's awaits is dropped with the tab; Undo restores the text
  that was sent and discards the target's edits (`tabTransferActions.ts:10`:
  "preventing accidental data loss"). A tab sent to a window that is closing, or not
  listening yet, is lost. An Undo before the target has applied, after it has moved
  the tab on, or twice, leaves the tab in both windows or none. A second click on
  "Move to New Window" during the first makes two windows with the same tab.
- Comments disagree whether `window.emit()` reaches every window
  (`menu_events.rs:405`, `useWindowClose.ts:185` against `lib.rs:923`,
  `server.rs:535`); the model has targeted events, as `tab_transfer.rs:60` says.

**Documents of AI clients.**
- A write that names a background tab puts its text into the active tab's editor as
  well (`document.ts:158`), and the next flush into the active document
  [`EditorShowsItsTab`].
- Reads and writes use the store, which lags the editor: a client may read, and a
  checkpoint keep, a text without the last keystrokes. A `STALE` answer gives the
  current revision without the text. The read-only guard looks at the active
  document only.
- A change of the store in the frame after a flush is ignored by the editor, and
  the next flush undoes it (`TiptapEditor.tsx:543`); a reload while keystrokes wait
  for their flush is overwritten by them.
- Restore replaces the current text without a checkpoint of it; two windows share
  the history's file, and overlapping appends lose one.

**Workflow.**
- An answer that is sent after the runner's last look at its channel and before the
  receiver is dropped (`runner.rs:387`, `393`) is delivered, `respond` returns true
  (`approval.rs:44`: "the response was delivered") and the dialog closes; the step
  times out all the same [`NoneIsMissed`]. `AnswerIsObeyed` says what is left: an
  answer that came before that look is obeyed, and a missed one never runs the step.
- `cancel_workflow` ignores its execution's id: a late cancel ends the next
  execution; one that falls between the claim of `running` and the reset of the flag
  is lost.
- An error between the claim and the spawn (`commands.rs:139`) leaves `running` set
  for good. A circle returns before the complete event (`runner.rs:246`): the window
  stays running, and Cancel is refused (`useWorkflowExecution.ts:150`: "Roll the
  store back so the UI doesn't show a fake "running" state"). `WindowIsFreed` exempts
  it.
- Events go to every window: one without an execution shows another's dialog. The
  store "holds the pending requests" but has room for one, and a late `dismiss`
  clears the next question [`QuestionIsShown`]. The bridge of an ended execution
  polls until the next cancel.

**Crash recovery.**
- The hash cache is not told of a deletion: a text that returns after a save or an
  undo is never written again (`useCrashRecoveryWriter.ts:80`, against its header and
  `features.md:394`) [`EveryTextIsKept`].
- A rename that lands after a deletion leaves a snapshot of saved text, which the
  next start offers. A tab that moves keeps its id, so the window it left deletes
  the snapshot that its new window writes.
- A recovered document's old snapshot is deleted before its new tab has one: a crash
  within the next ten seconds loses the text. A recovery that starts late also
  restores this session's own snapshots, as duplicates. A document that the user had
  emptied comes back clean.

## 6. What could follow

1. An abstract specification of what a document promises its user (one text, saved
   or not, and a file), with `DocumentSync` in time as its implementation.
2. A composition of `SidecarClient` with the connection of `McpBridge` in place of
   the free server: what a call is told against what a window executed.
3. The queue of files the system asks to open, and the updates' state machine.

## 7. Running

    tlc -workers 2 -config bridge.cfg MCMcpBridge.tla
    tlapm McpBridgeProofs.tla

A run takes from some seconds to three minutes, a proof module a few minutes.
