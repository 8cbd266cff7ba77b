# QingCode: specifications of the editor's state and of its remote terminals

QingCode is a Tauri desktop IDE. Its frontend (TypeScript) keeps the open files, their unsaved
text, the projects and their sessions, and what Git says of them, in a handful of stores that every
part of the user interface changes. For a remote project it runs a resident daemon,
`qingcode-server` (Rust), on the host: one per user, holding the project's terminals (PTYs), so that
a shell survives the SSH connection, the network and the application itself. The desktop application
reaches it through `connect --stdio` in an SSH exec channel, or over HTTPS/WSS (`direct`), with one
framed protocol.

What is easy to get wrong is not any single function but the meeting of many tasks: in the daemon
reader threads, an event dispatcher, one loop and several request tasks per connection, watchdogs, a
reap timer, and clients that vanish and come back under the same name; in the frontend, handlers
that wait for the backend or the user with a stale picture of the store, while disk events, timers,
project switches and the user's typing go on. These modules specify both.

Paths below are relative to the repository; `Q/` stands for `src-tauri/qingcode-server/src/`, `C/`
for `src-tauri/src/remote_ssh/server/` and `F/` for the frontend's `src/`.

## 1. Inventory

### The daemon

| Component | State | Operations | Correct when |
|---|---|---|---|
| Output ring buffer (`Q/pty.rs` `RingBuffer`) | blocks with seqs, bytes, evicted_through | push, clear, can_replay, replay | a granted replay has no hole; lost output is never offered again |
| PTY host (`Q/pty.rs` `PtyHost`) | registry of terminals, accounted bytes, owner, attached, exited | create, output, attach, detach, kill, release, reap, shutdown | memory stays within the budget; a terminal's process never outlives everybody who could end it |
| Routing (`Q/daemon.rs` `PtyRoute`, `pty_events`, `pty.attach`) | route per terminal: connection, next seq, phase, pending | create, attach with replay and handoff, live dispatch, exit, detach, teardown | each connection sees the stream in order, whole, once; a route ends; the exit is told |
| Input (`Q/daemon.rs` `pty_input_loop`, `Q/pty.rs` `write_input`) | next_input_seq, partial write, gate, queue per connection | enqueue, write, resume, cancel | each byte typed is written at most once, in order, and acknowledged only when written |
| Connections (`Q/daemon.rs` `handle_conn`, writer loop) | registration, outbound queues, cancel flags, windows | hello, request, cancel, window, teardown | backpressure reaches producers; nobody waits for ever |
| Protocol (`Q/proto.rs`) | credit windows, priority queue | acquire, replenish, push, pop | credit is conserved; streams stay in order; bulk is not starved |
| Startup (`Q/startup.rs`, `ipc.rs`, `connect.rs`, `service.rs`) | state file, lock, socket | start, find, stop | one daemon per user |
| Watching, workspace, direct agent, diagnostics | subscriptions, request budgets, TLS listener | subscribe, file operations, pairing | later, or stateless |

### The desktop client of a host

| Component | State | Operations | Correct when |
|---|---|---|---|
| Terminal proxy (`C/terminal.rs`) | pending input, next_input_seq, next output seq, offline kill | attach, reconnect, send, kill | input and output survive reconnects; an ended terminal is seen to end |
| Session (`C/daemon.rs`) | pending requests, streams, event budget | request, attach stream, heartbeat, shutdown | answers reach their requests; a dead peer is noticed |
| Daemon cache (`C/host_runtime.rs`) | gate, generation, ready, failure | acquire, invalidate, invalidate_if_current | nothing from before an invalidation is used after it; one preparation for all |
| Project slots and deployment (`C/deploy.rs`, `mod.rs`) | slot per project root: endpoint, failures, pending probe | ensure, update, stop, probe | concurrent changes of a slot are not lost |
| SSH, SFTP, transfer, search, watch (`remote_ssh.rs`, ...) | session pool, transfer registry | connect, transfer, cancel | cancellation and reuse are sound |

### The desktop application

| Component | State | Operations | Correct when |
|---|---|---|---|
| Editor buffers (`F/store/editorStore.ts`, `F/lib/{editorSession,syncOpenFileFromDisk,autoSave}.ts`) | tab text, CodeMirror documents, dirty flag, known mtime, dialogs | open, load, type, save, sync from disk, reopen, compare, close | the text is always somewhere; what is unsaved is marked; nobody's write is overwritten unseen |
| Editor sessions (`F/store/editorStore.ts`) | visible tabs, Ctrl+Tab order, stashed sessions per project | switch, stash, restore, evict, pin, close one or many | a tab stays with its project; unsaved tabs are never evicted |
| Projects, named workspaces, persistence (`F/store/projectStore.ts`, `F/utils/projectActions.ts`, `F/lib/{namedWorkspaceActions,workspaceSessionSync,draftRecovery}.ts`) | project list, hidden, current, switch under way, snapshot and drafts in localStorage | load, switch, hide, remove, save as, named workspaces, start, crash | a restart brings back what was there; drafts cover unsaved text |
| Git status store (`F/store/gitStatusStore.ts`) | snapshot per project, reads in flight, timers | refresh, join, queue, apply, activate, clear | a badge never falls behind an announced change; the spinner is truthful |
| Source control panel (`F/components/SourceControlPanel.tsx`) | operation, history pages and cache, picks and panes, background fetch | stage, discard, commit, pull, push, fetch, switch, log, diff | what is shown is of what is selected; commands that exclude each other do |
| File watching (`F/hooks/useFileWatcher.ts`) | queue of tree refreshes | event, periodic refresh | badges catch up |
| Terminals of the frontend (`F/store/terminalStore.ts`, `F/lib/appCloseFlow.ts`) | tabs, pane bindings, marks of spawns, kills, restarts and checks, the exit's list | add, spawn, restore, close, restart, shell after a task, exit of a shell, exit of the application | no shell without a tab, no running tab without a shell; the application's exit waits for what it must, no longer, and leaves no shell behind |
| Local terminals (`src-tauri/src/terminal.rs`) | sessions by id | spawn, kill (a busy shell is told to end and ended later), exit | as the terminals of the frontend see them |
| Git and its synchronisation cache (`git.rs`, `git/sync_cache.rs`), local watcher, search, LAN mobile companion (`mobile.rs`) | | | not modelled |

`PROJECT.json` lists every part, modelled or not.

### How they interact

- A shell's **reader thread** pushes a block into the ring under the host's lock, evicts other
  terminals' buffers if the budget is exceeded (still under the host's lock, but each terminal's own
  lock is taken only for a moment, so attaches and detaches go on), and sends the block to the event channel (bounded;
  a full channel blocks the reader).
- **pty_events** takes events off that channel and, under the lock of the routes, hands a block to
  the routed connection or to the route's pending list while a replay is under way.
- **A connection's loop** reads frames and spawns a task per request. The attach task asks the host
  for an `AttachResult` with the routes locked, installs the route, then sends the answer, the
  missed blocks and the end mark without the lock, drains what came meanwhile and goes live.
- **Input** is queued per connection and terminal; the task of that queue writes each request
  behind the terminal's gate, which outlives connections.
- **The proxy** opens a new daemon session for every reconnect, with the same client id, attaches
  once per session, and gives the session up at the first sign of trouble.
- **Every user of a host** goes through `RuntimeEntry::acquire` for the daemon's access.
- **The frontend** is one thread. What runs between two awaits is atomic, and everything else may
  happen during an await: other handlers, timers, watcher events, the user.
- **A file on disk** reaches its tab through the watcher's events, the focus handler and the mtime
  comparison of a save; a save suppresses the watcher for a while.
- **A project switch** stashes the visible tabs, waits for the backend and brings back the stashed
  ones; the snapshot and the drafts follow the stores on timers and are read again at the start.
- **A terminal tab** asks the backend for a shell and for its end, which of two tables of sessions it
  asks for the end being a matter of `sshTerminalIds`; answers and exits come back as
  events in the order produced, while the tab may be closed, restarted or created anew. The exit of
  the application waits for the marks of what is under way, takes its list and kills what is on it.
- **The source control panel, the watcher and the periodic refresh** all ask the Git store for
  reads; the store joins them, repeats them and decides which result may be shown.

### Which behaviours are hard

Interleavings of attach, output, exit, kill, reap and teardown (several actors, locks released in
between); a new connection of the *same* client while the old one is still being torn down;
requests whose answers are lost and that are sent again; a write cut off half way; restart of the
application; processes that ignore SIGHUP; bounded queues that fill; cancelled futures; caches that
are invalidated while being filled; text typed during a save; a disk event answered by a store that
has changed since; a project removed while it is being switched to; a crash between a store and its
persisted copy; Git reads that end after a newer request or for a project no longer shown; a tab closed or
restarted while its shell is being created, and an exit of the application meanwhile. Each is listed
under `hazards` with the line where it bites and the properties that cover it; a hazard without a
property says why.

## 2. The modules

| Module | Models | Used by |
|---|---|---|
| `RingBuffer` | operators of `RingBuffer`: push, clear, can_replay, replay | `PtyRing`, `PtyHost` |
| `PtyRing` | one terminal's ring over time | run `ring`, `PtyHost_proofs` |
| `PtyHost` | registry, budget, termination, shutdown; a ring per terminal | run `host`, `PtyHost_proofs` |
| `OrderedDelivery` | abstract: what a connection may be sent about a terminal | implemented by `PtyRoutes` |
| `PtyRoutes` | routing of one terminal, connections, teardown | runs `routes`, `routes_live`; `PtyRoutes_proofs` |
| `PtyInput` | input end to end, client and daemon | run `input`, `PtyInput_proofs` |
| `HostRuntime` | the client's cache of the daemon | run `runtime`, `HostRuntime_proofs` |
| `EditorBuffers` | an open file: text, disk, saves, syncs, dialogs | `MCEditor`: runs `editor`, `editor_midflight` |
| `EditorSessions` | operators of the editor store on tabs and sessions | `WorkspaceSessions` |
| `WorkspaceSessions` | projects, named workspaces, snapshot, drafts, restarts | `MCSessions`: run `sessions`; `WorkspaceSessions_proofs` |
| `FreshBadge` | abstract: what a Git badge may show | implemented by `GitStatusStore` |
| `GitStatusStore` | operators of the Git store, and the store under any callers | `SourceControl`, `SourceControl_proofs` |
| `SourceControl` | panel, watcher and periodic refresh over the store | `MCGit`: runs `git`, `git_live`; `SourceControl_proofs` |
| `Terminals` | terminal tabs, their shells, the exit of the application | `MCTerminals`: run `terminals`; `Terminals_proofs` |

Common conventions: an action is one critical section of the code, or one step between two of them;
a variable is named after the field it stands for, and its declaration says which; a definition
whose name ends in `_something` and is introduced by "Mutant:" is a plausible bug of the definition
below it, used only to show that the properties notice.

**RingBuffer, PtyRing** (`Q/pty.rs:227-315, 1332-1418`). A block is its length and seq. `Pushed`
includes the loop that pops old blocks and the case of a block larger than the buffer, which is
dropped while older ones stay. `--scrollback-bytes` takes any number, so that a read may be larger
than the buffer is a state of the program; nothing is assumed of the two sizes. The history
`oversized` holds the seqs of such blocks, and `Overtaken` says that the buffer still holds a block
older than one of them: the two are the exceptions of the module's properties (section 4).

**PtyHost** (`Q/pty.rs:455-1100, 1307-1418, 1709-1741`). `Create` checks the slot limit; a late
failure (`CreateFails`: the reader thread does not start) leaves an abandoned process. `PushOutput`
is push and accounting; over the budget it begins an eviction, which keeps the host lock
(`evictor`; every action that takes this lock waits for `HostLockFree`) and is several steps:
`EvictRead` reads one candidate under the candidate's own lock (`picture`), in any order;
`EvictClear`, once all are read, empties the next one in the order of what was read, and gives the
host lock back when the total fits or nobody is left. `Attach`, `Detach`, exits, signals and the clock come
between any two of them. `KillSignal`/`KillRemove` and
`Reap`/`ReapSignal` are pairs because the code releases the lock in between. `Terminate` is the
SIGHUP together with the watchdog that follows it with a SIGKILL, or with the immediate SIGKILL if
the watchdog's thread does not start. Shutdown is its three phases. The process itself (`Die`) and
the clock are external. Left out: resize, the screen parser, listing, Windows' waiter thread.

**PtyRoutes** (`Q/daemon.rs:621-996, 1332-1554, 2193-2438`, `Q/pty.rs:803-1044`). One terminal,
several connections of one client. The variables are the terminal's fields, the event channel,
the route, where `pty_events` is in giving a route up, and for each connection its loop and its
request task. `out` summarises what has been queued to each connection, so that every frame is a
step of `OrderedDelivery`. A block is one frame. A connection makes one request about the terminal
(create or attach), then perhaps a detach: the proxy never does more.

**PtyInput** (`C/terminal.rs:165-206, 602-606, 1146-1190, 1574-2097`, `Q/daemon.rs:1017-1207`,
`Q/pty.rs:200-215, 739-775, 1102-1211`). A chunk is one numbered request, known by its place in the
order typed; a write is byte by byte, so it can be cut off anywhere. `Blocking` chooses between the
writer of Unix (cancellable between two bytes) and the one of Windows (a thread that goes on by
itself). The client gives a connection up (`GiveUp`) long before or after the daemon tears it down
(`Teardown`). `Restart` is the application's: a new proxy takes its number from the attach answer.
`life` is a counter of restarts that only properties and the bound read.

**HostRuntime** (`C/host_runtime.rs:38-169`). An acquirer's program counter stands at each await
and between any two accesses of the three cells `generation`, `ready` and `failure`. A future
dropped by its caller's timeout (`Cancel`, `C/deploy.rs:1160`) loses its guard. Elapsed times
(HEALTH_TTL, FAILURE_RETRY) are left open: either branch may be taken. `asOf`, `floor`, `forgotten`
and `cause` are ghosts. Left out: the map from host identity to entry, the UI hints and
`discard_bindings`, which edits project slots.

**EditorBuffers** (`F/store/editorStore.ts`, `F/lib/editorSession.ts`,
`F/lib/syncOpenFileFromDisk.ts`, `F/lib/autoSave.ts`). A handler (load, save, sync, reopen)
is a record in `ops` whose `pc` names the await it stands at; each action is the code from one await
to the next. A tab's text may be in the store, in the CodeMirror document bound to the shared view or
in a cached editor state; `resolveTabContent` is the code's order of looking for it. A text is a
number, odd as typed and even as saving tidies it, so that the two are told apart. An mtime is the
number of a write, `None` as long as nobody has asked for it, or `Null` when `file_mtime` failed where
the code catches that: a load (`LoadStat`) and the end of a save (`SaveStat`) then go on with
`diskMtime: null`, and the next save of that tab compares nothing (`Unchecked`). Before a save's
comparison and in a sync the failure is not caught and ends the handler. `settings.flaky` says whether it
may fail; files are never deleted, so `file_mtime` has no other cause to answer null
(`src-tauri/src/file_watcher.rs:326-336`). A tab may also be restored with its draft
(`settings.restored`): it has unsaved text and no mtime until `loadMissingTabContents`, `HydrateStat`
and `HydrateDone` record one, of a text that nobody has read. Drafts are of files within the edit
budget. `typed`,
`overlap`, `seen` and `ahead` are ghosts; `ahead` holds the mtimes that were recorded before the text
of their write was read, as a load, a sync and a save all do when another program writes between
their two calls, and as the restored tab does. Left out: format on save, inline diffs, encodings, images,
the eviction of cached editor states, and the guard of `F/lib/editorSession.ts:130-134`, which
prefers a cached document to an empty text in the store (no text of the model is the empty one).

**EditorSessions, WorkspaceSessions** (`F/store/editorStore.ts`, `F/store/projectStore.ts`,
`F/utils/projectActions.ts`, `F/lib/workspaceSessionSync.ts`, `F/lib/draftRecovery.ts`, the close
questions of `F/utils/dirtyTabs.ts`). The first holds the store's handlers as operators on a record (none of them awaits), the
second calls them in the order the callers do, with a variable for each thing that waits: the switch,
another handler, the question asked of the user. `snapshot`, `drafts` and `named` are what
localStorage keeps, written when their timers fire; `Crash` may come between any two steps and
`hydrateWorkspaceSessions` and `loadProjects` read them back in the order of the start-up code. The
recovery dialog keeps the drafts it has found, as the hook does in its closure. A text in `Long` is
over `MAX_DRAFT_CHARS`: its tab is skipped by the drafts' timer, so that an older draft of the path
stays as it is. The timer's filter of loading and failed tabs drops nothing here: only a tab with a
text can be edited, and one that loads or has failed has none and is never dirty. After a recovered
file was opened, its draft either fills the tab (`RecoverFill`) or, if the tab takes no text, because
the file could not be opened or its load still runs and will publish over it, is cleared with
nothing filled (`RecoverUnread`, which may happen to any clean tab). Three ghosts: `blind`
marks a behaviour in which a step used knowledge that had gone stale across an await (see section 4);
`owner` gives a tab the projects it was opened in, more than one if it is saved as another file while
another project is current; `exposed` holds the tabs whose draft was taken away while they stayed
unsaved: by a start or a named workspace that read it, by a save of another tab of the same path
(`Losing`), by a recovery that cleared it, or by a rename of the path, and that no timer has saved since. `Only` is a filter: the
`SelectSeq` of the standard modules has no definition the provers can unfold.

**GitStatusStore, FreshBadge** (`F/store/gitStatusStore.ts`). The store is one record `git`; an
operation is an operator from store to store, so that a caller can make several calls in one turn.
A working tree is known by the number of its changes. A read has its phase (workdir, full, head or confirm) and the tree it began at. `GitSpec` is the store under arbitrary callers, one call
per step; `SourceControl` is the store under its real ones. `FreshBadge` is the promise: after a request that refuses
older results, a badge never shows the result of a read that began before.

**SourceControl** (`F/components/SourceControlPanel.tsx`, `F/hooks/useFileWatcher.ts`). A task is a
call under way; `step` names its await. The code's request counters appear as `fresh`: a newer call
of a kind makes the older ones stale. A history is the sequence of its pages listed, in the order in
which they came: the effect that picks a commit takes the first one listed, which after a reload
under a late page need not be the newest. The effect runs whenever the list, the tab or the pick
changes, also when a repository turns out to be none and its list is emptied, and not when a page
brings nothing new. Files and diffs are compared with the pick while the history lists something to
pick (`DetailShown`). Left out: the graph, rendering, stash lists, and what Git does beyond moving
the tree.

**Terminals** (`F/store/terminalStore.ts`, `F/lib/appCloseFlow.ts`, `F/lib/appClose.ts`, and as much
of `src-tauri/src/terminal.rs` and `remote_ssh.rs` as answers them). The store is one thread: an
action is the code from one await to the next. `requests` are the calls of the backend under way,
served in any order; `inbox` is the one queue of their answers and of the exits of shells. `held`
collects the three sets of ids by which handlers know of each other (`ptySpawnInFlight`,
`intentionalPtyKills`, `terminalRestartsInFlight`), `checks` is `taskShellTransitions`, `bulk` a close
of several tabs that waits for its kills, `exit` and `leaving` the application's exit and its list.
`routed` is `sshTerminalIds` (`F/lib/ipc/terminal.ts:96-146`): a creation adds a remote terminal, a kill that
succeeds takes it out, and a kill of a remote terminal that is not in it goes to the local table
(`astray`), finds nothing and is answered Ok. The kills of an exit go by the tab's directory and are never
astray. A remote kill takes the session off its table and then closes
it, which may fail and leave a running tab without a session. A local kill ends an idle shell in one
step; a busy one is taken off the table, answered Ok and put among the `dying`
(`KillGraceful`), which a thread ends later (`ForcedToEnd`) unless the window, and with it the process, goes
first. The limit of tabs is looked at before
the trust question is asked and not after, and a close of all tabs sweeps those that were opened
during its kills: both as in the code. Six ghosts say what the properties leave out: `stray`, ids
whose session was given up while open (a failed kill, or a sweep that had not killed it); `hollow`,
tabs kept though their session is gone; `overtaken`, ids closed or restarted while being created, and
`left`, those of them whose creation was still under way when an exit took its list;
`crossed`, ids created while a close of many or a restart was at them; `misrouted`, ids that had a
shell, or one being created, while a kill of theirs was astray. Left out: attach and
reconnect of persistent terminals and the sync of detached ones, the trust question of a restart,
`setSecondaryTerminal`, output and sizes, tabs of other projects.

## 3. Runs

All runs are exhaustive within their bounds. `CHECK_DEADLOCK FALSE` is everywhere because all these
systems may stop: bounded clients stop asking, a daemon shuts down.

| Run | Bounds | Shows |
|---|---|---|
| `ring` | capacity 5, reads up to 6, 7 blocks | `ReplayComplete`, `LostStaysLost` |
| `host` | 2 terminals, capacity 2, budget 3, blocks of 2, TTL, retention and clock 1 | `BudgetHard`, `RetiredIsDoomed`, `NothingLeftBehind`, `DetachedPaysFirst`, `TerminationCompletes`, `ShutdownCompletes` |
| `routes` | 2 connections, 3 blocks, queue 1, pending 1 | `HandoffSeamless`, `DeliveryOrdered`, `ReleasedIsTold` |
| `routes_live` | 2 connections, no output, detach, fairness | `RouteEnds`, `AttachSettles` |
| `input` | 3 connections, 3 chunks of 2 bytes, 1 restart, threads | `InOrder`, `AckedInOneLife`, `InputArrives` |
| `runtime` | 2 acquirers, 2 sessions, 2 invalidators, 2 generations, 2 daemons | `ReadyIsCurrent`, `AnswerIsCurrent`, `PreparedForCause`, `AcquireEnds` |
| `editor` | 1 file, 4 settings (one with a failing `file_mtime`, one with a restored draft), 2 fresh texts, 3 writes, 2 openings, 2 handlers in flight | `BufferExists`, `UnsavedIsDirty`, `EditsKept`, `OverwriteIsInformed` |
| `editor_midflight` | the same | **violated**: `MidFlightEditsMarked` (finding 1) |
| `sessions` | 2 projects and a scratch one, 3 paths (1 pinned), 2 tabs at most, 3 openings, 1 edit or 2, the second too long for a draft, 2 starts | `sessionsTypeOK`, `TabsAtHome`, `DraftsCover`, `SnapshotComplete`, `EditsStay`, `StartKeepsSnapshot` |
| `git` | 2 projects, 2 reads, 1 change of the tree, 3 history pages, 2 attempts, 6 tasks | `RefreshingIsReading`, `HistoryOfProject`, `PanesMatch`, `BadgesStayFresh` |
| `git_live` | the same, with the periodic refresh and fairness | `BadgeCatchesUp` |
| `terminals` | 3 terminals, 2 panes, 2 tabs at most before the question, 2 calls of a kind per terminal, 15 scopes | `ReservedIsWaited`, `NoStrayShell`, `RunningHasShell`, `ExitLeavesNothing`, `PanesShowTheirOwn` |

The type invariants of PtyHost, HostRuntime, PtyInput (for one life), PtyRoutes, EditorBuffers,
WorkspaceSessions, SourceControl and Terminals are proved (section 6). Only `sessionsTypeOK` is also in
a run; the others hold when they are added to their configurations, and are kept out of the runs in
favour of properties that say more.

Why these bounds are enough to be interesting:

- **ring**: seven blocks of up to six bytes turn a five-byte buffer over more than once, with
  pops of one, two and all blocks, clears and oversized blocks in every order.
- **host**: one full buffer fits the budget and two exceed it, so eviction happens with both
  terminals attached, one detached and both detached, and with a client that attaches or detaches
  between its reads and its clears, while kills, reaps, tombstones and the three
  phases of shutdown go on; a clock of one tick separates what has expired from what has not.
- **routes**: a queue and a pending list of one block overflow with three blocks printed, so both
  overflow paths and the blocked reader occur; two connections give takeover, the teardown that
  meets a newer attach, and an attach that outlives its connection. More blocks repeat these
  situations with larger numbers. Liveness is checked without output, since blocks multiply the
  states and exits, attaches and teardowns do not depend on them.
- **input**: three connections let one writer hold the gate while two later requests of the same
  number queue behind it; two bytes make a partial write; three chunks give an input after the
  contested one. The last connection stays up, so liveness is about a client that in the end
  stays connected.
- **runtime**: two invalidations can be half done together while two acquirers, one behind the
  gate and one before it, span them.
- **editor**: two handlers at once give every overlap of a save, a load, a sync and a reopen of one
  file; two fresh texts are one of the user's and one of another program, or two of either; a tab
  can be closed and its path opened again under a handler. A failing `file_mtime` and a restored draft
  have a setting each, since they multiply the states. Files do not interact but through the
  shared view and the dialogs, which a second tab's handlers reach through the same two operations;
  `Files` may be enlarged for simulation.
- **sessions**: with two tabs at most, the third one evicts; with two projects and a draft project a
  switch can be overtaken by a removal or by another switch. A scope names the families of
  operations a behaviour takes part in and how many of them: the families meet in pairs (each with
  restarts and crashes), because all of them together are out of reach. It also says how many texts
  are typed: one suffices, but for the scope in which a short text, which has a draft, is followed by a
  long one.
- **git**: two reads let a new one begin while an obsolete one is under way; two projects give the
  switch under a read, a log or a diff. Scopes pair the families of commands in the same way.
- **terminals**: two kills of one terminal, or two creations, can be under way at once; three
  terminals let a close of the others meet one that is being created. A scope says which operations
  the user and the shells may perform, how many of them, which tabs there are at first, and whether
  the sessions are local or remote; the longest have five moves besides everything the system does by
  itself. `moves` counts the user's and the shells' steps, the failures and the kills that meet a busy
  shell only.

## 4. Properties worth knowing

- `ReplayComplete`, `LostStaysLost`: what `can_replay` promises to a reconnecting client: all
  output from the point asked for, but for blocks larger than the whole buffer (there are none with
  reads that fit it), and never again what was once lost, unless such a block has overtaken one
  still held (`Overtaken`).
- `BudgetHard`: whenever the host lock is free the buffers fit the budget, although the account errs
  high.
- `DetachedPaysFirst`: a buffer that the eviction saw in use is sacrificed only when none that it saw
  detached has anything left. It says what was seen, since the code promises no more: a client that
  attaches after its terminal was looked at comes too late and finds the buffer emptied.
- `RetiredIsDoomed`, `NothingLeftBehind`: a process taken out of the registry still has its killer;
  when the daemon ends, none is left. `TerminationCompletes` is the liveness side.
- `DeliveryOrdered` (refinement): whatever happens inside, what one connection is sent is a
  behaviour of `OrderedDelivery`: answer, missed blocks, end mark, live blocks from exactly there,
  the exit last and once.
- `HandoffSeamless`: any block the route still expects is in the event channel, so pty_events never
  meets a gap.
- `ReleasedIsTold`: a tombstone is dropped together with its route only once the routed client has
  been told the exit.
- `RouteEnds`, `AttachSettles`: an exited terminal keeps no route; every attach comes to an end.
- `InOrder`, `AckedInOneLife`, `InputArrives`: exactly-once input in one life of the application.
- `ReadyIsCurrent`, `AnswerIsCurrent`, `PreparedForCause`, `AcquireEnds`: the client's cache.

- `BufferExists`, `UnsavedIsDirty`, `EditsKept`, `OverwriteIsInformed`: the text of a tab is never in
  none of its three places; unsaved typing keeps the mark and is replaced only as the user asked,
  both except in the overlap of a save or reopen (finding 1); a save that compares an mtime
  overwrites only what the tab has read or the user was asked about, unless the mtime is one that was
  recorded ahead of its text (`ahead`). That exception belongs to the mtime and not to the file: a save
  may have taken such an mtime as its base before a later reload of the same file catches up. A tab
  whose mtime is null, or has not been asked for, saves without a comparison (`Unchecked`): the
  property promises nothing of these saves, and neither does the code (see below).
- `TabsAtHome`, `EditsStay`: tabs of two projects do not mix and unsaved text stays in some tab,
  unless a step acted on knowledge from before an await (`blind`): a second switch begun during the
  first, a removal or a named workspace that goes on with the tabs it had counted, the answer to a
  question that closes tabs it did not name.
- `DraftsCover`, `SnapshotComplete`, `StartKeepsSnapshot`: once the timers have fired, a crash loses
  no unsaved text but that of an `exposed` tab and texts too long for a draft, the snapshot brings back the tabs of every listed
  project, and a start by itself, whose list of projects loads, does not overwrite the snapshot with
  less.
- `BadgesStayFresh` (refinement of `FreshBadge`), `BadgeCatchesUp`, `RefreshingIsReading`: reads that
  are joined, repeated, overtaken or failed never take a badge back behind an announced change, the
  badge catches up, and the spinner turns exactly while the project is read.
- `HistoryOfProject`, `PanesMatch`: late logs, file lists and diffs never appear under another
  project, commit or file.

- `ReservedIsWaited`: every mark that an exit of the application waits for has a call under way that
  will take it away, whatever fails, closes or restarts meanwhile.
- `NoStrayShell`, `RunningHasShell`: tabs and shells belong together, but for kills that failed or
  went to the wrong table and for the crossings named in section 2. A terminal that is only closed while it
  is created is left out in a remote project alone: in a local one the shell is cancelled.
- `ExitLeavesNothing`: with the window no session stays in the backend's tables and none is still to
  be created, but for the same terminals and those in `left`. A busy shell that was told to end is off
  the table: of it `ExitEndsShells` speaks (below).
- `PanesShowTheirOwn`: no pane shows another pane's terminal.

### Findings

1. `editor_midflight`: `saveFile` ends with `markClean` without asking whether the user has typed
   since the text was taken (`F/store/editorStore.ts:1034`); the tab loses its mark while its text
   is not on disk, although the help promises the mark and the question before closing.

### Stated, and not true of the code

These definitions stand in the modules beside the properties, and the hazards of `PROJECT.json`
refer to them. TLC refutes each of them, in the run of its module unless an instance is given; no run is
kept for them, since most state what nobody wrote down. Those that do contradict a comment, a document or
a test of the repository are `EvictsOverBudget`, `RoutedIsAttached` (the comment of `detach`),
`SettledLoadKeepsSnapshot` (`F/lib/workspaceSessionSync.ts:49`), `FetchRunsAlone`, `NewShellIsKilled`,
`SettledBeforeExit` and `ExitEndsShells`.

- `PtyHost!EvictsOverBudget` (1 terminal, capacity 3, budget 6, 8 blocks of 1 and 3; `docs/ssh-agent-design.md:208`): a push that
  evicts more than it adds counts as zero (`saturating_sub`), the surplus never leaves
  `total_bytes`, and buffers are emptied although they are within the budget (`Q/pty.rs:1362`).
- `PtyRoutes!NoGhost` and `RoutedIsAttached` (2 connections, no output): an attach task that outlives
  its connection leaves the terminal marked attached with no route; and `detach` tells clients
  apart, not a client's connections (`Q/daemon.rs:959`, `Q/pty.rs:844`).
- `PtyInput!AckedIsWritten` (2 connections, 2 chunks, 1 restart): after a restart of the application
  a new input may carry the number of its predecessor's request still at the gate; it is
  acknowledged as a duplicate and never written (`Q/pty.rs:758`).
- `EditorBuffers!PromptReachable`: a second choice dialog replaces the first, whose handler then
  waits for an answer nobody can give.
- `WorkspaceSessions!EditsAskedFor`: `EditsStay` without its excuse; a second switch, or a start file opened
  before the first session is active, drops tabs nobody asked about.
- `WorkspaceSessions!DraftsAreCurrent`: a text over `MAX_DRAFT_CHARS` is not drafted and leaves the
  older draft of its path, so that a crash brings back an older text without a word
  (`F/lib/draftRecovery.ts:122`).
- `WorkspaceSessions!RestoredDraftsArrive`: a draft the user has asked back is cleared although the
  file could not be opened and the tab took no text, `setTabContent` and `markDirty` being no-ops for
  such a tab (`F/hooks/useDraftRecovery.ts:77-83`, `F/store/editorStore.ts:471-487, 780, 799`).
- `WorkspaceSessions!SettledLoadKeepsSnapshot`: a start whose list of projects fails to load
  overwrites the snapshot with an empty one.
- `SourceControl!FetchRunsAlone`: operations that rewrite remote references run beside a background
  fetch after all: `commitStaged` with a push as its follow-up does not look at
  `backgroundFetchPathRef` (`F/components/SourceControlPanel.tsx:1799`).
- `Terminals!NewShellIsKilled`: when a tab is closed while its shell is created, the shell is killed
  (`F/store/terminalStore.connection.test.ts:519`). Not in a remote project: the kill of the close finds
  no session, is answered Ok and takes the id out of `sshTerminalIds`, and the kill that cancels goes to
  the local table (`F/lib/ipc/terminal.ts:139-146`), so that the remote shell stays without a tab.
  `NoStrayShell` and `ExitLeavesNothing` leave these out (`misrouted`).
- `Terminals!SettledBeforeExit`: the exit's list is to be taken when all creations have settled
  (`F/store/terminalStore.ts:100`), but a close or a restart takes its terminal out of
  `ptySpawnInFlight` while the creation goes on. `ExitLeavesNothing` leaves out those that are still
  under way then (`left`).
- `Terminals!ExitEndsShells`: a shell that does not end when told to is ended by force
  (`docs/run-config.md:104`). `TerminalManager::kill` takes a busy shell off the table and answers Ok;
  the thread that would end it goes with the process (`src-tauri/src/terminal.rs:562-573`).
- `SourceControl!HistoryUnbroken` (the scope of history and commits, four moves): a page appended to
  a history that was reloaded meanwhile can leave a gap.

Two more observations belong to exceptions that the properties make.

- With `--scrollback-bytes` below the read size (8 KiB), which nothing refuses
  (`Q/main.rs:511`), `push` drops a block larger than the buffer, and a later pop of an older block moves
  `evicted_through` back behind it, so that `can_replay` grants a replay with a hole
  (`Q/pty.rs:267-276`). The holes are exactly the dropped blocks, which is what `ReplayComplete` says.
- The repository's `README.md:196` promises that changes of other programs are classified and not
  silently overwritten (外部改动可分类处理，避免悄悄覆盖). A save compares no mtime when the tab's is null, as
  it is after a failed `file_mtime` (`F/store/editorStore.ts:133-138, 1004, 1027-1035`), and a tab
  restored with its draft records the mtime of a text nobody has read (`:893-930`). Both overwrite
  another program's text without a question.

## 5. Fairness

- **PtyHost**: weak fairness of the watchdog, of the second halves of kill and reap, of an eviction's
  steps and of shutdown's deadlines: threads past a `sleep` or between two statements, the
  evicting one with the host lock in hand and each terminal's own lock free after a moment. Not of `Die` (a process
  may ignore SIGHUP), `ReaderExit` (a grandchild may hold the PTY open), or clients.
- **PtyRoutes**: weak fairness of pty_events, of request tasks, of teardowns and of the reap tick's
  second half, all tasks of a multi-threaded runtime; and of leaving the loop of a connection whose
  queue was aborted (its `closing` flag is polled). Clients and shells owe nothing.
- **PtyInput**: the daemon's tasks run and the shell reads; the client retries for ever and gives up
  a connection that is closed or answers with an error (its requests have timeouts).
- **HostRuntime**: weak fairness of an acquirer's steps, as its awaits (hashing, HELLO, deployment)
  end or time out; *strong* fairness of entering the gate, which is free and taken again and again
  while others acquire: `tokio::sync::Mutex` serves its waiters in order.
- **SourceControl** (`git_live` only): weak fairness of resumed calls (microtasks of the event loop),
  of the backend's answers to reads and commands (its commands have timeouts), of the timers and of
  the periodic refresh. Not of the user, the file system or the failures. The other frontend runs
  check safety alone and assume nothing.

## 6. Proofs

Every theorem holds for all values of the constants (any number of terminals, clients, connections,
chunks, acquirers ...) under the named assumptions of the modules, which type the constants and say
no more.

| Theorem | Property | Rests on |
|---|---|---|
| `PtyHost_proofs!ContiguousInvariant` | `Contiguous` | `RingInv`, which adds the ring's types |
| `PtyHost_proofs!ReplayIsComplete` | `ReplayComplete` | `NoGap` |
| `PtyHost_proofs!LossIsPermanent` | `LostStaysLost` | one step moves evicted_through back only when a block held was overtaken (`Ahead`) |
| `PtyHost_proofs!HostInvariant` | | `ProcType /\ Sane /\ Doomed /\ Listed` |
| `PtyHost_proofs!RetiredDoomed` | `RetiredIsDoomed` | `Doomed` |
| `PtyHost_proofs!NothingLeft` | `NothingLeftBehind` | `Listed`, `Sane` |
| `PtyHost_proofs!HostAccounts` | | `Accounts`: types, exact rings, `Underway`, `BudgetHard`, and the total is no less than the sum |
| `PtyHost_proofs!HostTypeCorrect` | `TypeOK` | `RingOK`, for the bound of a ring's counter |
| `PtyHost_proofs!BudgetIsHard` | `BudgetHard` | `Accounts` |
| `PtyHost_proofs!DetachedPayFirst` | `DetachedPaysFirst` | `Underway`, the order of the sort |
| `PtyRoutes_proofs!RoutesInvariant` | | see below |
| `PtyRoutes_proofs!TypeCorrectness` | `TypeOK` | `Channel`, for the bound of the event queue |
| `PtyRoutes_proofs!HandoffIsSeamless` | `HandoffSeamless` | `Seamless`, `Channel` |
| `PtyRoutes_proofs!DeliveryIsOrdered` | `DeliveryOrdered` (refinement) | `Sending`, `Owner` |
| `PtyRoutes_proofs!ReleaseIsTold` | `ReleasedIsTold` | `Owner`, `Teardowns` |
| `PtyInput_proofs!InputInvariant` | | see below |
| `PtyInput_proofs!BytesInOrder` | `InOrder` | the invariant of one life |
| `PtyInput_proofs!AcknowledgedWritten` | `AckedInOneLife` | the same |
| `PtyInput_proofs!NeverGap` | `NoGap` | an invariant that survives restarts |
| `HostRuntime_proofs!RuntimeInvariant` | | `TypeOK /\ Cache /\ Work /\ AnswerIsCurrent` |
| `HostRuntime_proofs!ReadyCurrent` | `ReadyIsCurrent` | `Cache` |
| `HostRuntime_proofs!AnswerCurrent` | `AnswerIsCurrent` | itself, with `Work` |
| `HostRuntime_proofs!PrepareNeedsCause` | `PreparedForCause` | `Cache`, `Work` |
| `EditorBuffers_proofs!BuffersInvariant` | | see below |
| `EditorBuffers_proofs!BuffersTypeCorrect` | `editorTypeOK` | `BufferType`, `Dialogs` |
| `EditorBuffers_proofs!TextsExist` | `BufferExists` | `TabOK` |
| `EditorBuffers_proofs!UnsavedStaysDirty` | `UnsavedIsDirty` | `TabOK`, `Overlaps` |
| `EditorBuffers_proofs!EditsAreKept` | `EditsKept` | `Overlaps`, `OneLoad` |
| `EditorBuffers_proofs!OverwritesAreInformed` | `OverwriteIsInformed` | `Carries`, `OfTab` |
| `WorkspaceSessions_proofs!SnapshotIsComplete` | `SnapshotComplete` | itself |
| `WorkspaceSessions_proofs!SessionsAreTyped` | `sessionsTypeOK` | `TypeInv` |
| `WorkspaceSessions_proofs!TabsStayAtHome` | `TabsAtHome` | `HomeInv`, `TypeInv` |
| `WorkspaceSessions_proofs!DraftsAreThere` | `DraftsCover` | `DraftInv`, `TypeInv` |
| `WorkspaceSessions_proofs!StartsKeepSnapshot` | `StartKeepsSnapshot` | `PlainInv`, `StartInv` |
| `WorkspaceSessions_proofs!UnsavedTextStays` | `EditsStay` | `PlaceInv`, with `HomeInv` and `TypeInv` |
| `SourceControl_proofs!GitTypeCorrect` | `gitTypeOK` | `GitInv` |
| `SourceControl_proofs!SpinnerIsReading` | `RefreshingIsReading` | `RefreshingIn` |
| `SourceControl_proofs!EntriesAreFresh` | `EntriesAreReads`, `PublishableIsFresh` | `EntriesIn`, `FreshIn` |
| `SourceControl_proofs!BadgesAreFresh` | `BadgesStayFresh` (refinement) | `GitInv` |
| `SourceControl_proofs!ScmTypeCorrect` | `scmTypeOK` | `TasksIn`, with `GitInv` |
| `SourceControl_proofs!PanelSpinner` | `RefreshingIsReading`, under the panel | `GitInv`, `StoreTurn` |
| `SourceControl_proofs!HistoriesAtHome` | `HistoryOfProject` | `ScmInv` |
| `SourceControl_proofs!PanesAreCurrent` | `PanesMatch` | `PanesInv` |
| `SourceControl_proofs!PanelBadgesAreFresh` | `BadgesStayFresh`, under the panel | `StoreTurn` |
| `Terminals_proofs!TerminalsInvariant` | | `termTypeOK /\ BulkIsWaited /\ ReservedIsWaited /\ PanesOwn` |
| `Terminals_proofs!TerminalsTypeCorrect` | `termTypeOK` | `BulkIsWaited`, for the close that a last answer ends |
| `Terminals_proofs!MarksAreWaited` | `ReservedIsWaited` | itself |
| `Terminals_proofs!PanesShowOwn` | `PanesShowTheirOwn` | `KeptInItsPane` |
| `Terminals_proofs!RunningTabsHaveShells` | `RunningHasShell` | `ShellInv`, see below |
| `Terminals_proofs!NoShellIsStray` | `NoStrayShell` | `Settled` of every terminal it speaks of |
| `Terminals_proofs!ExitLeavesNoShell` | `ExitLeavesNothing` | `Leaves` of every terminal it speaks of (`LeavingInv`) |

- **PtyRing**. `ReplayComplete` is not inductive: it says nothing of how the blocks held relate to
  the last evicted one. `Contiguous` does, for any capacity and any read size, in three parts: the
  blocks are in order and none is oversized (`InOrder`); whatever the buffer could hold and is newer than
  the evicted point, or than some block held, is held (`NoGap`); a block held is newer than the evicted
  point, or was overtaken by an oversized one (`Ahead`). One lemma each for a push that drops, a push
  that keeps and a clear shows that the parts stay (`DroppedKeeps`, `KeptKeeps`, `ClearKeeps`).
- **PtyHost**. "Out of the registry implies a killer" needs that exited terminals are dead, that a
  kill's second half comes after its signal, and for shutdown that its list contains whatever still
  runs, in or out of the registry. The budget is about sums, over the blocks of a ring and over the
  terminals of the registry; both are the sum of a recursive function (`SumTo`), and the proofs first
  establish induction for sets of numbers, then what a sum is of no number, one more, two functions
  added, and a prefix and the rest. `RingOK`: the counter of a ring is the bytes of its blocks, which
  the loop of push keeps within the capacity. `Accounts`: the host's total is no less than what the
  registered terminals hold; it may be more, since the difference of a push saturates. An
  eviction is many steps, and others go on meanwhile, so the invariant says what it has achieved
  (`Underway`): every registered terminal it has come past is empty, and none refills, since output
  needs the host lock; it comes past one only after it has looked at all; with the lock free there is
  no eviction. It gives the lock back when the total fits, and then so do the buffers, which hold no
  more than the total says; or when nobody is left, and then all buffers are empty. Hence `BudgetHard`.
  The next terminal to be emptied is the least in the order of what was read (`EvictBefore`). If it was
  seen attached, no terminal seen detached comes after it, so they have all been passed and are empty:
  `DetachedPaysFirst`.
- **PtyRoutes**. A terminal's output reaches a client in four pieces that nobody holds together:
  what the ring replays, what the route holds back meanwhile, what the drain sends without the lock,
  and what is dispatched live. The invariant says that they are one stream. `Channel`: the queue of
  pty_events holds the newest blocks, consecutive, and the exit after the last of them. `Seamless`:
  the block a route expects is not older than the queue's head, so an offer made under the ring's
  lock and installed later has lost nothing. `Sending`: what a connection has been sent ends where
  its task goes on. `Owner`: for the routed connection the pending items begin where replay and
  batch will end and end where the route expects the next block. `Teardowns` and `Clearing` say who
  may still clear a route: the connection that is closing, or pty_events, which gives it up and
  never to a connection that is about to install one. The theorems hold for every set of
  connections that detach and whether or not a terminal may be orphaned (`RoutesAssumption` types
  the constants; the event queue has room for one block at least). The refinement has one lemma for
  each frame that OrderedDelivery knows, and every other step stutters.
- **PtyInput**. That bytes are written in order depends on the client, which numbers chunks, and on
  the daemon, which counts them, agreeing although requests of old connections are still at work.
  The invariant has six parts besides types: the numbers of requests and of the client (the daemon
  is at most one ahead), the queue (what is pending is what was typed and not acknowledged, in
  order), the requests (number and chunk are paired), the ends of the written sequence (complete
  up to the daemon's number, then the offset of the writer in the gate or of the partial write),
  `InOrder` and completeness. It holds while `life = 0`; `NoGap` has its own, weaker invariant.
- **HostRuntime**. Whatever is cached, cloned or returned carries the generation it was vouched for
  in. The invariant bounds it from below: for the cache by every invalidation that has emptied it,
  finished or not, for an acquirer by the invalidations that had ended when it loaded its own
  generation. It also says that an empty cache is always a cause to prepare, which is what
  `PreparedForCause` needs.

- **EditorBuffers**. For any files, settings and bounds. The properties speak of tabs; what could
  break them is a handler that comes back from an await with an old picture. So the invariant says
  what each handler carries at each await (`Carries`) and, if its tab is still the one it was begun
  for, what it may rely on (`OfTab`): a load has a tab that is loading, all others one that shows its
  file, and one load at most finds a tab (`OneLoad`), so a text read late is never published over one
  that is edited. `Overlaps` is what a save or a reopen needs to clear the mark in the end: typing
  that is left over is either known to overlap it or is the very text it took. `Covered` is the
  mtime's side: the write a tab records, and the one a save will compare, is one whose text the tab
  has read, or is in `ahead`, or is no write at all (a null or unknown mtime); a write in flight is announced, so that it fits (`WritesFit`). Each step
  is one of three kinds, and each kind has a lemma that says what it does to every other handler: it
  leaves all tabs as they are, it moves one tab that is and stays ready, or it opens, loads or closes
  one tab, which no other handler finds after it. The dialogs are the one place where a handler's
  answer outlives its record: the compare panel keeps the handler that opened it (`Dialogs`).

- **WorkspaceSessions**. For any projects, files, scopes and bounds. The store's handlers are
  operators on lists, and the library has no theorem about a filter: `OnlyIs` and what follows from
  it (what is kept, in which order, that pinned and project tabs are a partition) is proved first,
  from the well-foundedness of the numbers. Then two facts are shown of each handler. `Store(e, V, H)`
  says that the visible tabs lie in V and the stashed ones of p in H[p]. `Within(e, n, new)` says that
  whatever V and H hold of e, they hold of n but for the new tabs: a handler only drops, moves or
  copies tabs inside their list. So one lemma for each handler serves the types (V is all tabs), the
  home of a tab (V and H are the tabs of a project) and the drafts (V is the tabs that are covered).
  Handlers that change a tab where it is are `Changed` by a relation between old and new tabs. Every
  step of the program is then one of four kinds (`StepKinds`): tabs only go (`Shrinks`), one is
  opened (`Opens`), another project is shown (`Switches`), none is (`Clears`), or it is one of the
  few that change a tab in its place. `SnapshotComplete` is inductive as it stands, because each change
  of the store or of the list of projects sets the timer. `TypeInv` adds the values of whatever waits
  (the handler in `op`, the question in `dialog`, the switch under way) and that nothing is in memory
  while the program is down. `HomeInv` adds the saved snapshot, out of which a start brings tabs back.
  `DraftInv` adds that while drafts are offered no open tab has an offered path: a start opens
  nothing by itself that it would offer (`OnlyStartOffers`), so a restored text replaces no typing.
  A draft that is cleared without a tab to fill exposes the unsaved tabs of its path
  (`RecoverUnreadCovers`).
  `StartKeepsSnapshot` is about the whole of a start, so its invariant (`StartInv`) follows one: as long
  as the user has not acted and no load has failed, nothing waits but a switch away from the project
  shown first; once sessions are read back, every project with a saved session keeps a tab of its own
  in the store, stashed or visible, and once the list is loaded it is listed, so a snapshot taken then
  has it. That a restored stash is shown with all its tabs, none of them set aside with the pinned
  ones, needs that saved sessions hold no pinned tab (`PlainInv`).
  `EditsStay` says of every step that what it takes away was given up, so it needs to know where each
  handler puts what it drops, and that a handler which looks a tab up by its number works on one tab.
  `At(e, q)` is the set of tabs in a place, the visible list or the stash of a project; `Once` says
  that a number is of one tab in one place, and `PlaceInv` that this holds of the store, and of the
  saved snapshot, for the numbers given out so far, until a step on stale knowledge. It also says what
  the code relies on when it drops a tab without a question: a pinned tab in a stash is clean, and so
  is a comparison (`Tidy`), no comparison is open while drafts are restored, a question about one tab
  has asked about that tab, and nothing is open while the program is down. Each handler then has one
  lemma: what it drops is clean (`DropsClean`, for opening, ordering and making room, eviction
  included), is among the tabs it was told to close (`Taken`), is moved to another place
  (`activateKeeps`, `deactivateKeeps`), or is changed where it stands by a function of the tab
  (`Mapped`). `Lossless` compares that with the texts given up: saving before a close, for example,
  closes only tabs that it has saved or that had nothing to save (`CleanedStay`).
  The first versions of two properties held in the run and fail on larger instances: a tab saved
  as another file while another project is current belongs to both (`owner` was one project), and a
  save takes the draft of every other unsaved tab of its path (`exposed`). The attempt also
  found that a draft recovered is the one the dialog has read, not the one in storage by then.

- **GitStatusStore**. For any number of projects and reads, any callers and trees that change at any
  time, one call of the store per step. `RefreshingIsReading` and the refinement need three more
  facts: an entry of `inFlight` is a running read of its project (`EntriesIn`), a read that may still
  be published began no earlier than the last request that refused older results (`FreshIn`), and
  nothing is of a tree that has not been yet (`PastIn`). Each operation of the store is a lemma: it
  maps a store with these facts to one with them, and changes a badge only as `FreshBadge` allows;
  the theorem then needs one case per caller.
- **SourceControl**. The panel makes several calls of the store in one turn (a discard predicts what
  is left twice and then asks for a soft refresh), so a turn is shown to be a composition of the
  store's lemmas: `Sound`, which says that a change of the store keeps its invariant and moves a
  badge only as `FreshBadge` allows, is transitive (`SoundTrans`), and `StoreTurn` is a turn that is
  `Sound`. `TasksIn` types the calls under way and says that what a call waits for is there: a read
  that runs, a call under way. It needs that no turn takes away a read but by settling it
  (`ReadsStay`) and that the call that ends resumes who awaits it (`Finish`, `Settle`). `PanesMatch`
  is not inductive. It speaks of panes that are filled, and its disjunct "or a call that is still
  current" says nothing of what that call will bring. `PanesInv` adds that one call of a kind at
  most is current (`FreshOnes`), that it is of the current project (`ShownOf`), and that it was made
  with the commit or the file that is picked (`MadeWith`), so that its answer is right when it comes,
  and its failure empties the pane. Only calls for files and diffs can show anything (`Shows`); most
  turns leave those alone (`Keeps`, `StillTurn`), a turn that changes the list or the pick runs the
  effect (`RedrawTurn`), one for a diff is a `DiffTurn`, an answer is a `PaneTurn`, and the reset of
  a new project starts from calls that show nothing (`SeededTurn`). `PanesInv` was checked by TLC on
  the scopes of `git` before it was proved. The attempt to prove `PanesMatch` found the model wrong in
  three places, which the bounds of the run had hidden: the list was a set, whose first element is
  not what the code picks; the effect was left out where a list is emptied; and the close of a diff
  was no action.

- **Terminals**. `ReservedIsWaited` is inductive once the types are known: a handler that makes a
  mark makes the call with it, and a handler that takes the answer clears the mark, the early
  returns included. `PanesShowTheirOwn` needs to know that a close of the other tabs, which puts the
  kept tab into a remembered pane when its last kill is answered, remembers the right one.
  `RunningHasShell` looks at one message at a time and needs two facts about the order of messages.
  `OpenIsTrue`: an answer in the inbox that says that a session is open is right, or a call is
  closing the session, or the news of its end stands behind it in the inbox; so a tab revived by a
  late answer will be told. `KillsAreIntended`: a tab in `intentionalPtyKills`, whose next exit will
  be ignored, has a close, a restart or a shell under way or waits in a close of many; so an ignored
  exit leaves somebody who ends or restarts the tab. `Quieter` says that calls are of terminals once
  opened, that only closed ones are cancelled and that the kills of a close of many are of its tabs.
  Each store step is an instance of one frame (`StoreFrame`, `NewCallsFrame`): it serves no call and
  takes at most one message; `StoreKeeps` then asks only what becomes of that message's terminal.
  The assumption `TerminalConstants` types the constants and asks for at least one id.
  `NoStrayShell` and `ExitLeavesNothing` leave some terminals out: a kill of theirs failed or went to
  the wrong table, or creations and kills of theirs crossed (`stray`, `MisroutedSoFar`, `CrossedSoFar`,
  `left`). These sets only grow, so the invariants behind the two speak of one terminal at a time as
  long as it is in none of them (`Clean`, `Counted`). For such a terminal a kill that is astray changes
  nothing, since it has neither a shell nor a creation under way at that time. `Settled`: a terminal has one creation at most, under way or in
  the inbox; a tab that waits for a shell, or whose shell is being replaced, has none; once its tab
  is being closed nothing else is created for it; the news of an end stands in the inbox behind no
  opening unless another opening stands behind it; and a shell that is swept is still to be told, so
  that whoever created it cancels it. `Leaves` follows a terminal through the exit: while the exit
  waits, everything being created is in its mark, but for a creation that was overtaken (`Fair`; it
  counts again once it has settled); once the exit has taken its list, every session is in
  the list; a kill of the exit that is answered has left none. Both have one lemma per group of
  store steps and one per step of the backend.

`Contiguous` and `NoGap` are proved and in no run: the properties of the runs imply or use them.
Only model-checked: the liveness properties. Liveness under fairness and `ENABLED`
are outside what these proofs can do. Every safety and action property of the passing runs has a
theorem. The first attempt at `EditsStay` found a case beyond the bounds of the run: a draft is
restored into a clean tab while the question of a close, which named the unsaved tabs it knew, is still
open, and the answer closes that tab too. The step is now `blind`, like the other closes of tabs that
the question did not name; with it the property holds on that instance as well (families `restart`,
`close` and `left`, three moves, two texts).

## 7. Not modelled

`PROJECT.json` names each part with its reason. In short: encodings, parsing and platform calls (no
state), file system, git and remote shell I/O (no protocol of their own), the user interface, the
Android shell, and vendored code. Stateful parts that are left for later are in the plan. Within
the modelled parts of the daemon: frames are not lost inside one connection (TCP and the writer keep order), pids
are not reused, locks are not poisoned, and a client id has one application behind it. In the
frontend: format on save, the eviction of cached editor states, inline diffs, images and encodings,
drag and drop of tabs between panes, the Git graph and stash lists; and localStorage is assumed to
keep what it was given.

## 8. Plan

Done: RingBuffer and PtyRing, PtyHost, OrderedDelivery and PtyRoutes, PtyInput, HostRuntime,
EditorBuffers, EditorSessions and WorkspaceSessions, FreshBadge and GitStatusStore, SourceControl,
Terminals.

Next, in this order:

1. **FlowControl** (`Q/proto.rs:425-690`, the writer loop and `send_chunk` of `Q/daemon.rs`, the
   client's attach loop in `C/daemon.rs:745`): credit windows, priorities and bounded queues.
   Properties: credit is conserved and never exceeds the window; a stream's end never overtakes
   its data; an attach ends. The hazard to settle: the client returns credit with `try_send`.
2. **ServerSlot** (`C/deploy.rs:1270-1670`), composed with HostRuntime: lost updates of a slot, a
   `daemon_probe_pending` that stays set, a stop that is undone.
3. **TerminalSession** (`C/terminal.rs`), composed with PtyRoutes: the proxy's sequence check and
   restore, exits that are queued to a half-open connection, the kill of an offline terminal.
   Abstract specification: the terminal as the user sees it.
4. The rest of **Terminals** (`F/store/terminalStore.ts`): attach and reconnect of persistent
   terminals, and the output between ring, pending list and view.
5. **LocalTerminal** (`src-tauri/src/terminal.rs`), **Search** (`F/components/SearchPanel.tsx`),
   **Transfer**, **GitSyncCache**, **Watch**, **DaemonStartup**, the **mobile client**.

Theorems to prove next: conservation of credit in FlowControl; the slot's invariants.

## 9. Running

    tlc -workers 2 -config PtyRoutes.cfg PtyRoutes
    tlc -workers 2 -config MCEditor.cfg MCEditor
    tlapm PtyInput_proofs.tla

The longest runs (`editor`, `sessions`, `git`, `terminals`, `runtime`, `input`) take two to three minutes with two
workers, `host` about one, the others seconds. The proofs of `Terminals` take about six minutes,
those of `WorkspaceSessions` twelve, those of `SourceControl` five, those of `EditorBuffers` four, the
others together about ten.
