------------------------------ MODULE Terminals ------------------------------
(***************************************************************************)
(* The terminal tabs of a window (src/store/terminalStore.ts), the shells  *)
(* behind them, and the way an exit of the application collects them       *)
(* (src/lib/appCloseFlow.ts).                                              *)
(*                                                                         *)
(* The store is one thread: the code between two awaits is one action.  A  *)
(* request is a call of the backend that has not done its work, or is at   *)
(* it; the inbox holds its answers and the exits of shells, in the order   *)
(* in which the backend produced them.  Requests are served in any order,  *)
(* as those of direct SSH terminals are; the local ones, served one after  *)
(* the other on the main thread, are among them.                           *)
(*                                                                         *)
(* The tabs are those of one project.  They belong to terminals that do    *)
(* not outlive the application: no attach, no reconnect.                   *)
(***************************************************************************)
EXTENDS Naturals, Sequences, FiniteSets, Functions

CONSTANTS
  Ids,           \* the ids that crypto.randomUUID hands out
  Panes, None,   \* the panes of the terminal panel; no terminal
  Primary,       \* the pane that is always there
  MaxTerminals,  \* MAX_TERMINALS_PER_PROJECT
  Twice,         \* bound on the requests of one kind under way for a terminal
  Scopes         \* what the user and the shells do, how often, and the tabs at first

Moves == {"add", "trust", "close", "bulk", "restart", "task", "restore", "exit",
          "dies", "busy", "fails", "panes"}

ASSUME TerminalConstants ==
  /\ Ids # {} /\ None \notin Ids /\ Primary \in Panes
  /\ MaxTerminals \in Nat /\ Twice \in Nat \ {0}
  /\ Scopes \subseteq [remote : BOOLEAN, allows : SUBSET Moves, moves : Nat,
                         running : Nat, restored : Nat]

VARIABLES
  tabs,      \* terminals: a function from the ids of the tabs there are
  opened,    \* the ids given out so far
  shown,     \* active-, secondary-, bl- and brTerminalId, by pane
  focus,     \* terminalFocusPane
  held,      \* ptySpawnInFlight, intentionalPtyKills, terminalRestartsInFlight
  checks,    \* taskShellTransitions, and how far each has come
  bulk,      \* a close of several tabs that waits for its kills, or NoBulk
  asking,    \* a new terminal waits for its profile to be trusted
  exit,      \* how far an exit of the application has come
  leaving,   \* the terminals that exit has still to end
  dying,     \* busy shells told to end: off the table, and ended soon unless the window goes
  requests, inbox,
  routed,    \* sshTerminalIds: the terminals whose kill goes to the table of SSH sessions
  shells,    \* the ids the backend has a session for
  stray,     \* ids whose session the code gave up while it was open
  hollow,    \* ids whose tab was kept though the session is given up
  overtaken, \* ids that were closed or restarted while they were being created
  crossed,   \* ids created while a close of many tabs or a restart was at them
  misrouted, \* ids with a shell, or one in creation, whose kill went to the wrong table
  left,      \* ids whose overtaken creation was under way when an exit took its list
  scope, moves

paneVars == <<shown, focus>>
exitVars == <<exit, leaving, left, dying>>
ghosts == <<stray, hollow>>
storeVars == <<tabs, opened, shown, focus, held, checks, bulk, asking>>
memory == <<overtaken, crossed, misrouted>>
vars == <<storeVars, exitVars, requests, inbox, routed, shells, ghosts, memory, scope, moves>>

Tab == [status : {"starting", "running", "exited"}, pending : BOOLEAN,
        restored : BOOLEAN, task : BOOLEAN, pane : Panes]
Jobs == {"create", "cancel", "close", "bulk", "restart", "shell", "exit", "check"}
Request == [job : Jobs, id : Ids, n : 1 .. Twice, begun : BOOLEAN, astray : BOOLEAN]
Results == {"ok", "failed", "open", "ended", "cut"}
Message == [job : Jobs \cup {"exited"}, id : Ids, n : 1 .. Twice, result : Results]
BulkClose == [kind : {"all", "others"}, ids : SUBSET Ids, keep : Ids \cup {None}, pane : Panes,
              failed : SUBSET Ids]
NoBulk == [kind |-> "none"]

Live == DOMAIN tabs
Owned(pane) == {id \in Live : tabs[id].pane = pane}

----------------------------------------------------------------------------
(* Requests and their answers. *)

Told == Range(inbox)
Calls == requests \cup Told
\* The terminals of which a call of these jobs is under way.
Busy(jobs) == {c.id : c \in {d \in Calls : d.job \in jobs}}
Unused(job, id) == {n \in 1 .. Twice : \A c \in Calls : c.job = job /\ c.id = id => c.n # n}

\* killTerminal: a remote terminal that is not among the routed is killed in the local table.
\* The kills of an exit go by the directory of the tab instead.
Astray(job, id) ==
  scope.remote /\ job \in {"cancel", "close", "bulk", "restart", "shell"} /\ id \notin routed

\* The calls of one job for these terminals.
NewCalls(job, ids) ==
  {[job |-> job, id |-> id, begun |-> FALSE, astray |-> Astray(job, id),
    n |-> CHOOSE n \in Unused(job, id) : TRUE] : id \in ids}
CanCall(job, ids) == \A id \in ids : Unused(job, id) # {}

AllAnswered == Busy({"exit"}) = {}
Answer(r, result) == [job |-> r.job, id |-> r.id, n |-> r.n, result |-> result]

\* The store takes the next message, an answer of this job.
Receive(job, results) ==
  /\ inbox # <<>>
  /\ Head(inbox).job = job /\ Head(inbox).result \in results
  /\ inbox' = Tail(inbox)
Subject == Head(inbox).id

\* sshTerminalIds: a creation adds its terminal when it is asked for, and takes it out again
\* when it fails; a kill that succeeds takes it out.
Routed(ids) == IF scope.remote THEN ids ELSE {}
RoutedAfterKill == IF Head(inbox).result = "ok" THEN routed \ {Subject} ELSE routed

GiveUpIfFailed ==
  stray' = IF Head(inbox).result = "failed" THEN stray \cup ({Subject} \cap shells) ELSE stray

----------------------------------------------------------------------------
(* What a handler does to the tabs. *)

\* The tabs of these ids are replaced or removed; a check of a finished task minds that.
Noticed(ids) ==
  [id \in Ids |-> IF id \in ids /\ checks[id] = "watching" THEN "changed" ELSE checks[id]]
Put(ids, newTabs) == tabs' = newTabs /\ checks' = Noticed(ids)

\* A change of the tab of id, if there is one.
With(id, tab) == IF id \in Live THEN [tabs EXCEPT ![id] = tab] ELSE tabs
Ended(id) == With(id, [tabs[id] EXCEPT !.status = "exited", !.restored = FALSE,
                                       !.pending = FALSE])

bindTerminalToPane(pane, id) ==
  [p \in Panes |-> IF p = pane THEN id ELSE IF shown[p] = id THEN None ELSE shown[p]]

\* The panes after the tab of id is gone: each shows a terminal of its own instead.
clearClosedFromPanes(id, newShown) ==
  \A p \in Panes :
    LET others == Owned(p) \ {id} IN
      IF shown[p] # id THEN newShown[p] = shown[p]
      ELSE IF others = {} THEN newShown[p] = None ELSE newShown[p] \in others

clearProjectPaneMaps(ids) ==
  [p \in Panes |-> IF shown[p] \in ids THEN None ELSE shown[p]]

\* What the properties leave out: see README.md.
OvertakenSoFar ==
  overtaken \cup (Busy({"create"})
                  \cap ((Ids \ Live) \cup Busy({"close", "bulk", "restart", "shell"})))
CrossedSoFar ==
  crossed \cup (Busy({"restart", "shell"}) \cap Busy({"create", "close", "bulk"}))
          \cup (IF bulk = NoBulk THEN {} ELSE bulk.ids \cap Busy({"create"}))

MisroutedSoFar ==
  misrouted \cup ({r.id : r \in {q \in requests : q.astray}}
                  \cap (shells \cup Busy({"create"})))

Remember == /\ overtaken' = OvertakenSoFar /\ crossed' = CrossedSoFar
            /\ misrouted' = MisroutedSoFar

\* What happens on its own, and what the user does while no dialog is open.
Move(kind) == /\ exit # "gone" /\ kind \in scope.allows /\ moves < scope.moves
              /\ moves' = moves + 1 /\ UNCHANGED scope /\ Remember
UserMove(kind) == Move(kind) /\ ~asking /\ exit # "paused" /\ ~(exit = "closing" /\ AllAnswered)
System == exit # "gone" /\ UNCHANGED <<scope, moves>> /\ Remember

----------------------------------------------------------------------------
(* New tabs and their shells. *)

MayAdd == exit = "open" /\ Cardinality(Live) < MaxTerminals

NewTab(id, task) ==
  /\ id \notin opened
  /\ opened' = opened \cup {id}
  /\ LET tab == [status |-> "starting", pending |-> TRUE, restored |-> FALSE,
                 task |-> task, pane |-> focus]
     IN  Put({}, [i \in Live \cup {id} |-> IF i = id THEN tab ELSE tabs[i]])
  /\ shown' = bindTerminalToPane(focus, id)

\* A run configuration starts its tasks, or a profile with nothing to ask is opened.
addScriptTerminal(id, task) ==
  /\ Move("add") /\ MayAdd /\ NewTab(id, task)
  /\ UNCHANGED <<focus, held, bulk, asking, exitVars, requests, inbox, routed, shells,
                 ghosts>>

addTerminal ==
  /\ UserMove("trust") /\ MayAdd
  /\ asking' = TRUE
  /\ UNCHANGED <<tabs, opened, paneVars, held, checks, bulk, exitVars, requests, inbox,
                 routed, shells, ghosts>>

\* ensureTerminalProfileTrust has its answer; the number of tabs is not asked again.
ProfileTrusted(id) ==
  /\ asking /\ asking' = FALSE
  /\ IF exit = "open" THEN NewTab(id, FALSE) ELSE UNCHANGED <<opened, tabs, checks, shown>>
  /\ System
  /\ UNCHANGED <<focus, held, bulk, exitVars, requests, inbox, routed, shells, ghosts>>

ProfileRefused ==
  /\ asking /\ asking' = FALSE /\ System
  /\ UNCHANGED <<tabs, opened, paneVars, held, checks, bulk, exitVars, requests, inbox,
                 routed, shells, ghosts>>

\* The tabs as they are when the creation of the shells of ids has been asked for.
Created(ids, newTabs) ==
  [id \in DOMAIN newTabs |-> IF id \in ids THEN [newTabs[id] EXCEPT !.pending = FALSE]
                             ELSE newTabs[id]]

\* A fit of the view or the fallback timer gets here.
spawnPendingTerminal(id) ==
  /\ exit = "open"
  /\ id \in Live /\ tabs[id].pending /\ id \notin held.spawns
  /\ CanCall("create", {id})
  /\ held' = [held EXCEPT !.spawns = @ \cup {id}]
  /\ Put({id}, Created({id}, tabs))
  /\ requests' = requests \cup NewCalls("create", {id})
  /\ routed' = routed \cup Routed({id})
  /\ System
  /\ UNCHANGED <<opened, paneVars, bulk, asking, exitVars, inbox, shells, ghosts>>

\* The project of restored tabs is opened: all that are not at it are started.
spawnRestoredTerminals ==
  /\ Move("restore")
  /\ LET ids == {id \in Live : tabs[id].restored} \ Busy({"create"})
         now == IF exit = "open" THEN ids \ held.spawns ELSE {}
         starting == [id \in Live |-> IF id \in ids
                        THEN [tabs[id] EXCEPT !.status = "starting", !.pending = TRUE]
                        ELSE tabs[id]]
     IN  /\ ids # {}
         /\ Put(ids, Created(now, starting))
         /\ held' = [held EXCEPT !.spawns = @ \cup now]
         /\ requests' = requests \cup NewCalls("create", now)
         /\ routed' = routed \cup Routed(now)
  /\ UNCHANGED <<opened, paneVars, bulk, asking, exitVars, inbox, shells, ghosts>>

Spawned ==
  /\ Receive("create", {"ok"}) /\ Subject \in Live
  /\ Put({Subject}, [tabs EXCEPT ![Subject].status = "running", ![Subject].restored = FALSE,
                                 ![Subject].pending = FALSE])
  /\ held' = [held EXCEPT !.spawns = @ \ {Subject}]
  /\ System
  /\ UNCHANGED <<opened, paneVars, bulk, asking, exitVars, requests, routed, shells, ghosts>>

\* Mutant: the tabs are not looked at after the await.
SpawnCancelled_leavesShell ==
  /\ Receive("create", {"ok"}) /\ Subject \notin Live
  /\ held' = [held EXCEPT !.spawns = @ \ {Subject}]
  /\ System
  /\ UNCHANGED <<tabs, opened, paneVars, checks, bulk, asking, exitVars, requests, routed,
                 shells, ghosts>>

\* The tab has been closed meanwhile: spawn_cancelled.
SpawnCancelled ==
  /\ Receive("create", {"ok"}) /\ Subject \notin Live
  /\ CanCall("cancel", {Subject})
  /\ requests' = requests \cup NewCalls("cancel", {Subject})
  /\ System
  /\ UNCHANGED <<storeVars, exitVars, routed, shells, ghosts>>

\* Mutant: no finally.
SpawnFailed_keepsMark ==
  /\ Receive("create", {"failed"})
  /\ Put({Subject}, Ended(Subject))
  /\ routed' = routed \ {Subject}
  /\ System
  /\ UNCHANGED <<opened, paneVars, held, bulk, asking, exitVars, requests, shells, ghosts>>

SpawnFailed ==
  /\ Receive("create", {"failed"})
  /\ Put({Subject}, Ended(Subject))
  /\ held' = [held EXCEPT !.spawns = @ \ {Subject}]
  /\ routed' = routed \ {Subject}
  /\ System
  /\ UNCHANGED <<opened, paneVars, bulk, asking, exitVars, requests, shells, ghosts>>

CancelAnswered ==
  /\ Receive("cancel", {"ok", "failed"})
  /\ held' = [held EXCEPT !.spawns = @ \ {Subject}]
  /\ GiveUpIfFailed
  /\ routed' = RoutedAfterKill
  /\ System
  /\ UNCHANGED <<tabs, opened, paneVars, checks, bulk, asking, exitVars, requests, shells,
                 hollow>>

----------------------------------------------------------------------------
(* Closing. *)

\* ptySpawnInFlight forgets the terminals about to be killed; their exits are expected.
Claim(ids) == held' = [held EXCEPT !.spawns = @ \ ids, !.kills = @ \cup ids]

\* killTerminalForClose: a restored tab without its first shell has nothing to kill.
Killed(ids) == {id \in ids : ~tabs[id].restored}

RemoveTab(id) ==
  /\ Put({id}, Restrict(tabs, Live \ {id}))
  /\ shown' \in [Panes -> Live \cup {None}]
  /\ IF id \in Live THEN clearClosedFromPanes(id, shown') ELSE shown' = shown

closeTerminal(id) ==
  /\ UserMove("close") /\ id \in Live
  /\ CanCall("close", {id})
  /\ Claim({id})
  /\ requests' = requests \cup NewCalls("close", Killed({id}))
  /\ IF tabs[id].restored THEN RemoveTab(id) ELSE UNCHANGED <<tabs, checks, shown>>
  /\ UNCHANGED <<opened, focus, bulk, asking, exitVars, inbox, routed, shells, ghosts>>

Closed ==
  /\ Receive("close", {"ok"})
  /\ RemoveTab(Subject)
  /\ routed' = routed \ {Subject}
  /\ System
  /\ UNCHANGED <<opened, focus, held, bulk, asking, exitVars, requests, shells, ghosts>>

CloseFailed ==
  /\ Receive("close", {"failed"})
  /\ held' = [held EXCEPT !.kills = @ \ {Subject}]
  /\ hollow' = hollow \cup ({Subject} \ shells)
  /\ System
  /\ UNCHANGED <<tabs, opened, paneVars, checks, bulk, asking, exitVars, requests, routed,
                 shells, stray>>

\* The tabs that are gone need not be those that were killed.
FinishBulk(b) ==
  LET gone == IF b.kind = "all" THEN Live ELSE b.ids \cap Live
  IN  /\ Put(gone, Restrict(tabs, Live \ gone))
      /\ IF b.kind = "all"
         THEN shown' = clearProjectPaneMaps(b.ids) /\ focus' = focus
         ELSE shown' = bindTerminalToPane(b.pane, b.keep) /\ focus' = b.pane
      /\ stray' = stray \cup (shells \cap (b.failed \cup (gone \ b.ids)))
      /\ bulk' = NoBulk

\* Promise.all over the kills; without a kill there is nothing to wait for.
BeginBulk(b) ==
  /\ CanCall("bulk", b.ids)
  /\ Claim(b.ids)
  /\ requests' = requests \cup NewCalls("bulk", Killed(b.ids))
  /\ IF Killed(b.ids) = {} THEN FinishBulk(b)
     ELSE bulk' = b /\ UNCHANGED <<tabs, checks, shown, focus, stray>>
  /\ UNCHANGED <<opened, asking, exitVars, inbox, routed, shells, hollow>>

closeAllProjectTerminals ==
  /\ UserMove("bulk") /\ bulk = NoBulk /\ Live # {}
  /\ BeginBulk([kind |-> "all", ids |-> Live, keep |-> None, pane |-> Primary, failed |-> {}])

closeOtherTerminals(id) ==
  /\ UserMove("bulk") /\ bulk = NoBulk /\ id \in Live
  /\ LET pane == tabs[id].pane IN
       BeginBulk([kind |-> "others", ids |-> Owned(pane) \ {id}, keep |-> id, pane |-> pane,
                  failed |-> {}])

\* An error of one kill is swallowed; the last answer ends the close.
BulkAnswered ==
  /\ Receive("bulk", {"ok", "failed"})
  /\ LET b == [bulk EXCEPT !.failed = @ \cup IF Head(inbox).result = "failed"
                                            THEN {Subject} ELSE {}]
         others == {r \in requests : r.job = "bulk"}
                   \cup {m \in Range(inbox') : m.job = "bulk"}
     IN  IF others = {} THEN FinishBulk(b)
         ELSE bulk' = b /\ UNCHANGED <<tabs, checks, shown, focus, stray>>
  /\ routed' = RoutedAfterKill
  /\ System
  /\ UNCHANGED <<opened, held, asking, exitVars, requests, shells, hollow>>

----------------------------------------------------------------------------
(* Restarting, and the shell that follows a finished task. *)

BeginRestart(job, id) ==
  /\ CanCall(job, {id})
  /\ held' = [held EXCEPT !.spawns = @ \ {id}, !.kills = @ \cup {id}, !.restarts = @ \cup {id}]
  /\ requests' = requests \cup NewCalls(job, {id})

restartTerminal(id) ==
  /\ UserMove("restart") /\ exit = "open"
  /\ id \in Live /\ ~(tabs[id].status = "exited" /\ ~tabs[id].task)
  /\ BeginRestart("restart", id)
  /\ UNCHANGED <<tabs, opened, paneVars, checks, bulk, asking, exitVars, inbox, routed,
                 shells, ghosts>>

\* Offered for every tab that has exited; a task is turned into a plain shell.
reopenTerminalShell(id) ==
  /\ UserMove("restart")
  /\ id \in Live /\ tabs[id].status = "exited" /\ ~tabs[id].restored /\ ~tabs[id].pending
  /\ Put({id}, [tabs EXCEPT ![id].task = FALSE])
  /\ IF exit = "open" THEN BeginRestart("restart", id) ELSE UNCHANGED <<held, requests>>
  /\ UNCHANGED <<opened, paneVars, bulk, asking, exitVars, inbox, routed, shells, ghosts>>

\* Mutant: the kill mark is not released.
RestartAnswered_keepsMark(job) ==
  /\ Receive(job, {"ok", "failed"})
  /\ tabs' = With(Subject, [tabs[Subject] EXCEPT !.status = "starting", !.restored = FALSE,
                                                 !.pending = TRUE])
  /\ held' = [held EXCEPT !.restarts = @ \ {Subject}]
  /\ checks' = [Noticed({Subject}) EXCEPT ![Subject] = IF job = "shell" THEN "no" ELSE @]
  /\ routed' = RoutedAfterKill
  /\ GiveUpIfFailed /\ System
  /\ UNCHANGED <<opened, paneVars, bulk, asking, exitVars, requests, shells, hollow>>

\* Killed or not, the terminal starts anew: at once if a size of its view is known.
RestartAnswered(job) ==
  /\ Receive(job, {"ok", "failed"})
  /\ \E now \in SUBSET ({Subject} \cap Live) :
       /\ now # {} => exit = "open" /\ Subject \notin held.spawns /\ CanCall("create", now)
       /\ tabs' = Created(now, With(Subject, [tabs[Subject] EXCEPT
                                  !.status = "starting", !.restored = FALSE, !.pending = TRUE]))
       /\ held' = [held EXCEPT !.kills = @ \ {Subject}, !.restarts = @ \ {Subject},
                               !.spawns = @ \cup now]
       /\ requests' = requests \cup NewCalls("create", now)
       /\ routed' = RoutedAfterKill \cup Routed(now)
  /\ checks' = [Noticed({Subject}) EXCEPT ![Subject] = IF job = "shell" THEN "no" ELSE @]
  /\ GiveUpIfFailed /\ System
  /\ UNCHANGED <<opened, paneVars, bulk, asking, exitVars, shells, hollow>>

\* Ctrl+C in a finished task.
enterShellAfterTask(id) ==
  /\ UserMove("task") /\ exit = "open"
  /\ id \in Live \ held.spawns
  /\ tabs[id].status = "exited" /\ tabs[id].task
  /\ ~tabs[id].restored /\ ~tabs[id].pending /\ checks[id] = "no"
  /\ CanCall("check", {id})
  /\ checks' = [checks EXCEPT ![id] = "watching"]
  /\ requests' = requests \cup NewCalls("check", {id})
  /\ UNCHANGED <<tabs, opened, paneVars, held, bulk, asking, exitVars, inbox, routed, shells,
                 ghosts>>

\* The task runs after all.
CheckFindsTask ==
  /\ Receive("check", {"open"}) /\ checks[Subject] = "watching"
  /\ tabs' = [tabs EXCEPT ![Subject].status = "running"]
  /\ checks' = [checks EXCEPT ![Subject] = "no"]
  /\ System
  /\ UNCHANGED <<opened, paneVars, held, bulk, asking, exitVars, requests, routed, shells,
                 ghosts>>

CheckFindsNothing ==
  /\ Receive("check", {"ok"}) /\ checks[Subject] = "watching"
  /\ tabs' = [tabs EXCEPT ![Subject].task = FALSE]
  /\ IF exit = "open"
     THEN BeginRestart("shell", Subject) /\ checks' = [checks EXCEPT ![Subject] = "restarts"]
     ELSE checks' = [checks EXCEPT ![Subject] = "no"] /\ UNCHANGED <<held, requests>>
  /\ System
  /\ UNCHANGED <<opened, paneVars, bulk, asking, exitVars, routed, shells, ghosts>>

\* The tab is another one by now, or the question failed.
CheckDropped ==
  /\ Receive("check", {"open", "ok", "failed"})
  /\ checks[Subject] = "changed" \/ Head(inbox).result = "failed"
  /\ checks' = [checks EXCEPT ![Subject] = "no"]
  /\ System
  /\ UNCHANGED <<tabs, opened, paneVars, held, bulk, asking, exitVars, requests, routed,
                 shells, ghosts>>

----------------------------------------------------------------------------
(* terminal-exit. *)

\* The exit of a closed terminal, or of a process whose successor starts or runs.
ExitExpected ==
  /\ Receive("exited", {"ended", "cut"}) /\ (Subject \in Live => Subject \in held.kills)
  /\ held' = [held EXCEPT !.kills = @ \ {Subject}]
  /\ checks' = IF Subject \in Live /\ tabs[Subject].status = "exited" /\ ~tabs[Subject].pending
               THEN Noticed({Subject}) ELSE checks
  /\ System
  /\ UNCHANGED <<tabs, opened, paneVars, bulk, asking, exitVars, requests, routed, shells,
                 ghosts>>

\* The shell ended by itself; a quick failure brings its tab to the front.
ExitEnds(quick) ==
  /\ Receive("exited", {"ended"}) /\ Subject \in Live \ held.kills
  /\ Put({Subject}, [tabs EXCEPT ![Subject].status = "exited"])
  /\ IF quick
     THEN /\ shown' = bindTerminalToPane(tabs[Subject].pane, Subject)
          /\ focus' = tabs[Subject].pane
     ELSE UNCHANGED paneVars
  /\ System
  /\ UNCHANGED <<opened, held, bulk, asking, exitVars, requests, routed, shells, ghosts>>

\* The connection below it was lost.
ExitCuts ==
  /\ Receive("exited", {"cut"}) /\ Subject \in Live \ held.kills
  /\ Put({Subject}, Ended(Subject))
  /\ System
  /\ UNCHANGED <<opened, paneVars, held, bulk, asking, exitVars, requests, routed, shells,
                 ghosts>>

----------------------------------------------------------------------------
(* Panes. *)

setTerminalFocusPane(pane) ==
  /\ UserMove("panes") /\ focus' = pane
  /\ UNCHANGED <<tabs, opened, shown, held, checks, bulk, asking, exitVars, requests, inbox,
                 routed, shells, ghosts>>

\* Mutant: in the pane that has the focus.
setActiveTerminal_inFocus(id) ==
  /\ UserMove("panes") /\ id \in Live
  /\ shown' = bindTerminalToPane(focus, id) /\ focus' = focus
  /\ UNCHANGED <<tabs, opened, held, checks, bulk, asking, exitVars, requests, inbox, routed,
                 shells, ghosts>>

setActiveTerminal(id) ==
  /\ UserMove("panes") /\ id \in Live
  /\ shown' = bindTerminalToPane(tabs[id].pane, id) /\ focus' = tabs[id].pane
  /\ UNCHANGED <<tabs, opened, held, checks, bulk, asking, exitVars, requests, inbox, routed,
                 shells, ghosts>>

\* Each pane shows one of its own.
EachItsOwn(newShown) ==
  \A p \in Panes : IF Owned(p) = {} THEN newShown[p] = None ELSE newShown[p] \in Owned(p)

activateProject ==
  /\ UserMove("panes")
  /\ shown' \in [Panes -> Live \cup {None}] /\ EachItsOwn(shown')
  /\ focus' = Primary
  /\ UNCHANGED <<tabs, opened, held, checks, bulk, asking, exitVars, requests, inbox, routed,
                 shells, ghosts>>

----------------------------------------------------------------------------
(* Exit of the application. *)

\* Mutant: creations are not waited for.
Quiet_restartsOnly == held.restarts = {} /\ \A id \in Ids : checks[id] = "no"

Quiet == held.spawns = {} /\ held.restarts = {} /\ \A id \in Ids : checks[id] = "no"

exitFrame == <<storeVars, inbox, dying, routed, shells, ghosts>>

pauseTerminalSpawnsForExit ==
  /\ Move("exit") /\ exit = "open"
  /\ exit' = "pausing"
  /\ UNCHANGED <<leaving, left, requests, exitFrame>>

\* The exit takes the list of the terminals it has to end.
Paused ==
  /\ exit = "pausing" /\ Quiet
  /\ exit' = "paused"
  /\ leaving' = {id \in Live : tabs[id].status # "exited" /\ ~tabs[id].pending}
  /\ left' = left \cup (Busy({"create", "cancel"}) \cap OvertakenSoFar)
  /\ System /\ UNCHANGED <<requests, exitFrame>>

\* Five seconds have passed.
PauseGivenUp ==
  /\ exit = "pausing" /\ ~Quiet
  /\ exit' = "open"
  /\ System /\ UNCHANGED <<leaving, left, requests, exitFrame>>

\* The user stays, at once or when some terminals could not be ended.
resumeTerminalSpawnsAfterExit ==
  /\ exit = "paused" \/ (exit = "closing" /\ AllAnswered)
  /\ exit' = "open" /\ leaving' = {}
  /\ System /\ UNCHANGED <<left, requests, exitFrame>>

\* Confirmed, or tried again with the terminals that could not be ended.
EndLeaving ==
  /\ exit = "paused" \/ (exit = "closing" /\ AllAnswered)
  /\ CanCall("exit", leaving)
  /\ requests' = requests \cup NewCalls("exit", leaving)
  /\ exit' = IF leaving = {} THEN "gone" ELSE "closing"
  /\ System /\ UNCHANGED <<leaving, left, exitFrame>>

\* markEnded; with the last one the window is destroyed.
ExitKilled ==
  /\ Receive("exit", {"ok"})
  /\ Put({Subject}, Ended(Subject))
  /\ leaving' = leaving \ {Subject}
  /\ exit' = IF leaving' = {} THEN "gone" ELSE exit
  /\ routed' = routed \ {Subject}
  /\ System
  /\ UNCHANGED <<opened, paneVars, held, bulk, asking, left, dying, requests, shells, ghosts>>

ExitKillFailed ==
  /\ Receive("exit", {"failed"})
  /\ hollow' = hollow \cup ({Subject} \ shells)
  /\ System
  /\ UNCHANGED <<storeVars, exitVars, requests, routed, shells, stray>>

\* The user leaves all the same.
ExitAllTheSame ==
  /\ exit = "closing" /\ AllAnswered
  /\ exit' = "gone"
  /\ stray' = stray \cup (leaving \cap shells)
  /\ System /\ UNCHANGED <<leaving, left, dying, requests, storeVars, inbox, routed, shells,
                           hollow>>

----------------------------------------------------------------------------
(* The backend: TerminalManager (terminal.rs), and direct SSH terminals.   *)

backendFrame == <<storeVars, exitVars, routed, ghosts>>
KillJobs == Jobs \ {"create", "check"}

\* A session of the same id is replaced, and its exit is not told.
CreateServed(r) ==
  /\ r \in requests /\ r.job = "create"
  /\ requests' = requests \ {r}
  /\ shells' = shells \cup {r.id}
  /\ inbox' = Append(inbox, Answer(r, "ok"))
  /\ System /\ UNCHANGED backendFrame

CreateRefused(r) ==
  /\ Move("fails")
  /\ r \in requests /\ r.job = "create"
  /\ requests' = requests \ {r}
  /\ inbox' = Append(inbox, Answer(r, "failed"))
  /\ UNCHANGED <<shells, backendFrame>>

\* A local session is taken off the table and killed, if there is one.  A kill that went
\* astray finds none.
KillServed(r) ==
  /\ r \in requests /\ r.job \in KillJobs /\ ~r.begun
  /\ scope.remote /\ ~r.astray => r.id \notin shells
  /\ requests' = requests \ {r}
  /\ shells' = IF r.astray THEN shells ELSE shells \ {r.id}
  /\ inbox' = Append(inbox, Answer(r, "ok"))
  /\ System /\ UNCHANGED backendFrame

\* A local session with a child at work is taken off the table and told to end; a thread of
\* its own kills it if it does not (ForcedToEnd), and the answer does not wait for that.
KillGraceful(r) ==
  /\ Move("busy") /\ ~scope.remote
  /\ r \in requests /\ r.job \in KillJobs /\ r.id \in shells
  /\ requests' = requests \ {r}
  /\ shells' = shells \ {r.id}
  /\ dying' = dying \cup {r.id}
  /\ inbox' = Append(inbox, Answer(r, "ok"))
  /\ UNCHANGED <<storeVars, exit, leaving, left, routed, ghosts>>

ForcedToEnd(id) ==
  /\ id \in dying /\ dying' = dying \ {id}
  /\ System /\ UNCHANGED <<storeVars, exit, leaving, left, requests, inbox, routed, shells,
                           ghosts>>

\* A local session that cannot be killed stays.
KillRefused(r) ==
  /\ Move("fails") /\ ~scope.remote
  /\ r \in requests /\ r.job \in KillJobs /\ r.id \in shells
  /\ requests' = requests \ {r}
  /\ inbox' = Append(inbox, Answer(r, "failed"))
  /\ UNCHANGED <<shells, backendFrame>>

\* A remote session leaves the table at once and is then closed.
KillBegins(r) ==
  /\ scope.remote
  /\ r \in requests /\ r.job \in KillJobs /\ ~r.begun /\ ~r.astray /\ r.id \in shells
  /\ requests' = (requests \ {r}) \cup {[r EXCEPT !.begun = TRUE]}
  /\ shells' = shells \ {r.id}
  /\ System /\ UNCHANGED <<inbox, backendFrame>>

KillEnds(r) ==
  /\ r \in requests /\ r.begun
  /\ requests' = requests \ {r}
  /\ inbox' = Append(inbox, Answer(r, "ok"))
  /\ System /\ UNCHANGED <<shells, backendFrame>>

\* A remote session is gone although its close failed.
CloseOfSessionFails(r) ==
  /\ Move("fails")
  /\ r \in requests /\ r.begun
  /\ requests' = requests \ {r}
  /\ inbox' = Append(inbox, Answer(r, "failed"))
  /\ UNCHANGED <<shells, backendFrame>>

terminal_session_open(r) ==
  /\ r \in requests /\ r.job = "check"
  /\ requests' = requests \ {r}
  /\ inbox' = Append(inbox, Answer(r, IF r.id \in shells THEN "open" ELSE "ok"))
  /\ System /\ UNCHANGED <<shells, backendFrame>>

CheckFails(r) ==
  /\ Move("fails")
  /\ r \in requests /\ r.job = "check"
  /\ requests' = requests \ {r}
  /\ inbox' = Append(inbox, Answer(r, "failed"))
  /\ UNCHANGED <<shells, backendFrame>>

ShellEnds(id, how) ==
  /\ Move("dies") /\ id \in shells
  /\ shells' = shells \ {id}
  /\ inbox' = Append(inbox, [job |-> "exited", id |-> id, n |-> 1, result |-> how])
  /\ UNCHANGED <<requests, backendFrame>>

----------------------------------------------------------------------------

\* A project at work: some tabs run, some wait to be restored.
Init ==
  /\ scope \in Scopes /\ moves = 0
  /\ \E running, waiting \in SUBSET Ids :
       /\ running \cap waiting = {}
       /\ Cardinality(running) = scope.running /\ Cardinality(waiting) = scope.restored
       /\ opened = running \cup waiting /\ shells = running
       /\ \E paneOf \in [opened -> IF "panes" \in scope.allows THEN Panes ELSE {Primary}],
             taskOf \in [opened -> {FALSE, "task" \in scope.allows}] :
            tabs = [id \in opened |->
                     [status |-> IF id \in running THEN "running" ELSE "exited",
                      pending |-> FALSE, restored |-> id \in waiting,
                      task |-> id \in running /\ taskOf[id], pane |-> paneOf[id]]]
  /\ shown \in [Panes -> Live \cup {None}] /\ EachItsOwn(shown)
  /\ focus = Primary
  /\ held = [spawns |-> {}, kills |-> {}, restarts |-> {}]
  /\ checks = [id \in Ids |-> "no"] /\ bulk = NoBulk /\ asking = FALSE
  /\ exit = "open" /\ leaving = {} /\ left = {} /\ dying = {}
  /\ requests = {} /\ inbox = <<>> /\ routed = (IF scope.remote THEN shells ELSE {})
  /\ stray = {} /\ hollow = {} /\ overtaken = {} /\ crossed = {} /\ misrouted = {}

Store ==
  \/ \E id \in Ids : \E task \in BOOLEAN : addScriptTerminal(id, task)
  \/ addTerminal \/ ProfileRefused \/ spawnRestoredTerminals
  \/ \E id \in Ids : ProfileTrusted(id) \/ spawnPendingTerminal(id)
  \/ Spawned \/ SpawnCancelled \/ SpawnFailed \/ CancelAnswered
  \/ \E id \in Ids : closeTerminal(id) \/ closeOtherTerminals(id)
  \/ Closed \/ CloseFailed \/ closeAllProjectTerminals \/ BulkAnswered
  \/ \E id \in Ids : restartTerminal(id) \/ reopenTerminalShell(id) \/ enterShellAfterTask(id)
  \/ \E job \in {"restart", "shell"} : RestartAnswered(job)
  \/ CheckFindsTask \/ CheckFindsNothing \/ CheckDropped
  \/ ExitExpected \/ ExitCuts \/ \E quick \in BOOLEAN : ExitEnds(quick)
  \/ \E pane \in Panes : setTerminalFocusPane(pane)
  \/ \E id \in Ids : setActiveTerminal(id)
  \/ activateProject

Exit ==
  \/ pauseTerminalSpawnsForExit \/ Paused \/ PauseGivenUp \/ resumeTerminalSpawnsAfterExit
  \/ EndLeaving \/ ExitKilled \/ ExitKillFailed \/ ExitAllTheSame

Backend ==
  \/ \E r \in requests :
       \/ CreateServed(r) \/ CreateRefused(r) \/ KillServed(r) \/ KillBegins(r) \/ KillEnds(r)
       \/ CloseOfSessionFails(r) \/ KillRefused(r) \/ KillGraceful(r)
       \/ terminal_session_open(r) \/ CheckFails(r)
  \/ \E id \in Ids : ForcedToEnd(id) \/ \E how \in {"ended", "cut"} : ShellEnds(id, how)

Next == Store \/ Exit \/ Backend

Spec == Init /\ [][Next]_vars

----------------------------------------------------------------------------
(* Properties. *)

termTypeOK ==
  /\ opened \subseteq Ids /\ Live \subseteq opened /\ tabs \in [Live -> Tab]
  /\ shown \in [Panes -> Ids \cup {None}] /\ focus \in Panes
  /\ held \in [spawns : SUBSET Ids, kills : SUBSET Ids, restarts : SUBSET Ids]
  /\ checks \in [Ids -> {"no", "watching", "changed", "restarts"}]
  /\ bulk \in BulkClose \cup {NoBulk} /\ asking \in BOOLEAN
  /\ exit \in {"open", "pausing", "paused", "closing", "gone"}
  /\ leaving \subseteq Ids /\ left \subseteq Ids /\ dying \subseteq Ids
  /\ shells \subseteq Ids /\ routed \subseteq Ids
  /\ requests \subseteq Request /\ inbox \in Seq(Message)

\* What keeps an exit waiting has a call under way that will let it go: no error, no close
\* and no second restart leaves a mark behind that makes every later exit time out.
ReservedIsWaited ==
  /\ held.spawns \subseteq Busy({"create", "cancel"})
  /\ held.restarts \subseteq Busy({"restart", "shell"})
  /\ {id \in Ids : checks[id] \in {"watching", "changed"}} \subseteq Busy({"check"})
  /\ {id \in Ids : checks[id] = "restarts"} \subseteq Busy({"shell"})

WillBeKilled(id) ==
  \/ \E r \in requests : r.id = id /\ r.job \in KillJobs /\ ~r.begun /\ ~r.astray
  \/ \E m \in Told : m.id = id /\ (m.job = "create" \/ m.result = "failed")

\* A shell without a tab is about to be killed, unless its kill failed, a close of many tabs
\* swept one that it had not killed or that was created meanwhile, the terminal was
\* restarted while it was being created or closed, or its kill went to the wrong table.
NoStrayShell ==
  \A id \in shells \ (Live \cup stray \cup CrossedSoFar \cup MisroutedSoFar) :
    exit # "gone" => WillBeKilled(id)

\* What terminalStore.connection.test.ts:519 says of every terminal: the new shell is killed
\* when its tab closes while it is created.  It is not, in a remote project: the kill of the
\* close takes the id out of the routed, and the kill that cancels finds no such local shell.
NewShellIsKilled ==
  \A id \in shells \ (Live \cup stray \cup CrossedSoFar) : exit # "gone" => WillBeKilled(id)

\* A tab that says it runs has a session, unless something of it is still under way or the
\* session was lost in a kill that failed.
RunningHasShell ==
  \A id \in Live \ (shells \cup hollow) :
    tabs[id].status = "running" =>
      \/ \E c \in Calls : c.id = id
      \/ bulk # NoBulk /\ id \in bulk.ids

\* With the window no session is left and none is still to be created: but for kills that
\* failed or went to the wrong table, terminals restarted or swept while they were being
\* created, and overtaken creations that were under way when an exit took its list.
ExitLeavesNothing ==
  exit = "gone" => shells \cup {r.id : r \in {q \in requests : q.job = "create"}}
                     \subseteq stray \cup CrossedSoFar \cup MisroutedSoFar \cup left

\* What terminalStore.ts:100 says: those being created have settled when the exit takes its
\* list.  They have not: a close or a restart lets the exit forget the one it overtakes.
SettledBeforeExit == exit = "paused" => Busy({"create"}) = {}

\* What docs/run-config.md:104 says: a shell that does not end when told to is ended by force.
\* With the window goes the thread that would do it.
ExitEndsShells == exit = "gone" => dying = {}

\* A pane shows no terminal of another pane.
PanesShowTheirOwn ==
  \A p \in Panes : shown[p] \in Live => tabs[shown[p]].pane = p
=============================================================================
