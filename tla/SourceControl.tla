---------------------------- MODULE SourceControl ----------------------------
(***************************************************************************)
(* The source control panel (src/components/SourceControlPanel.tsx) over   *)
(* the store of Git snapshots, with the file watcher that keeps the store  *)
(* fresh (src/hooks/useFileWatcher.ts).                                    *)
(*                                                                         *)
(* Everything runs on one thread; what an async function of the panel does *)
(* between two awaits is one action, and what it awaits is another.  A     *)
(* task is a call under way.  The code numbers the calls of a kind and     *)
(* compares the number after an await; here starting or cancelling a call  *)
(* makes the older ones of its kind stale (fresh = FALSE).  A call waiting *)
(* on another, or on a read of the store, is resumed in the same turn, so  *)
(* no other action runs while a task is resumed.                           *)
(*                                                                         *)
(* The panel stays open.  A history is the sequence of its pages that are  *)
(* listed; a page stands for COMMIT_PAGE_SIZE commits, and for its first   *)
(* one where a commit is picked.                                           *)
(***************************************************************************)
EXTENDS GitStatusStore, Sequences

CONSTANTS
  Files,        \* files a commit changes
  LastPage,     \* the history has pages 0 .. LastPage; the last one is not full
  LogAttempts,  \* how often loadCommits tries (retryDelaysMs)
  MaxTasks,     \* bound on the calls under way
  Scopes        \* what the user and the outside do in a behaviour, how often, and
                \* the project that is open at first

Moves == {"projects", "edits", "fails", "stage", "discard", "remote", "commit",
          "fetch", "history", "poll", "periodic"}

ASSUME ScmConstants == /\ LastPage \in Nat /\ LogAttempts \in Nat \ {0}
                       /\ MaxTasks \in Nat
                       /\ Scopes \subseteq [allows : SUBSET Moves, moves : Nat,
                                           opened : Projects \cup {None}]

VARIABLES
  current,      \* projectStore.currentProject
  resetDue,     \* the timeout of the panel's project effect is pending
  operation,    \* the Git command the panel shows as running, None or its kind
  background,   \* backgroundFetchPathRef
  tab,          \* changes or history
  list,         \* the commits listed: [of, pages, more]
  loadingMore,  \* commitsLoadingMoreRef
  cache,        \* the short-lived cache of listed commits, by project
  picked,       \* [hash, rev, file]: selectedCommitHash, its ref, and the file's ref
  pane,         \* what the panes show, with where it is from, or None
  tasks,        \* [1 .. MaxTasks -> Task or None]
  watcher,      \* the queue of tree refreshes: [pending, running]
  scope, moves

panelVars == <<operation, background, tab, list, loadingMore, cache, picked, pane>>
Env == <<tree, current, resetDue, watcher, scope>>
Lists == <<tab, list, loadingMore, cache, picked>>
scmVars == <<git, tree, current, resetDue, panelVars, tasks, watcher, scope, moves>>

Slots == 1 .. MaxTasks
Pages == 0 .. LastPage
NoList == [of |-> None, pages |-> <<>>, more |-> FALSE]
NoPick == [hash |-> None, rev |-> None, file |-> None]
EmptyPane == [remotes |-> None, branches |-> None, files |-> None, diff |-> None]

RemoteKinds == {"fetch", "pull", "push", "switch"}
OperationKinds == RemoteKinds \cup {"stage", "stageAll", "discard", "commit"}
LoadKinds == {"remotes", "branches", "commits", "more", "files", "diff"}
Kinds == OperationKinds \cup LoadKinds \cup {"refresh", "auto"}
Steps == {"asks", "confirm", "git", "done", "failed", "branches",
          "read", "await", "resumed", "rejected"}

Project == Projects \cup {None}
Page == Nat \cup {None}
History == [of : Project, pages : Seq(Nat), more : BOOLEAN]
Pick == [rev : Nat, file : Files]

\* A call under way; arg is what it was called with, or what its handler
\* does next, and on is what it waits for.
Handlers == {"history", "branches", "push", "end"}
Args == Nat \cup Handlers \cup Status \cup Pick \cup {None}
Awaited == Reads \cup Slots \cup {None}
Modes == {"none", "soft", "hard", "quiet"}

TaskState ==
  [kind : Kinds, path : Projects, step : Steps, on : Awaited, arg : Args,
   fresh : BOOLEAN, mode : Modes, loads : BOOLEAN]

\* A free slot is told from a call, and no commit from one.
ASSUME NoneIsNoTask == None \notin TaskState
ASSUME NoneIsNoPage == None \notin Nat

Task(kind, path, step, on, arg) ==
  [kind |-> kind, path |-> path, step |-> step, on |-> on, arg |-> arg,
   fresh |-> TRUE, mode |-> "none", loads |-> FALSE]

----------------------------------------------------------------------------
(* Calls under way.                                                        *)

Busy == {k \in Slots : tasks[k] # None}
Room(n) == MaxTasks - Cardinality(Busy) >= n

\* The n-th free slot: a turn may start several calls.
FreeSlot(n) ==
  CHOOSE k \in Slots \ Busy : Cardinality({l \in Slots \ Busy : l < k}) = n - 1

Running(kinds) == {k \in Busy : tasks[k].kind \in kinds}

Start(ts, n, task) == [ts EXCEPT ![FreeSlot(n)] = task]

\* ++sequence: the calls of that kind are no longer the current request.
Bump(ts, kinds) ==
  [k \in Slots |-> IF ts[k] # None /\ ts[k].kind \in kinds
                   THEN [ts[k] EXCEPT !.fresh = FALSE] ELSE ts[k]]

\* The end of a call resumes the one that awaits it.
Finish(ts, k) ==
  [l \in Slots |-> IF l = k THEN None
                   ELSE IF ts[l] # None /\ ts[l].step = "await" /\ ts[l].on = k
                   THEN [ts[l] EXCEPT !.step = "resumed", !.on = None]
                   ELSE ts[l]]

\* Reads that settled resume the refreshes waiting for them; only a caller of
\* a full refresh sees the failure.
Settle(ts, g, failed) ==
  [k \in Slots |->
     IF ts[k] # None /\ ts[k].step = "read" /\ g.reads[ts[k].on] = None
     THEN [ts[k] EXCEPT !.on = None,
                        !.step = IF failed /\ ts[k].mode # "soft" THEN "rejected" ELSE "resumed"]
     ELSE ts[k]]

Quiet == \A k \in Slots : tasks[k] # None => tasks[k].step \notin {"resumed", "rejected"}

\* The spinner: the call that loadingRefreshSequenceRef names.
Loading(ts) == \E k \in Slots : ts[k] # None /\ ts[k].loads

IsCurrentProject(k) == current = tasks[k].path
IsCurrentRequest(k) == tasks[k].fresh /\ IsCurrentProject(k)

\* A move of the user or of the outside, counted against the bound.
Move(family) ==
  /\ family \in scope.allows
  /\ moves < scope.moves
  /\ moves' = moves + 1

----------------------------------------------------------------------------
(* refresh: a request to the store, and a call that awaits its read.       *)

Loaded(ts, mode) ==
  [k \in Slots |-> IF ts[k] # None /\ mode # "quiet" THEN [ts[k] EXCEPT !.loads = FALSE] ELSE ts[k]]

Refreshed(g, p, mode, reuse) == refresh(g, p, FALSE, reuse, mode # "soft", tree[p])

\* g is the store after the request.
WithRefresh(ts, n, g, p, mode) ==
  Start(Loaded(Bump(ts, {"refresh"}), mode), n,
        [Task("refresh", p, "read", g.inFlight[p], None)
           EXCEPT !.mode = mode, !.loads = mode = "hard"])

LoadRemotes(ts, n, p) == Start(Bump(ts, {"remotes"}), n, Task("remotes", p, "asks", None, None))
LoadCommits(ts, n, p) == Start(Bump(ts, {"commits"}), n, Task("commits", p, "asks", None, 1))

\* loadCommitFiles: what was picked in the old list of files goes.
LoadFiles(ts, n, p, rev) ==
  Start(Bump(ts, {"files", "diff"}), n, Task("files", p, "asks", None, rev))

\* The effect on [scmTab, selectedCommitHash, commits]: the commit picked, or
\* the first one listed.  pick is what the turn leaves picked before it.
Selected(l, hash) ==
  IF hash # None THEN hash ELSE IF l.pages = <<>> THEN None ELSE l.pages[1]

HistoryEffect(ts, n, newTab, l, pick, panes) ==
  LET rev == Selected(l, pick.hash)
  IN  IF newTab # "history" THEN tasks' = ts /\ picked' = pick /\ pane' = panes
      ELSE /\ picked' = [pick EXCEPT !.rev = rev, !.file = IF rev = None THEN @ ELSE None]
           /\ tasks' = IF rev = None THEN ts ELSE LoadFiles(ts, n, current, rev)
           /\ pane' = IF rev = None THEN [panes EXCEPT !.files = None]
                      ELSE [panes EXCEPT !.diff = None]

\* The refresh after the store's answer: a soft one is over, a full one goes
\* on to the history, even when it is no longer the latest refresh.
RefreshResumes(k) ==
  LET r == tasks[k]
      known == git.snapshots[r.path]
      over == \/ r.mode = "soft" \/ known = None \/ ~IsCurrentProject(k)
              \/ ~known.repo /\ ~r.fresh
  IN  /\ r # None /\ r.kind = "refresh" /\ r.step = "resumed" /\ r.arg = None
      /\ IF over THEN tasks' = Finish(tasks, k) /\ UNCHANGED <<list, picked, pane>>
         ELSE IF known.repo
         THEN /\ Room(1)
              /\ tasks' = [LoadCommits(tasks, 1, r.path) EXCEPT
                             ![k] = [r EXCEPT !.step = "await", !.on = FreeSlot(1),
                                              !.arg = "history"]]
              /\ UNCHANGED <<list, picked, pane>>
         ELSE /\ Room(1)
              /\ list' = NoList
              /\ HistoryEffect(Finish(Bump(tasks, {"commits"}), k), 1, tab, NoList, picked,
                               [pane EXCEPT !.remotes = None])
      /\ UNCHANGED <<git, operation, background, tab, loadingMore, cache>>

\* ... and then to the remotes, only when it is.
HistoryRefreshed(k) ==
  LET r == tasks[k]
  IN  /\ r # None /\ r.kind = "refresh" /\ r.step = "resumed" /\ r.arg = "history"
      /\ Room(1)
      /\ tasks' = Finish(IF IsCurrentRequest(k) THEN LoadRemotes(tasks, 1, r.path) ELSE tasks, k)
      /\ UNCHANGED <<git, panelVars>>

RefreshRejected(k) ==
  /\ tasks[k] # None /\ tasks[k].kind = "refresh" /\ tasks[k].step = "rejected"
  /\ tasks' = Finish(tasks, k)
  /\ UNCHANGED <<git, panelVars>>

----------------------------------------------------------------------------
(* The history, a commit's files and a file's diff.                        *)

SetList(k, l, pick) ==
  /\ list' = l
  /\ HistoryEffect(Finish(tasks, k), 1, tab, l, pick, pane)

\* Mutant: a late log is not compared with what is current.
LogAnswers_unchecked(k) ==
  LET r == tasks[k]
      l == [of |-> r.path, pages |-> <<0>>, more |-> 0 < LastPage]
  IN  /\ r # None /\ r.kind = "commits" /\ r.step = "asks" /\ Room(1) /\ current # None
      /\ SetList(k, l, [picked EXCEPT !.hash = None, !.rev = None])
      /\ cache' = [cache EXCEPT ![r.path] = l]
      /\ UNCHANGED <<git, operation, background, tab, loadingMore>>

LogAnswers(k) ==
  LET r == tasks[k]
      l == [of |-> r.path, pages |-> <<0>>, more |-> 0 < LastPage]
  IN  /\ r # None /\ r.kind = "commits" /\ r.step = "asks" /\ Room(1)
      /\ IF ~IsCurrentRequest(k)
         THEN tasks' = Finish(tasks, k) /\ UNCHANGED <<list, cache, picked, pane>>
         ELSE /\ SetList(k, l, [picked EXCEPT !.hash = None, !.rev = None])
              /\ cache' = [cache EXCEPT ![r.path] = l]
      /\ UNCHANGED <<git, operation, background, tab, loadingMore>>

\* Trust may lag behind the first opening: try again, give up at the last.
LogFails(k) ==
  LET r == tasks[k]
  IN  /\ r # None /\ r.kind = "commits" /\ r.step = "asks"
      /\ Move("fails") /\ Room(1)
      /\ IF ~IsCurrentRequest(k)
         THEN tasks' = Finish(tasks, k) /\ UNCHANGED <<list, cache, picked, pane>>
         ELSE IF r.arg < LogAttempts
         THEN /\ tasks' = [tasks EXCEPT ![k].arg = @ + 1]
              /\ UNCHANGED <<list, cache, picked, pane>>
         ELSE /\ SetList(k, NoList, picked)
              /\ cache' = [cache EXCEPT ![r.path] = NoList]
      /\ UNCHANGED <<git, operation, background, tab, loadingMore>>

Listed == {list.pages[i] : i \in DOMAIN list.pages}

\* loadMoreCommits: only the project is compared after the await.
LoadMore ==
  /\ Move("history") /\ Room(1)
  /\ current # None /\ tab = "history" /\ list.more /\ ~loadingMore
  /\ loadingMore' = TRUE
  /\ tasks' = Start(tasks, 1, Task("more", current, "asks", None, Len(list.pages)))
  /\ UNCHANGED <<git, Env, operation, background, tab, list, cache, picked, pane>>

\* A page all of whose commits are listed leaves the list as it is.
MoreAnswers(k) ==
  LET r == tasks[k]
      l == [of |-> r.path, pages |-> IF r.arg \in Listed THEN list.pages
                                     ELSE Append(list.pages, r.arg),
            more |-> r.arg < LastPage]
  IN  /\ r # None /\ r.kind = "more" /\ r.step = "asks" /\ Room(1)
      /\ loadingMore' = FALSE
      /\ IF ~IsCurrentProject(k)
         THEN tasks' = Finish(tasks, k) /\ UNCHANGED <<list, cache, picked, pane>>
         ELSE /\ IF r.arg \in Listed
                 THEN tasks' = Finish(tasks, k) /\ list' = l /\ UNCHANGED <<picked, pane>>
                 ELSE SetList(k, l, picked)
              /\ cache' = [cache EXCEPT ![r.path] = l]
      /\ UNCHANGED <<git, operation, background, tab>>

MoreFails(k) ==
  /\ tasks[k] # None /\ tasks[k].kind = "more" /\ Move("fails")
  /\ loadingMore' = FALSE
  /\ list' = IF IsCurrentProject(k) THEN [list EXCEPT !.more = FALSE] ELSE list
  /\ tasks' = Finish(tasks, k)
  /\ UNCHANGED <<git, operation, background, tab, cache, picked, pane>>

FilesAnswer(k) ==
  LET r == tasks[k]
  IN  /\ r # None /\ r.kind = "files"
      /\ tasks' = Finish(tasks, k)
      /\ pane' = IF IsCurrentRequest(k) /\ picked.rev = r.arg
                 THEN [pane EXCEPT !.files = [of |-> r.path, rev |-> r.arg]] ELSE pane
      /\ UNCHANGED <<git, operation, background, tab, list, loadingMore, cache, picked>>

FilesFail(k) ==
  LET r == tasks[k]
  IN  /\ r # None /\ r.kind = "files" /\ Move("fails")
      /\ tasks' = Finish(tasks, k)
      /\ pane' = IF IsCurrentRequest(k) /\ picked.rev = r.arg
                 THEN [pane EXCEPT !.files = None] ELSE pane
      /\ UNCHANGED <<git, operation, background, tab, list, loadingMore, cache, picked>>

\* The user picks a commit, or a file of the commit that is shown.
PickCommit(page) ==
  /\ Move("history") /\ Room(1) /\ tab = "history" /\ current # None /\ page \in Listed
  /\ picked.hash # page
  /\ HistoryEffect(tasks, 1, tab, list, [picked EXCEPT !.hash = page], pane)
  /\ UNCHANGED <<git, Env, operation, background, tab, list, loadingMore, cache>>

PickFile(file) ==
  /\ Move("history") /\ Room(1) /\ tab = "history" /\ current # None /\ pane.files # None
  /\ picked.rev # None
  /\ picked' = [picked EXCEPT !.file = file]
  /\ tasks' = Start(Bump(tasks, {"diff"}), 1,
                    Task("diff", current, "asks", None, [rev |-> picked.rev, file |-> file]))
  /\ UNCHANGED <<git, Env, operation, background, tab, list, loadingMore, cache, pane>>

\* Mutant: a late diff is only compared with the project.
IsCurrentDiff_projectOnly(k) == IsCurrentProject(k)

IsCurrentDiff(k) ==
  IsCurrentRequest(k) /\ [rev |-> picked.rev, file |-> picked.file] = tasks[k].arg

DiffAnswers(k) ==
  LET r == tasks[k]
  IN  /\ r # None /\ r.kind = "diff"
      /\ tasks' = Finish(tasks, k)
      /\ pane' = IF IsCurrentDiff(k)
                 THEN [pane EXCEPT !.diff = [of |-> r.path, pick |-> r.arg]] ELSE pane
      /\ UNCHANGED <<git, operation, background, tab, list, loadingMore, cache, picked>>

DiffFails(k) ==
  /\ tasks[k] # None /\ tasks[k].kind = "diff" /\ Move("fails")
  /\ tasks' = Finish(tasks, k)
  /\ pane' = IF IsCurrentDiff(k) THEN [pane EXCEPT !.diff = None] ELSE pane
  /\ UNCHANGED <<git, operation, background, tab, list, loadingMore, cache, picked>>

\* closeCommitDiff; the button is there while a diff is shown or loading.
CloseDiff ==
  /\ Move("history") /\ tab = "history" /\ list.pages # <<>>
  /\ pane.diff # None \/ Running({"diff"}) # {}
  /\ picked' = [picked EXCEPT !.file = None]
  /\ tasks' = Bump(tasks, {"diff"})
  /\ pane' = [pane EXCEPT !.diff = None]
  /\ UNCHANGED <<git, Env, operation, background, tab, list, loadingMore, cache>>

OpenTab(t) ==
  /\ Move("history") /\ Room(1) /\ tab # t /\ current # None
  /\ tab' = t
  /\ HistoryEffect(tasks, 1, t, list, picked, pane)
  /\ UNCHANGED <<git, Env, operation, background, list, loadingMore, cache>>

RemotesAnswer(k) ==
  /\ tasks[k] # None /\ tasks[k].kind = "remotes"
  /\ tasks' = Finish(tasks, k)
  /\ pane' = IF IsCurrentRequest(k) THEN [pane EXCEPT !.remotes = tasks[k].path] ELSE pane
  /\ UNCHANGED <<git, operation, background, tab, list, loadingMore, cache, picked>>

OpenBranchMenu ==
  /\ Move("remote") /\ Room(1) /\ current # None
  /\ operation = None /\ ~Loading(tasks) /\ Running({"branches"}) = {}
  /\ tasks' = Start(tasks, 1, Task("branches", current, "asks", None, None))
  /\ UNCHANGED <<git, Env, panelVars>>

BranchesAnswer(k) ==
  /\ tasks[k] # None /\ tasks[k].kind = "branches"
  /\ tasks' = Finish(tasks, k)
  /\ pane' = IF IsCurrentProject(k) THEN [pane EXCEPT !.branches = tasks[k].path] ELSE pane
  /\ UNCHANGED <<git, operation, background, tab, list, loadingMore, cache, picked>>

----------------------------------------------------------------------------
(* Git commands.                                                           *)

\* The guard of the buttons: nothing else runs, and for what moves remote
\* references no fetch of this project in the background either.
MayStart(kind) ==
  /\ current # None /\ Room(2)
  /\ operation = None /\ ~Loading(tasks)
  /\ kind \in RemoteKinds => background # current

\* The command is sent; a bulk stage shows its prediction at once and keeps
\* the status it replaced.
RunOperation(kind, arg) ==
  /\ MayStart(kind)
  /\ operation' = kind
  /\ tasks' = Start(tasks, 1, Task(kind, current, "git", None, arg))
  /\ UNCHANGED <<Env, background, Lists, pane>>

StageFiles == Move("stage") /\ RunOperation("stage", None) /\ UNCHANGED git

StageAll ==
  /\ Move("stage")
  /\ current # None /\ git.snapshots[current] # None
  /\ RunOperation("stageAll", git.snapshots[current])
  /\ git' = applyFromGitStatus(git, current, Guess(git.snapshots[current].ver))

Pull == Move("remote") /\ RunOperation("pull", None) /\ UNCHANGED git
SwitchBranch == Move("remote") /\ RunOperation("switch", None) /\ UNCHANGED git
RetryPush == Move("remote") /\ RunOperation("push", None) /\ UNCHANGED git
FetchRemote == Move("fetch") /\ RunOperation("fetch", None) /\ UNCHANGED git

\* commitStaged does not look at the background fetch.
CommitStaged(then) == Move("commit") /\ RunOperation("commit", then) /\ UNCHANGED git

\* discardChanges asks first; the guard is not looked at again.
AskDiscard ==
  /\ Move("discard") /\ MayStart("discard")
  /\ Running({"discard"}) = {}
  /\ tasks' = Start(tasks, 1, Task("discard", current, "confirm", None, None))
  /\ UNCHANGED <<git, Env, panelVars>>

AnswerDiscard(k, yes) ==
  /\ tasks[k] # None /\ tasks[k].step = "confirm"
  /\ tasks' = IF yes THEN [tasks EXCEPT ![k].step = "git"] ELSE Finish(tasks, k)
  /\ operation' = IF yes THEN "discard" ELSE operation
  /\ UNCHANGED <<git, background, Lists, pane>>

\* fetchRemote({silent}): not beside a remote operation, not beside itself.
\* Whether it is due (shouldAutoFetch) is left open.
AutoFetch ==
  /\ Move("fetch") /\ Room(2)
  /\ current # None /\ background # current
  /\ operation \notin RemoteKinds
  /\ git.snapshots[current] # None /\ git.snapshots[current].repo
  /\ background' = current
  /\ tasks' = Start(tasks, 1, Task("auto", current, "git", None, None))
  /\ UNCHANGED <<git, Env, operation, Lists, pane>>

\* The command takes effect on disk, or fails, before its answer is seen.
Edited(p) == [tree EXCEPT ![p] = IF @ < MaxTree THEN @ + 1 ELSE @]

CommandRuns(k) ==
  /\ tasks[k] # None /\ tasks[k].step = "git"
  /\ tree' = IF tasks[k].kind \in {"push", "fetch", "auto"} THEN tree
             ELSE Edited(tasks[k].path)
  /\ tasks' = [tasks EXCEPT ![k].step = "done"]
  /\ UNCHANGED <<git, panelVars, current, resetDue, watcher, scope, moves>>

CommandFails(k) ==
  /\ tasks[k] # None /\ tasks[k].step = "git" /\ Move("fails")
  /\ tasks' = [tasks EXCEPT ![k].step = "failed"]
  /\ UNCHANGED <<git, panelVars>>

\* finally: whatever is shown as running is over.
Released(k) ==
  IF tasks[k].kind = "auto"
  THEN /\ background' = IF background = tasks[k].path THEN None ELSE background
       /\ UNCHANGED operation
  ELSE operation' = None /\ UNCHANGED background

Over(k) ==
  /\ tasks' = Finish(tasks, k) /\ Released(k)
  /\ UNCHANGED <<git, Lists, pane>>

\* void refresh({soft: true}), with g the store as the handler left it.
EndsWithSoftRefresh(k, g) ==
  LET p == tasks[k].path
      g2 == Refreshed(g, p, "soft", FALSE)
  IN  /\ CanRefresh(g, p) /\ Room(1)
      /\ git' = g2
      /\ tasks' = WithRefresh(Finish(tasks, k), 1, g2, p, "soft")
      /\ Released(k)
      /\ UNCHANGED <<Lists, pane>>

\* await refresh({soft: false}); then is what the handler does after it.
AwaitsRefresh(k, then) ==
  LET p == tasks[k].path
      mode == IF tasks[k].kind = "auto" THEN "quiet" ELSE "hard"
      g2 == Refreshed(git, p, mode, FALSE)
  IN  /\ CanRefresh(git, p) /\ Room(1)
      /\ git' = g2
      /\ tasks' = [WithRefresh(tasks, 1, g2, p, mode) EXCEPT
                     ![k] = [tasks[k] EXCEPT !.step = "await", !.on = FreeSlot(1),
                                             !.arg = then]]
      /\ UNCHANGED panelVars

\* What the discarded files leave is predicted, twice.
Discarded(p) ==
  LET left == Guess(git.snapshots[p].ver)
  IN  IF git.snapshots[p] = None THEN git
      ELSE applyFromGitStatus(setPanelStatus(git, p, left, FALSE), p, left)

CommandAnswers(k) ==
  LET r == tasks[k]
  IN  /\ r # None /\ r.step = "done"
      /\ IF ~IsCurrentProject(k) THEN Over(k)
         ELSE \/ r.kind \in {"stage", "stageAll"} /\ EndsWithSoftRefresh(k, git)
              \/ r.kind = "discard" /\ EndsWithSoftRefresh(k, Discarded(r.path))
              \/ r.kind = "commit" /\ AwaitsRefresh(k, r.arg)
              \/ r.kind \in {"fetch", "auto"} /\ AwaitsRefresh(k, "branches")
              \/ r.kind \in {"pull", "switch", "push"} /\ AwaitsRefresh(k, "end")

\* A failed push of a branch that is behind fetches at once: fetchRemote was
\* made in an earlier render and sees no operation.
FetchesBehind(k) ==
  /\ background # tasks[k].path /\ Room(1)
  /\ background' = tasks[k].path
  /\ tasks' = Start(Finish(tasks, k), 1, Task("auto", tasks[k].path, "git", None, None))
  /\ operation' = None
  /\ UNCHANGED <<git, Lists, pane>>

CommandRejects(k) ==
  LET r == tasks[k]
  IN  /\ r # None /\ r.step = "failed"
      /\ IF ~IsCurrentProject(k) THEN Over(k)
         ELSE \/ r.kind \in {"stage", "discard"} /\ EndsWithSoftRefresh(k, git)
              \/ /\ r.kind = "stageAll"
                 /\ EndsWithSoftRefresh(k, applyFromGitStatus(git, r.path,
                                              [r.arg EXCEPT !.sure = FALSE]))
              \/ r.kind \in {"pull", "commit"} /\ AwaitsRefresh(k, "end")
              \/ r.kind \in {"switch", "fetch", "auto", "push"} /\ Over(k)
              \/ r.kind = "push" /\ FetchesBehind(k)

\* The refresh a command awaited is over.
CommandResumes(k) ==
  LET r == tasks[k]
  IN  /\ r # None /\ r.step = "resumed" /\ r.kind # "refresh"
      /\ \/ r.arg = "end" /\ Over(k)
         \/ /\ r.arg = "push"
            /\ operation' = "push"
            /\ tasks' = [tasks EXCEPT ![k] = [r EXCEPT !.kind = "push", !.step = "git",
                                                      !.arg = None]]
            /\ UNCHANGED <<git, background, Lists, pane>>
         \/ /\ r.arg = "branches"
            /\ tasks' = [tasks EXCEPT ![k].step = "branches"]
            /\ UNCHANGED <<git, panelVars>>

FetchedBranches(k) ==
  LET r == tasks[k]
  IN  /\ r # None /\ r.step = "branches" /\ Room(1)
      /\ IF IsCurrentProject(k)
         THEN /\ tasks' = LoadRemotes(Finish(tasks, k), 1, r.path)
              /\ pane' = [pane EXCEPT !.branches = r.path]
         ELSE tasks' = Finish(tasks, k) /\ UNCHANGED pane
      /\ Released(k)
      /\ UNCHANGED <<git, Lists>>

----------------------------------------------------------------------------
(* Projects, the outside and the store's reads.                            *)

\* The effects of a switch: the watcher's hook has the store follow, the
\* panel resets itself in a timeout.
SwitchProject(p) ==
  /\ Move("projects") /\ p # current
  /\ current' = p
  /\ resetDue' = TRUE
  /\ IF p = None THEN git' = clear(git)
     ELSE CanRefresh(git, p) /\ git' = refresh(git, p, FALSE, TRUE, FALSE, tree[p])
  /\ UNCHANGED <<tree, panelVars, tasks, watcher, scope>>

\* The panel of the new project, before anything is loaded.
ResetPanel ==
  /\ resetDue /\ resetDue' = FALSE
  /\ operation' = None
  /\ LET dropped == Bump(tasks, {"remotes", "commits", "files", "diff"})
         seeded == git.snapshots[current]
         Seeds(mode, reuse, l, load) ==   \* refresh, and what a known status allows
           LET g == Refreshed(git, current, mode, reuse)
               ts == WithRefresh(dropped, 1, g, current, mode)
               logs == IF load /\ l = NoList THEN LoadCommits(ts, 2, current) ELSE ts
           IN  /\ CanRefresh(git, current) /\ Room(4)
               /\ git' = g
               /\ list' = l
               /\ HistoryEffect(IF load THEN LoadRemotes(logs, 3, current) ELSE logs,
                                4, tab, l, NoPick, EmptyPane)
     IN  \/ /\ current = None
            /\ git' = [git EXCEPT !.snapshots = [p \in Projects |-> None]]
            /\ tasks' = dropped /\ list' = NoList /\ picked' = NoPick /\ pane' = EmptyPane
         \/ /\ current # None /\ seeded = None
            /\ Seeds("hard", FALSE, NoList, FALSE)
         \/ /\ current # None /\ seeded # None
            /\ \/ Seeds("hard", TRUE, NoList, FALSE)     \* without tracking metadata
               \/ ~seeded.repo /\ Seeds("soft", TRUE, NoList, FALSE)
               \/ seeded.repo /\ \E l \in {NoList, cache[current]} : Seeds("soft", TRUE, l, TRUE)
  /\ UNCHANGED <<tree, current, background, tab, loadingMore, cache, watcher, scope, moves>>

\* A file changes: saved in the editor, or elsewhere; the watcher sees what
\* happens below the root of the current project, or misses it.
FileChanges(p) ==
  /\ Move("edits") /\ tree[p] < MaxTree
  /\ tree' = Edited(p)
  /\ \/ UNCHANGED <<git, watcher>>
     \/ git' = scheduleRefresh(git, git.projectPath) /\ UNCHANGED watcher
     \/ p = current /\ watcher' = [watcher EXCEPT !.pending = TRUE] /\ UNCHANGED git
  /\ UNCHANGED <<current, resetDue, panelVars, tasks, scope>>

\* The queue of tree refreshes: one at a time, what comes meanwhile waits.
TreesRefresh ==
  /\ watcher.pending /\ ~watcher.running
  /\ watcher' = [pending |-> FALSE, running |-> TRUE]
  /\ UNCHANGED <<git, tree, current, resetDue, panelVars, tasks, scope, moves>>

TreesRefreshed ==
  /\ watcher.running
  /\ watcher' = [watcher EXCEPT !.running = FALSE]
  /\ git' = scheduleRefresh(git, git.projectPath)
  /\ UNCHANGED <<tree, current, resetDue, panelVars, tasks, scope, moves>>

\* Mutant: only of what the last read took for a repository.
PeriodicRefresh_ofRepository ==
  /\ "periodic" \in scope.allows /\ current # None
  /\ git.inFlight[current] = None /\ current \notin git.timers
  /\ git.snapshots[current] # None /\ git.snapshots[current].repo
  /\ git' = scheduleRefresh(git, current)
  /\ UNCHANGED <<Env, panelVars, tasks, moves>>

\* The periodic refresh of the current project, also on focus.  Its period
\* is minutes: the last read is taken to have ended (an assumption of time).
PeriodicRefresh ==
  /\ "periodic" \in scope.allows /\ current # None
  /\ git.inFlight[current] = None /\ current \notin git.timers
  /\ git' = scheduleRefresh(git, current)
  /\ UNCHANGED <<Env, panelVars, tasks, moves>>

\* useProjectIndicators polls the other projects.
PollProject(p) ==
  /\ Move("poll") /\ p # current /\ CanRefresh(git, p)
  /\ git' = refresh(git, p, TRUE, TRUE, FALSE, tree[p])
  /\ UNCHANGED <<Env, panelVars, tasks>>

TimedRefresh(p) == TimerFires(p) /\ UNCHANGED <<Env, panelVars, tasks, moves>>

ReadAnswers(i) ==
  /\ \/ \E ver \in Versions, needsHead \in BOOLEAN :
          WorkdirAnswers(i, ver, needsHead) \/ StatusAnswers(i, ver, needsHead)
     \/ HeadAnswers(i)
  /\ tasks' = Settle(tasks, git', FALSE)
  /\ UNCHANGED <<Env, panelVars, moves>>

ReadGoesWrong(i) ==
  /\ Move("fails")
  /\ \/ ReadFails(i) /\ tasks' = Settle(tasks, git', git.reads[i].phase = "full")
     \/ /\ WorkdirAnswersNull(i) \/ NoRepositoryAnswers(i)
        /\ tasks' = Settle(tasks, git', FALSE)
  /\ UNCHANGED <<Env, panelVars>>

----------------------------------------------------------------------------

\* A turn that continues a resumed call.
Resumes(k) ==
  /\ RefreshResumes(k) \/ HistoryRefreshed(k) \/ RefreshRejected(k) \/ CommandResumes(k)
  /\ UNCHANGED <<Env, moves>>

\* Turns of the event loop that answer what a call waits for.
Answers(k) ==
  /\ \/ LogAnswers(k) \/ MoreAnswers(k) \/ FilesAnswer(k) \/ DiffAnswers(k)
     \/ RemotesAnswer(k) \/ BranchesAnswer(k)
     \/ CommandAnswers(k) \/ CommandRejects(k) \/ FetchedBranches(k)
  /\ UNCHANGED <<Env, moves>>

Failures(k) ==
  /\ LogFails(k) \/ MoreFails(k) \/ FilesFail(k) \/ DiffFails(k) \/ CommandFails(k)
  /\ UNCHANGED Env

Decides(k) == \E yes \in BOOLEAN : AnswerDiscard(k, yes) /\ UNCHANGED <<Env, moves>>

\* The user does not get to the panel before its timeout of 0 ms.
UserActs ==
  /\ ~resetDue
  /\ \/ StageFiles \/ StageAll \/ Pull \/ SwitchBranch \/ RetryPush \/ FetchRemote
     \/ AskDiscard \/ AutoFetch \/ OpenBranchMenu \/ LoadMore \/ CloseDiff
     \/ \E then \in {"push", "end"} : CommitStaged(then)
     \/ \E page \in Pages : PickCommit(page)
     \/ \E file \in Files : PickFile(file)
     \/ \E t \in {"changes", "history"} : OpenTab(t)

Outside ==
  \/ \E p \in Projects \cup {None} : SwitchProject(p)
  \/ \E p \in Projects : FileChanges(p) \/ PollProject(p)
  \/ \E i \in Reads : ReadGoesWrong(i)

ScmInit ==
  /\ scope \in Scopes /\ moves = 0
  /\ tree = [p \in Projects |-> 0]
  /\ current = scope.opened /\ resetDue = TRUE
  /\ git = IF scope.opened = None THEN EmptyStore
           ELSE refresh(EmptyStore, scope.opened, FALSE, TRUE, FALSE, 0)
  /\ operation = None /\ background = None
  /\ tab = "changes" /\ list = NoList /\ loadingMore = FALSE
  /\ cache = [p \in Projects |-> NoList]
  /\ picked = NoPick /\ pane = EmptyPane
  /\ tasks = [k \in Slots |-> None]
  /\ watcher = [pending |-> FALSE, running |-> FALSE]

ScmNext ==
  \/ \E k \in Busy : Resumes(k)
  \/ /\ Quiet
     /\ \/ moves < scope.moves /\ (UserActs \/ Outside \/ \E k \in Busy : Failures(k))
        \/ ResetPanel \/ TreesRefresh \/ TreesRefreshed \/ PeriodicRefresh
        \/ \E p \in git.timers : TimedRefresh(p)
        \/ \E i \in Reads : git.reads[i] # None /\ ReadAnswers(i)
        \/ \E k \in Busy : Answers(k) \/ Decides(k) \/ CommandRuns(k)

ScmSpec == ScmInit /\ [][ScmNext]_scmVars

\* The backend answers, timers fire and resumed calls go on; the user and the
\* outside need do nothing.
ScmFairness ==
  /\ \A k \in Slots : /\ WF_scmVars(Resumes(k))
                      /\ WF_scmVars(Quiet /\ (Answers(k) \/ CommandRuns(k)))
  /\ \A i \in Reads : WF_scmVars(Quiet /\ ReadAnswers(i))
  /\ \A p \in Projects : WF_scmVars(Quiet /\ TimedRefresh(p))
  /\ WF_scmVars(Quiet /\ ResetPanel)
  /\ WF_scmVars(Quiet /\ (TreesRefresh \/ TreesRefreshed))
  /\ WF_scmVars(Quiet /\ PeriodicRefresh)

FairScmSpec == ScmSpec /\ ScmFairness

----------------------------------------------------------------------------
(* Properties.                                                             *)

\* What a kind of call is made with; the answers to files and diffs are
\* compared with it.
ArgOK(r) ==
  /\ r.kind \in LoadKinds => r.step = "asks"
  /\ r.kind \in {"commits", "more", "files"} => r.arg \in Nat
  /\ r.kind = "diff" => r.arg \in Pick
  /\ r.kind = "stageAll" => r.arg \in Status
  /\ r.kind = "commit" => r.arg \in {"push", "end"}

\* The store, the panel and the calls under way keep their ranges; a call
\* waits for a read or a call that exists.
scmTypeOK ==
  /\ gitTypeOK
  /\ current \in Project /\ resetDue \in BOOLEAN
  /\ operation \in OperationKinds \cup {None} /\ background \in Project
  /\ tab \in {"changes", "history"} /\ loadingMore \in BOOLEAN
  /\ list \in History /\ cache \in [Projects -> History]
  /\ picked \in [hash : Page, rev : Page, file : Files \cup {None}]
  /\ pane \in [remotes : Project, branches : Project,
               files : [of : Projects, rev : Nat] \cup {None},
               diff : [of : Projects, pick : Pick] \cup {None}]
  /\ DOMAIN tasks = Slots
  /\ \A k \in Busy :
       /\ tasks[k].kind \in Kinds /\ tasks[k].path \in Projects /\ tasks[k].step \in Steps
       /\ tasks[k].fresh \in BOOLEAN /\ tasks[k].loads \in BOOLEAN /\ ArgOK(tasks[k])
       /\ tasks[k].step = "read" => git.reads[tasks[k].on] # None
       /\ tasks[k].step = "await" => tasks[k].on \in Busy

\* Once the panel has reset itself, the history it lists, and the cache it
\* lists it from, are of their project, whatever log answers late.
HistoryOfProject ==
  /\ ~resetDue /\ list.of # None => list.of = current
  /\ \A p \in Projects : cache[p].of \in {p, None}

\* The history with the details of a commit beside it.
DetailShown == tab = "history" /\ list.pages # <<>>

\* What the panes show is of the current project and, once the requests that
\* are still current have answered, of the commit and the file picked.
PanesMatch ==
  ~resetDue =>
    /\ pane.remotes \in {current, None} /\ pane.branches \in {current, None}
    /\ pane.files # None =>
         /\ pane.files.of = current
         /\ DetailShown => \/ pane.files.rev = picked.rev
                           \/ \E k \in Running({"files"}) : tasks[k].fresh
    /\ pane.diff # None =>
         /\ pane.diff.of = current
         /\ DetailShown => \/ pane.diff.pick = [rev |-> picked.rev, file |-> picked.file]
                           \/ \E k \in Running({"diff"}) : tasks[k].fresh

\* When files stop changing, the badge of the current project shows its tree,
\* though watch events were missed, reads failed and requests were joined.
BadgeCatchesUp ==
  <>[]("periodic" \in scope.allows /\ current # None
         => git.snapshots[current] = Shown(tree[current]))

\* "Operations that rewrite remote references or switch HEAD must not run
\* beside a background fetch" (SourceControlPanel.tsx:239).
FetchRunsAlone ==
  \A k, l \in Slots :
    /\ tasks[k] # None /\ tasks[k].kind = "auto" /\ tasks[k].step \in {"git", "done"}
    /\ tasks[l] # None /\ tasks[l].kind \in RemoteKinds /\ tasks[l].step \in {"git", "done"}
    => tasks[k].path # tasks[l].path

\* The pages of the history that are listed follow one another.
HistoryUnbroken == \A i \in DOMAIN list.pages : list.pages[i] = i - 1
=============================================================================
