--------------------------- MODULE GitStatusStore ---------------------------
(***************************************************************************)
(* The store of Git working-tree snapshots (src/store/gitStatusStore.ts).  *)
(* One read of a project is in flight at a time; whoever asks meanwhile    *)
(* joins it, and a caller that has just changed files makes it obsolete    *)
(* and has it repeated.  The operations are functions from a state of the  *)
(* store to the next, for their callers run several of them in one turn of *)
(* the event loop; the actions below are the answers to the store's reads  *)
(* and its timers.                                                         *)
(*                                                                         *)
(* A read is a slot of Reads: the promise of the code, which outlives its  *)
(* entry in inFlight when the store is cleared.  The counters in revisions *)
(* are only ever compared for equality with the value a read took when it  *)
(* began, so a read carries the outcome: stale.  asked is a history        *)
(* variable: the tree at the last request that refused older results.      *)
(***************************************************************************)
EXTENDS Naturals, FiniteSets

CONSTANTS Projects, None, Reads, MaxTree

ASSUME GitConstants == /\ None \notin Projects
                       /\ None \notin Reads
                       /\ Reads # {}
                       /\ MaxTree \in Nat

VARIABLES git,   \* the store
          tree   \* [Projects -> 0 .. MaxTree], the working trees on disk

gitVars == <<git, tree>>

Versions == 0 .. MaxTree

\* A snapshot says whether there is a repository, and of which tree; sure is
\* FALSE for one the panel predicted or put back.
Status == [repo : BOOLEAN, sure : BOOLEAN, ver : Versions]
Shown(v) == [repo |-> TRUE, sure |-> TRUE, ver |-> v]
Guess(v) == [repo |-> TRUE, sure |-> FALSE, ver |-> v]
NotRepository == [repo |-> FALSE, sure |-> FALSE, ver |-> 0]
MaybeStatus == Status \cup {None}
IsRead(b) == b # None /\ b.sure
TreeRead(b) == b.ver

Phases == {"workdir", "full", "confirm", "head"}
ReadState == [path : Projects, phase : Phases, again : BOOLEAN,
              full : BOOLEAN, stale : BOOLEAN, start : Versions]

GitState ==
  [projectPath : Projects \cup {None}, refreshing : BOOLEAN,
   snapshots : [Projects -> MaybeStatus], shown : MaybeStatus,
   inFlight : [Projects -> Reads \cup {None}],
   reads : [Reads -> ReadState \cup {None}],
   timers : SUBSET Projects, asked : [Projects -> Versions]]

\* A slot that holds no read is told from one that does.
ASSUME NoneIsNoRead == None \notin ReadState

EmptyStore ==
  [projectPath |-> None, refreshing |-> FALSE,
   snapshots |-> [p \in Projects |-> None], shown |-> None,
   inFlight |-> [p \in Projects |-> None],
   reads |-> [i \in Reads |-> None],
   timers |-> {}, asked |-> [p \in Projects |-> 0]]

----------------------------------------------------------------------------
(* The operations of the store.                                            *)

publish(g, p, status) ==
  [g EXCEPT !.snapshots[p] = status,
            !.shown = IF g.projectPath = p THEN status ELSE @]

\* Mutant: the spinner stays as the previous project left it.
activate_keepsSpinner(g, p) ==
  IF g.projectPath = p THEN g
  ELSE [g EXCEPT !.projectPath = p, !.shown = g.snapshots[p]]

activate(g, p) ==
  IF g.projectPath = p THEN g
  ELSE [g EXCEPT !.projectPath = p,
                 !.shown = g.snapshots[p],
                 !.refreshing = g.inFlight[p] # None]

\* The reads go on, but no longer belong to the store.
clear(g) ==
  [g EXCEPT !.projectPath = None, !.refreshing = FALSE, !.shown = None,
            !.snapshots = [p \in Projects |-> None],
            !.inFlight = [p \in Projects |-> None],
            !.timers = {}]

\* What bumping the revision of p means for the read in flight.
Outdate(g, p) ==
  IF g.inFlight[p] = None THEN g
  ELSE [g EXCEPT !.reads[g.inFlight[p]].stale = TRUE]

applyFromGitStatus(g, p, status) ==
  LET a == activate(g, p)
  IN  publish(Outdate([a EXCEPT !.timers = @ \ {p}], p), p, status)

clearPanelStatus(g, p) == [g EXCEPT !.snapshots[p] = None]

\* Only a status with other changes outdates the read in flight: filling in
\* the branch keeps the array of changes.
setPanelStatus(g, p, status, sameChanges) ==
  LET a == IF g.projectPath = None THEN activate(g, p) ELSE g
  IN  publish(IF sameChanges THEN a ELSE Outdate(a, p), p, status)

FreeReads(g) == {i \in Reads : g.reads[i] = None}

BeginRead(p, full, now) ==
  [path |-> p, phase |-> IF full THEN "full" ELSE "workdir",
   again |-> FALSE, full |-> full, stale |-> FALSE, start |-> now]

\* Mutant: joining has the read repeated, and lets it be shown all the same.
JoinRead_keepsRevision(g, p, reuseInFlight, full, now) ==
  LET i == g.inFlight[p]
      force == ~reuseInFlight \/ (full /\ ~g.reads[i].full)
  IN  [g EXCEPT !.reads[i].again = @ \/ force,
                !.reads[i].full = @ \/ full,
                !.asked[p] = IF force THEN now ELSE @]

\* Joining a read: a request that refuses older results has it repeated.
JoinRead(g, p, reuseInFlight, full, now) ==
  LET r == g.reads[g.inFlight[p]]
      force == ~reuseInFlight \/ (full /\ ~r.full)
  IN  [g EXCEPT !.reads[g.inFlight[p]] = [r EXCEPT !.again = @ \/ force,
                                                   !.stale = @ \/ force,
                                                   !.full = @ \/ full],
                !.asked[p] = IF force THEN now ELSE @]

StartRead(g, p, full, now, i) ==
  [g EXCEPT !.inFlight[p] = i,
            !.reads[i] = BeginRead(p, full, now),
            !.refreshing = @ \/ g.projectPath = p,
            !.asked[p] = now]

\* refresh, in the turn of the event loop in which it is called.
refresh(g, p, background, reuseInFlight, full, now) ==
  LET a == IF background THEN g ELSE activate(g, p)
  IN  IF a.inFlight[p] # None THEN JoinRead(a, p, reuseInFlight, full, now)
      ELSE StartRead(a, p, full, now, CHOOSE i \in FreeReads(a) : TRUE)

\* A call that would start a read finds a slot for it (bound on the slots).
CanRefresh(g, p) == g.inFlight[p] # None \/ FreeReads(g) # {}

\* scheduleRefresh replaces the project's timer; how long it runs is left open.
scheduleRefresh(g, p) == IF p = None THEN g ELSE [g EXCEPT !.timers = @ \cup {p}]

----------------------------------------------------------------------------
(* The loop of a read, between two answers.                                *)

IsCurrent(g, i) ==
  g.inFlight[g.reads[i].path] = i /\ ~g.reads[i].stale

\* The promise settles; only the read that still holds the entry removes it.
EndRead(g, i) ==
  LET p == g.reads[i].path
      own == g.inFlight[p] = i
  IN  [g EXCEPT !.reads[i] = None,
                !.inFlight[p] = IF own THEN None ELSE @,
                !.refreshing = @ /\ ~(own /\ g.projectPath = p)]

\* `continue`, or the end of the body: the loop's condition decides.
LoopOrEnd(g, i, now) ==
  LET r == g.reads[i]
  IN  IF r.again /\ g.inFlight[r.path] = i
      THEN [g EXCEPT !.reads[i] = BeginRead(r.path, r.full, now)]
      ELSE EndRead(g, i)

\* Publish what was read, then ask for HEAD when the answer had no branch.
PublishRead(g, i, status, needsHead, now) ==
  LET shown == publish(g, g.reads[i].path, status)
  IN  IF needsHead THEN [shown EXCEPT !.reads[i].phase = "head"]
      ELSE LoopOrEnd(shown, i, now)

\* The working-tree read answers with a list of changes ...
WorkdirAnswers(i, ver, needsHead) ==
  /\ git.reads[i] # None /\ git.reads[i].phase = "workdir"
  /\ ver \in git.reads[i].start .. tree[git.reads[i].path]
  /\ git' = IF IsCurrent(git, i)
            THEN PublishRead(git, i, Shown(ver), needsHead, tree[git.reads[i].path])
            ELSE LoopOrEnd(git, i, tree[git.reads[i].path])

\* ... or with nothing: a repository known before is confirmed by a full
\* read, anything else is taken to be no repository.
WorkdirAnswersNull(i) ==
  /\ git.reads[i] # None /\ git.reads[i].phase = "workdir"
  /\ LET p == git.reads[i].path
     IN  git' = IF ~IsCurrent(git, i) THEN LoopOrEnd(git, i, tree[p])
                ELSE IF git.snapshots[p] # None /\ git.snapshots[p].repo
                THEN [git EXCEPT !.reads[i].phase = "confirm"]
                ELSE PublishRead(git, i, NotRepository, FALSE, tree[p])

\* getGitStatus answers, for a full read or for a confirmation.
StatusAnswers(i, ver, needsHead) ==
  /\ git.reads[i] # None /\ git.reads[i].phase \in {"full", "confirm"}
  /\ needsHead => git.reads[i].phase = "confirm"
  /\ ver \in git.reads[i].start .. tree[git.reads[i].path]
  /\ git' = IF IsCurrent(git, i)
            THEN PublishRead(git, i, Shown(ver), needsHead, tree[git.reads[i].path])
            ELSE LoopOrEnd(git, i, tree[git.reads[i].path])

\* ... or finds no repository.
NoRepositoryAnswers(i) ==
  /\ git.reads[i] # None /\ git.reads[i].phase \in {"full", "confirm"}
  /\ LET p == git.reads[i].path
     IN  git' = IF IsCurrent(git, i) THEN PublishRead(git, i, NotRepository, FALSE, tree[p])
                ELSE LoopOrEnd(git, i, tree[p])

\* HEAD answers or fails; a branch goes into whatever is shown by then.
HeadAnswers(i) ==
  /\ git.reads[i] # None /\ git.reads[i].phase = "head"
  /\ git' = LoopOrEnd(git, i, tree[git.reads[i].path])

\* A failed full read ends the loop whatever was asked meanwhile; the other
\* failures keep the snapshot and leave the loop's condition to decide.
ReadFails(i) ==
  /\ git.reads[i] # None /\ git.reads[i].phase \in {"workdir", "full", "confirm"}
  /\ git' = IF git.reads[i].phase = "full" THEN EndRead(git, i)
            ELSE LoopOrEnd(git, i, tree[git.reads[i].path])

ReadStep(i) ==
  \/ \E ver \in Versions, needsHead \in BOOLEAN :
       WorkdirAnswers(i, ver, needsHead) \/ StatusAnswers(i, ver, needsHead)
  \/ WorkdirAnswersNull(i)
  \/ NoRepositoryAnswers(i)
  \/ HeadAnswers(i)
  \/ ReadFails(i)

\* A timer fires: a background refresh, which never activates its project.
TimerFires(p) ==
  /\ p \in git.timers
  /\ CanRefresh(git, p)
  /\ git' = refresh([git EXCEPT !.timers = @ \ {p}], p, TRUE, FALSE, FALSE, tree[p])

----------------------------------------------------------------------------
(* The store under any callers.                                            *)

Calls(p) ==
  \/ git' = activate(git, p)
  \/ git' = clear(git)
  \/ \E ver \in Versions : git' = applyFromGitStatus(git, p, Guess(ver))
  \/ \E ver \in Versions : git' = setPanelStatus(git, p, Guess(ver), FALSE)
  \/ /\ git.snapshots[p] # None
     /\ git' = setPanelStatus(git, p, git.snapshots[p], TRUE)
  \/ git' = clearPanelStatus(git, p)
  \/ git' = scheduleRefresh(git, p)
  \/ /\ CanRefresh(git, p)
     /\ \E background, reuseInFlight, full \in BOOLEAN :
          git' = refresh(git, p, background, reuseInFlight, full, tree[p])

TreeChanges(p) ==
  /\ tree[p] < MaxTree
  /\ tree' = [tree EXCEPT ![p] = @ + 1]
  /\ UNCHANGED git

GitInit == git = EmptyStore /\ tree = [p \in Projects |-> 0]

GitNext ==
  \/ \E i \in Reads : ReadStep(i) /\ UNCHANGED tree
  \/ \E p \in Projects : (TimerFires(p) \/ Calls(p)) /\ UNCHANGED tree
  \/ \E p \in Projects : TreeChanges(p)

GitSpec == GitInit /\ [][GitNext]_gitVars

----------------------------------------------------------------------------
(* Properties.                                                             *)

\* The store's fields keep their ranges.
gitTypeOK == git \in GitState /\ tree \in [Projects -> Versions]

\* An entry of inFlight is a running read of that project: what makes it
\* sound to join it, and to compare the entry for identity after an await.
EntriesAreReads ==
  \A p \in Projects : git.inFlight[p] # None =>
    /\ git.reads[git.inFlight[p]] # None
    /\ git.reads[git.inFlight[p]].path = p

\* The spinner turns exactly while the active project is being read, through
\* switches, clears and reads that end for another project.
RefreshingIsReading ==
  git.refreshing <=> /\ git.projectPath # None
                     /\ git.inFlight[git.projectPath] # None

\* A read that may still be published began no earlier than the last request
\* that refused older results.
PublishableIsFresh ==
  \A p \in Projects :
    LET i == git.inFlight[p]
    IN  i # None /\ git.reads[i] # None /\ ~git.reads[i].stale
          => git.asked[p] <= git.reads[i].start

\* After files were changed, a badge never goes through the result of a read
\* that began before: the store implements FreshBadge.
Badge == INSTANCE FreshBadge
  WITH tree <- tree, asked <- git.asked, badge <- git.snapshots,
       Badges <- MaybeStatus, Certain <- IsRead, TreeOf <- TreeRead
BadgesStayFresh == Badge!BadgeSpec
=============================================================================
