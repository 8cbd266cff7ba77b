--------------------------- MODULE Terminals_proofs ---------------------------
(***************************************************************************)
(* What holds of the terminal tabs of a window for any number of           *)
(* terminals and panes, any limits and any scopes: the types, that an exit *)
(* of the application waits for calls that are under way and for nothing   *)
(* else, and that a pane shows its own terminals; then that a tab that     *)
(* says it runs has a session, that no session is left without a tab, and  *)
(* that the exit of the application leaves none.                           *)
(***************************************************************************)
EXTENDS Terminals, SequenceTheorems, TLAPS

----------------------------------------------------------------------------
(* Calls that begin, are answered, and whose answers are taken.          *)

LEMMA InboxHead ==
  ASSUME inbox \in Seq(Message), inbox # <<>>
  PROVE  /\ Head(inbox) \in Message /\ Tail(inbox) \in Seq(Message)
         /\ Range(inbox) = {Head(inbox)} \cup Range(Tail(inbox))
<1>1. /\ Head(inbox) \in Message /\ Tail(inbox) \in Seq(Message)
      /\ Len(inbox) \in Nat \ {0} /\ Len(Tail(inbox)) = Len(inbox) - 1
      /\ Head(inbox) = inbox[1]
      /\ \A i \in 1 .. Len(Tail(inbox)) : Tail(inbox)[i] = inbox[i + 1]
  BY HeadTailProperties, EmptySeq
<1>2. /\ Range(inbox) = {inbox[i] : i \in 1 .. Len(inbox)}
      /\ Range(Tail(inbox)) = {Tail(inbox)[i] : i \in 1 .. Len(Tail(inbox))}
  BY <1>1, RangeEquality, ZenonT(60)
<1>3. Range(inbox) \subseteq {Head(inbox)} \cup Range(Tail(inbox))
  <2>1. SUFFICES ASSUME NEW i \in 1 .. Len(inbox), i # 1
                 PROVE  inbox[i] \in Range(Tail(inbox))
    BY <1>1, <1>2
  <2>2. i - 1 \in 1 .. Len(Tail(inbox)) /\ inbox[i] = Tail(inbox)[i - 1]
    BY <1>1, <2>1
  <2>3. QED
    BY <1>2, <2>2
<1>4. {Head(inbox)} \cup Range(Tail(inbox)) \subseteq Range(inbox)
  BY <1>1, <1>2
<1>5. QED
  BY <1>1, <1>3, <1>4

LEMMA InboxAppend ==
  ASSUME inbox \in Seq(Message), NEW m \in Message
  PROVE  Append(inbox, m) \in Seq(Message) /\ Range(Append(inbox, m)) = Range(inbox) \cup {m}
<1> DEFINE longer == Append(inbox, m)
<1>1. /\ longer \in Seq(Message) /\ Len(inbox) \in Nat /\ Len(longer) = Len(inbox) + 1
      /\ longer[Len(inbox) + 1] = m /\ \A i \in 1 .. Len(inbox) : longer[i] = inbox[i]
  BY AppendProperties, LenProperties
<1>2. /\ Range(inbox) = {inbox[i] : i \in 1 .. Len(inbox)}
      /\ Range(longer) = {longer[i] : i \in 1 .. Len(longer)}
  BY <1>1, RangeEquality
<1> HIDE DEF longer
<1>3. Range(longer) = Range(inbox) \cup {m}
  BY <1>1, <1>2
<1>4. QED
  BY <1>1, <1>3 DEF longer

LEMMA NewCallsType ==
  ASSUME NEW job \in Jobs, NEW ids, ids \subseteq Ids, CanCall(job, ids)
  PROVE  NewCalls(job, ids) \subseteq Request
<1>1. SUFFICES ASSUME NEW id \in ids
               PROVE  [job |-> job, id |-> id, begun |-> FALSE, astray |-> Astray(job, id),
                       n |-> CHOOSE n \in Unused(job, id) : TRUE] \in Request
  BY DEF NewCalls
<1>2. (CHOOSE n \in Unused(job, id) : TRUE) \in 1 .. Twice
  BY DEF CanCall, Unused
<1>3. Astray(job, id) \in BOOLEAN
  BY DEF Astray
<1>4. QED
  BY <1>2, <1>3 DEF Request

\* A call of this job for each of ids begins.
LEMMA CallsBegin ==
  ASSUME NEW job, NEW ids, requests' = requests \cup NewCalls(job, ids), inbox' = inbox
  PROVE  \A jobs : Busy(jobs)' = Busy(jobs) \cup (IF job \in jobs THEN ids ELSE {})
<1>1. Calls' = Calls \cup NewCalls(job, ids)
  BY DEF Calls, Told
<1>2. \A c \in NewCalls(job, ids) : c.job = job /\ c.id \in ids
  BY DEF NewCalls
<1>3. \A id \in ids : \E c \in NewCalls(job, ids) : c.job = job /\ c.id = id
  <2>1. TAKE id \in ids
  <2> DEFINE c == [job |-> job, id |-> id, begun |-> FALSE, astray |-> Astray(job, id),
                   n |-> CHOOSE n \in Unused(job, id) : TRUE]
  <2>2. c \in NewCalls(job, ids)
    BY DEF NewCalls
  <2>3. c.job = job /\ c.id = id
    OBVIOUS
  <2>4. QED
    BY <2>2, <2>3
<1>4. QED
  BY <1>1, <1>2, <1>3 DEF Busy

LEMMA CallsMade ==
  ASSUME NEW job, NEW ids, NewCalls(job, ids) \subseteq requests'
  PROVE  \A jobs : job \in jobs => ids \subseteq Busy(jobs)'
<1>1. SUFFICES ASSUME NEW jobs, job \in jobs, NEW id \in ids PROVE id \in Busy(jobs)'
  OBVIOUS
<1> DEFINE c == [job |-> job, id |-> id, begun |-> FALSE, astray |-> Astray(job, id),
                 n |-> CHOOSE n \in Unused(job, id) : TRUE]
<1>2. c \in Calls'
  BY DEF NewCalls, Calls
<1>3. c.job = job /\ c.id = id
  OBVIOUS
<1> HIDE DEF c
<1>4. QED
  BY <1>1, <1>2, <1>3 DEF Busy

\* The call r is answered.
LEMMA CallAnswered ==
  ASSUME NEW r \in requests, NEW result, inbox \in Seq(Message), Answer(r, result) \in Message,
         requests' = requests \ {r}, inbox' = Append(inbox, Answer(r, result))
  PROVE  \A jobs : Busy(jobs)' = Busy(jobs)
<1>1. Calls' \cup {r} = Calls \cup {Answer(r, result)} /\ r \in Calls /\ Answer(r, result) \in Calls'
  BY InboxAppend DEF Calls, Told
<1>2. Answer(r, result).job = r.job /\ Answer(r, result).id = r.id
  BY DEF Answer
<1>3. QED
  BY <1>1, <1>2 DEF Busy

\* The store takes an answer, and may make calls.
LEMMA AnswerTaken ==
  ASSUME NEW job, NEW results, Receive(job, results), inbox \in Seq(Message),
         requests \subseteq requests'
  PROVE  /\ \A jobs : Busy(jobs) \subseteq Busy(jobs)' \cup {Subject}
         /\ \A jobs : job \notin jobs => Busy(jobs) \subseteq Busy(jobs)'
         /\ Subject \in Busy({job})
<1>1. /\ Head(inbox).job = job /\ Range(inbox) = {Head(inbox)} \cup Range(inbox')
  BY InboxHead DEF Receive
<1>2. Calls \subseteq Calls' \cup {Head(inbox)} /\ Head(inbox) \in Calls
  BY <1>1 DEF Calls, Told
<1>3. QED
  BY <1>1, <1>2 DEF Busy, Subject

\* What the calls of a step are that takes an answer, makes calls for ids, or makes none.
LEMMA AnswerTakenOnly ==
  ASSUME NEW job, NEW results, Receive(job, results), inbox \in Seq(Message),
         NEW called, NEW ids, requests' = requests \/ requests' = requests \cup NewCalls(called, ids)
  PROVE  \A jobs : called \notin jobs => Busy(jobs)' \subseteq Busy(jobs)
<1>1. Range(inbox) = {Head(inbox)} \cup Range(inbox')
  BY InboxHead DEF Receive
<1>2. Calls' \subseteq Calls \cup NewCalls(called, ids)
  BY <1>1 DEF Calls, Told
<1>3. \A c \in NewCalls(called, ids) : c.job = called
  BY DEF NewCalls
<1>4. QED
  BY <1>2, <1>3 DEF Busy

\* The backend answers a call, begins to serve one, or tells the end of a shell.
LEMMA BackendKeepsCalls ==
  ASSUME inbox \in Seq(Message), requests \subseteq Request, Backend
  PROVE  \A jobs : "exited" \notin jobs => Busy(jobs)' = Busy(jobs)
<1>1. \A r \in requests, result \in Results : Answer(r, result) \in Message
  BY DEF Answer, Message, Request
<1>2. ASSUME NEW r \in requests,
             \/ CreateServed(r) \/ CreateRefused(r) \/ KillServed(r) \/ KillEnds(r)
             \/ CloseOfSessionFails(r) \/ KillRefused(r) \/ KillGraceful(r)
             \/ terminal_session_open(r) \/ CheckFails(r)
      PROVE  \A jobs : Busy(jobs)' = Busy(jobs)
  <2>1. requests' = requests \ {r}
    BY <1>2 DEF CreateServed, CreateRefused, KillServed, KillEnds, CloseOfSessionFails,
                KillRefused, KillGraceful, terminal_session_open, CheckFails
  <2>2. PICK result \in Results : inbox' = Append(inbox, Answer(r, result))
    BY <1>2 DEF CreateServed, CreateRefused, KillServed, KillEnds, CloseOfSessionFails,
                KillRefused, KillGraceful, terminal_session_open, CheckFails, Results
  <2>3. QED
    BY <1>1, <2>1, <2>2, CallAnswered
<1>3. ASSUME NEW r \in requests, KillBegins(r)
      PROVE  \A jobs : Busy(jobs)' = Busy(jobs)
  <2> DEFINE q == [r EXCEPT !.begun = TRUE]
  <2>1. q.job = r.job /\ q.id = r.id
    BY DEF Request
  <2>2. Calls' \cup {r} = Calls \cup {q} /\ r \in Calls /\ q \in Calls'
    BY <1>3 DEF KillBegins, Calls, Told
  <2>3. QED
    BY <2>1, <2>2 DEF Busy
<1>4. ASSUME NEW id \in Ids, NEW how \in {"ended", "cut"}, ShellEnds(id, how)
      PROVE  \A jobs : "exited" \notin jobs => Busy(jobs)' = Busy(jobs)
  <2> DEFINE m == [job |-> "exited", id |-> id, n |-> 1, result |-> how]
  <2>1. m \in Message
    BY TerminalConstants DEF Message, Results
  <2>2. Calls' = Calls \cup {m} /\ m.job = "exited"
    BY <1>4, <2>1, InboxAppend DEF ShellEnds, backendFrame, Calls, Told
  <2>3. QED
    BY <2>2 DEF Busy
<1>5. ASSUME NEW id \in Ids, ForcedToEnd(id)
      PROVE  \A jobs : Busy(jobs)' = Busy(jobs)
  BY <1>5 DEF ForcedToEnd, Busy, Calls, Told
<1>6. QED
  BY <1>2, <1>3, <1>4, <1>5 DEF Backend

----------------------------------------------------------------------------
(* Types. *)

LEMMA SubjectType ==
  ASSUME termTypeOK, NEW job, NEW results, Receive(job, results)
  PROVE  Subject \in Ids /\ inbox' \in Seq(Message)
BY InboxHead DEF termTypeOK, Receive, Subject, Message

LEMMA AnswerType ==
  ASSUME termTypeOK, NEW r \in requests, NEW result \in Results
  PROVE  Answer(r, result) \in Message /\ Append(inbox, Answer(r, result)) \in Seq(Message)
<1>1. Answer(r, result) \in Message
  BY DEF termTypeOK, Answer, Message, Request
<1>2. QED
  BY <1>1, InboxAppend DEF termTypeOK

LEMMA NoticedType ==
  ASSUME termTypeOK, NEW ids
  PROVE  Noticed(ids) \in [Ids -> {"no", "watching", "changed", "restarts"}]
BY DEF termTypeOK, Noticed

LEMMA PaneType ==
  ASSUME termTypeOK, NEW pane \in Panes, NEW id \in Ids \cup {None}
  PROVE  bindTerminalToPane(pane, id) \in [Panes -> Ids \cup {None}]
BY DEF termTypeOK, bindTerminalToPane

\* What the handlers make of a tab.
LEMMA TabType ==
  ASSUME NEW tab \in Tab, NEW status \in {"starting", "running", "exited"}, NEW pending \in BOOLEAN
  PROVE  /\ [tab EXCEPT !.pending = pending] \in Tab
         /\ [tab EXCEPT !.status = status] \in Tab
         /\ [tab EXCEPT !.task = FALSE] \in Tab
         /\ [tab EXCEPT !.status = status, !.pending = pending] \in Tab
         /\ [tab EXCEPT !.status = status, !.restored = FALSE, !.pending = pending] \in Tab
<1>1. DOMAIN tab = {"status", "pending", "restored", "task", "pane"}
  BY DEF Tab
<1>2. QED
  BY <1>1 DEF Tab

LEMMA WithType ==
  ASSUME tabs \in [Live -> Tab], NEW id, NEW tab, id \in Live => tab \in Tab
  PROVE  With(id, tab) \in [Live -> Tab]
BY DEF With, Live

LEMMA EndedType ==
  ASSUME tabs \in [Live -> Tab], NEW id
  PROVE  Ended(id) \in [Live -> Tab]
BY TabType, WithType DEF Ended

LEMMA CreatedType ==
  ASSUME NEW L, NEW newTabs \in [L -> Tab], NEW ids
  PROVE  Created(ids, newTabs) \in [L -> Tab] /\ DOMAIN Created(ids, newTabs) = L
<1>1. \A id \in L : [newTabs[id] EXCEPT !.pending = FALSE] \in Tab
  BY TabType
<1>2. QED
  BY <1>1 DEF Created

LEMMA TypeInit == Init => termTypeOK
<1>1. SUFFICES ASSUME Init PROVE termTypeOK
  OBVIOUS
<1>2. opened \subseteq Ids /\ Live = opened /\ tabs \in [Live -> Tab] /\ shells \subseteq Ids
  BY <1>1, TerminalConstants DEF Init, Live, Tab
<1>3. shown \in [Panes -> Ids \cup {None}]
  BY <1>1, <1>2 DEF Init
<1>4. QED
  BY <1>1, <1>2, <1>3, TerminalConstants, EmptySeq DEF Init, termTypeOK

LEMMA TypeNewTabs ==
  ASSUME termTypeOK, NEW id \in Ids, NEW task \in BOOLEAN,
         addScriptTerminal(id, task) \/ addTerminal \/ ProfileTrusted(id) \/ ProfileRefused
  PROVE  termTypeOK'
<1>1. CASE addTerminal \/ ProfileRefused
  BY <1>1 DEF termTypeOK, addTerminal, ProfileRefused, Live, paneVars, exitVars, ghosts
<1>2. ASSUME NEW t \in BOOLEAN, NewTab(id, t)
      PROVE  /\ opened' \subseteq Ids /\ Live' \subseteq opened' /\ tabs' \in [Live' -> Tab]
             /\ shown' \in [Panes -> Ids \cup {None}]
             /\ checks' \in [Ids -> {"no", "watching", "changed", "restarts"}]
  <2>1. shown' \in [Panes -> Ids \cup {None}]
    BY <1>2, PaneType DEF NewTab, termTypeOK
  <2>2. checks' \in [Ids -> {"no", "watching", "changed", "restarts"}]
    BY <1>2, NoticedType DEF NewTab, Put
  <2>3. opened' \subseteq Ids /\ Live' \subseteq opened' /\ tabs' \in [Live' -> Tab]
    BY <1>2 DEF NewTab, Put, termTypeOK, Live, Tab
  <2>4. QED
    BY <2>1, <2>2, <2>3
<1>3. CASE addScriptTerminal(id, task)
  BY <1>2, <1>3 DEF addScriptTerminal, termTypeOK, exitVars, ghosts
<1>4. CASE ProfileTrusted(id)
  BY <1>2, <1>4 DEF ProfileTrusted, termTypeOK, Live, exitVars, ghosts
<1>5. QED
  BY <1>1, <1>3, <1>4

LEMMA TypeSpawns ==
  ASSUME termTypeOK, NEW id \in Ids,
         \/ spawnPendingTerminal(id) \/ spawnRestoredTerminals
         \/ Spawned \/ SpawnCancelled \/ SpawnFailed \/ CancelAnswered
  PROVE  termTypeOK'
<1>1. CASE spawnPendingTerminal(id)
  <2>1. requests' \subseteq Request
    BY <1>1, NewCallsType DEF spawnPendingTerminal, termTypeOK, Jobs
  <2>2. checks' \in [Ids -> {"no", "watching", "changed", "restarts"}]
    BY <1>1, NoticedType DEF spawnPendingTerminal, Put
  <2>3. tabs' \in [Live' -> Tab] /\ Live' = Live
    BY <1>1, CreatedType DEF spawnPendingTerminal, Put, termTypeOK, Live
  <2>4. QED
    BY <1>1, <2>1, <2>2, <2>3 DEF spawnPendingTerminal, Routed, termTypeOK, paneVars, exitVars,
                                       ghosts
<1>2. CASE spawnRestoredTerminals
  <2> DEFINE ids == {i \in Live : tabs[i].restored} \ Busy({"create"})
             now == IF exit = "open" THEN ids \ held.spawns ELSE {}
             starting == [i \in Live |-> IF i \in ids
                            THEN [tabs[i] EXCEPT !.status = "starting", !.pending = TRUE]
                            ELSE tabs[i]]
  <2>1. now \subseteq Ids /\ CanCall("create", now)
    <3>1. SUFFICES ASSUME NEW i \in now PROVE i \in Ids /\ 1 \in Unused("create", i)
      BY DEF CanCall
    <3>2. \A c \in Calls : c.job = "create" => c.id # i
      BY <3>1 DEF Busy
    <3>3. QED
      BY <3>2, TerminalConstants DEF Unused, termTypeOK
  <2>2. requests' \subseteq Request
    BY <1>2, <2>1, NewCallsType DEF spawnRestoredTerminals, termTypeOK, Jobs
  <2>3. checks' \in [Ids -> {"no", "watching", "changed", "restarts"}]
    BY <1>2, NoticedType DEF spawnRestoredTerminals, Put
  <2>4. starting \in [Live -> Tab]
    BY TabType DEF termTypeOK
  <2>5. tabs' \in [Live' -> Tab] /\ Live' = Live
    BY <1>2, <2>4, CreatedType DEF spawnRestoredTerminals, Put, Live
  <2>6. held' \in [spawns : SUBSET Ids, kills : SUBSET Ids, restarts : SUBSET Ids]
    BY <1>2, <2>1 DEF spawnRestoredTerminals, termTypeOK
  <2>7. routed' \subseteq Ids
    BY <1>2, <2>1 DEF spawnRestoredTerminals, Routed, termTypeOK
  <2>8. QED
    BY <1>2, <2>2, <2>3, <2>5, <2>6, <2>7
    DEF spawnRestoredTerminals, termTypeOK, paneVars, exitVars, ghosts
<1>3. CASE Spawned
  <2>1. Subject \in Ids /\ inbox' \in Seq(Message)
    BY <1>3, SubjectType DEF Spawned
  <2>2. checks' \in [Ids -> {"no", "watching", "changed", "restarts"}]
    BY <1>3, NoticedType DEF Spawned, Put
  <2>3. tabs' \in [Live' -> Tab] /\ Live' = Live
    <3>1. tabs' = [tabs EXCEPT ![Subject] = [@ EXCEPT !.status = "running", !.restored = FALSE,
                                                      !.pending = FALSE]]
      BY <1>3 DEF Spawned, Put
    <3>2. QED
      BY <1>3, <3>1, TabType DEF Spawned, termTypeOK, Live
  <2>4. QED
    BY <1>3, <2>1, <2>2, <2>3 DEF Spawned, termTypeOK, paneVars, exitVars, ghosts
<1>4. CASE SpawnCancelled
  <2>1. Subject \in Ids /\ inbox' \in Seq(Message)
    BY <1>4, SubjectType DEF SpawnCancelled
  <2>2. requests' \subseteq Request
    BY <1>4, <2>1, NewCallsType DEF SpawnCancelled, termTypeOK, Jobs
  <2>3. QED
    BY <1>4, <2>1, <2>2 DEF SpawnCancelled, termTypeOK, Live, storeVars, exitVars, ghosts
<1>5. CASE SpawnFailed
  <2>1. Subject \in Ids /\ inbox' \in Seq(Message)
    BY <1>5, SubjectType DEF SpawnFailed
  <2>2. checks' \in [Ids -> {"no", "watching", "changed", "restarts"}]
    BY <1>5, NoticedType DEF SpawnFailed, Put
  <2>3. tabs' \in [Live' -> Tab] /\ Live' = Live
    BY <1>5, EndedType DEF SpawnFailed, Put, termTypeOK, Live
  <2>4. QED
    BY <1>5, <2>1, <2>2, <2>3 DEF SpawnFailed, termTypeOK, paneVars, exitVars, ghosts
<1>6. CASE CancelAnswered
  BY <1>6, SubjectType DEF CancelAnswered, RoutedAfterKill, termTypeOK, Live, paneVars, exitVars
<1>7. QED
  BY <1>1, <1>2, <1>3, <1>4, <1>5, <1>6

LEMMA RemoveType ==
  ASSUME termTypeOK, NEW id, RemoveTab(id)
  PROVE  /\ tabs' \in [Live' -> Tab] /\ Live' \subseteq Live
         /\ shown' \in [Panes -> Ids \cup {None}]
         /\ checks' \in [Ids -> {"no", "watching", "changed", "restarts"}]
BY NoticedType DEF RemoveTab, Put, Restrict, termTypeOK, Live

LEMMA FinishType ==
  ASSUME termTypeOK, NEW b \in BulkClose, FinishBulk(b)
  PROVE  /\ tabs' \in [Live' -> Tab] /\ Live' \subseteq Live
         /\ shown' \in [Panes -> Ids \cup {None}] /\ focus' \in Panes
         /\ checks' \in [Ids -> {"no", "watching", "changed", "restarts"}]
         /\ bulk' \in BulkClose \cup {NoBulk}
<1>1. /\ b.pane \in Panes /\ b.keep \in Ids \cup {None}
      /\ bindTerminalToPane(b.pane, b.keep) \in [Panes -> Ids \cup {None}]
  BY PaneType DEF BulkClose
<1>2. clearProjectPaneMaps(b.ids) \in [Panes -> Ids \cup {None}]
  BY DEF clearProjectPaneMaps, termTypeOK
<1>3. QED
  BY <1>1, <1>2, NoticedType DEF FinishBulk, Put, Restrict, termTypeOK, Live

LEMMA TypeCloses ==
  ASSUME termTypeOK, Busy({"bulk"}) # {} => bulk # NoBulk, NEW id \in Ids,
         \/ closeTerminal(id) \/ Closed \/ CloseFailed
         \/ closeAllProjectTerminals \/ closeOtherTerminals(id) \/ BulkAnswered
  PROVE  termTypeOK'
<1>1. CASE closeTerminal(id)
  <2>1. requests' \subseteq Request
    <3>1. Killed({id}) \subseteq {id}
      BY DEF Killed
    <3>2. CanCall("close", Killed({id}))
      BY <1>1, <3>1 DEF closeTerminal, CanCall
    <3>3. QED
      BY <1>1, <3>1, <3>2, NewCallsType DEF closeTerminal, termTypeOK, Jobs
  <2>2. /\ tabs' \in [Live' -> Tab] /\ Live' \subseteq Live
        /\ shown' \in [Panes -> Ids \cup {None}]
        /\ checks' \in [Ids -> {"no", "watching", "changed", "restarts"}]
    BY <1>1, RemoveType DEF closeTerminal, termTypeOK, Live
  <2>3. QED
    BY <1>1, <2>1, <2>2 DEF closeTerminal, Claim, termTypeOK, exitVars, ghosts
<1>2. CASE Closed
  BY <1>2, SubjectType, RemoveType DEF Closed, termTypeOK, exitVars, ghosts
<1>3. CASE CloseFailed
  BY <1>3, SubjectType DEF CloseFailed, termTypeOK, Live, paneVars, exitVars
<1>4. ASSUME NEW b \in BulkClose, BeginBulk(b)
      PROVE  termTypeOK'
  <2>1. Killed(b.ids) \subseteq b.ids /\ b.ids \subseteq Ids
    BY DEF Killed, BulkClose
  <2>2. requests' \subseteq Request
    <3>1. CanCall("bulk", Killed(b.ids))
      BY <1>4, <2>1 DEF BeginBulk, CanCall
    <3>2. QED
      BY <1>4, <2>1, <3>1, NewCallsType DEF BeginBulk, termTypeOK, Jobs
  <2>3. /\ tabs' \in [Live' -> Tab] /\ Live' \subseteq Live
        /\ shown' \in [Panes -> Ids \cup {None}] /\ focus' \in Panes
        /\ checks' \in [Ids -> {"no", "watching", "changed", "restarts"}]
        /\ bulk' \in BulkClose \cup {NoBulk}
    BY <1>4, FinishType DEF BeginBulk, termTypeOK, Live
  <2>4. QED
    BY <1>4, <2>1, <2>2, <2>3 DEF BeginBulk, Claim, termTypeOK, exitVars
<1>5. CASE closeAllProjectTerminals
  <2>1. [kind |-> "all", ids |-> Live, keep |-> None, pane |-> Primary, failed |-> {}]
          \in BulkClose
    BY TerminalConstants DEF BulkClose, termTypeOK
  <2>2. QED
    BY <1>4, <1>5, <2>1 DEF closeAllProjectTerminals
<1>6. CASE closeOtherTerminals(id)
  <2> DEFINE pane == tabs[id].pane
             b == [kind |-> "others", ids |-> Owned(pane) \ {id}, keep |-> id, pane |-> pane,
                   failed |-> {}]
  <2>1. pane \in Panes
    BY <1>6 DEF closeOtherTerminals, termTypeOK, Tab
  <2>2. b \in BulkClose
    BY <2>1 DEF BulkClose, Owned, termTypeOK
  <2>3. QED
    BY <1>4, <1>6, <2>2 DEF closeOtherTerminals
<1>7. CASE BulkAnswered
  <2> DEFINE b == [bulk EXCEPT !.failed = @ \cup IF Head(inbox).result = "failed"
                                                THEN {Subject} ELSE {}]
  <2>1. Subject \in Ids /\ inbox' \in Seq(Message) /\ Subject \in Busy({"bulk"})
    BY <1>7, SubjectType, AnswerTaken DEF BulkAnswered, termTypeOK
  <2>2. b \in BulkClose
    BY <2>1 DEF termTypeOK, BulkClose
  <2>3. /\ tabs' \in [Live' -> Tab] /\ Live' \subseteq Live
        /\ shown' \in [Panes -> Ids \cup {None}] /\ focus' \in Panes
        /\ checks' \in [Ids -> {"no", "watching", "changed", "restarts"}]
        /\ bulk' \in BulkClose \cup {NoBulk}
    BY <1>7, <2>2, FinishType DEF BulkAnswered, termTypeOK, Live
  <2>4. QED
    BY <1>7, <2>1, <2>3 DEF BulkAnswered, RoutedAfterKill, termTypeOK, exitVars
<1>8. QED
  BY <1>1, <1>2, <1>3, <1>5, <1>6, <1>7

LEMMA TypeRestarts ==
  ASSUME termTypeOK, NEW id \in Ids, NEW job \in {"restart", "shell"},
         \/ restartTerminal(id) \/ reopenTerminalShell(id) \/ RestartAnswered(job)
         \/ enterShellAfterTask(id) \/ CheckFindsTask \/ CheckFindsNothing \/ CheckDropped
  PROVE  termTypeOK'
<1>1. ASSUME NEW i \in Ids, NEW j \in {"restart", "shell"}, BeginRestart(j, i)
      PROVE  /\ requests' \subseteq Request
             /\ held' \in [spawns : SUBSET Ids, kills : SUBSET Ids, restarts : SUBSET Ids]
  BY <1>1, NewCallsType, ZenonT(60) DEF BeginRestart, termTypeOK, Jobs
<1>2. CASE restartTerminal(id)
  BY <1>1, <1>2 DEF restartTerminal, termTypeOK, Live, paneVars, exitVars, ghosts
<1>3. CASE reopenTerminalShell(id)
  <2>1. tabs' \in [Live' -> Tab] /\ Live' = Live
    BY <1>3, TabType DEF reopenTerminalShell, Put, termTypeOK, Live
  <2>2. checks' \in [Ids -> {"no", "watching", "changed", "restarts"}]
    BY <1>3, NoticedType DEF reopenTerminalShell, Put
  <2>3. /\ requests' \subseteq Request
        /\ held' \in [spawns : SUBSET Ids, kills : SUBSET Ids, restarts : SUBSET Ids]
    BY <1>1, <1>3 DEF reopenTerminalShell, termTypeOK
  <2>4. QED
    BY <1>3, <2>1, <2>2, <2>3 DEF reopenTerminalShell, termTypeOK, paneVars, exitVars, ghosts
<1>4. CASE RestartAnswered(job)
  <2>1. Subject \in Ids /\ inbox' \in Seq(Message)
    BY <1>4, SubjectType DEF RestartAnswered
  <2> DEFINE fresh == With(Subject, [tabs[Subject] EXCEPT
                                !.status = "starting", !.restored = FALSE, !.pending = TRUE])
  <2>2. PICK now \in SUBSET ({Subject} \cap Live) :
          /\ now # {} => CanCall("create", now)
          /\ tabs' = Created(now, fresh)
          /\ held' = [held EXCEPT !.kills = @ \ {Subject}, !.restarts = @ \ {Subject},
                                  !.spawns = @ \cup now]
          /\ requests' = requests \cup NewCalls("create", now)
          /\ routed' = RoutedAfterKill \cup Routed(now)
    BY <1>4 DEF RestartAnswered
  <2>3. now \subseteq Ids /\ CanCall("create", now) /\ routed' \subseteq Ids
    BY <2>1, <2>2 DEF CanCall, RoutedAfterKill, Routed, termTypeOK
  <2>4. requests' \subseteq Request
    BY <2>2, <2>3, NewCallsType DEF termTypeOK, Jobs
  <2>5. tabs' \in [Live' -> Tab] /\ Live' = Live
    <3>1. fresh \in [Live -> Tab]
      BY TabType, WithType DEF termTypeOK
    <3>2. QED
      BY <2>2, <3>1, CreatedType DEF Live
  <2>6. checks' \in [Ids -> {"no", "watching", "changed", "restarts"}]
    BY <1>4, NoticedType, ZenonT(60) DEF RestartAnswered
  <2>7. QED
    BY <1>4, <2>1, <2>2, <2>3, <2>4, <2>5, <2>6
    DEF RestartAnswered, termTypeOK, paneVars, exitVars
<1>5. CASE enterShellAfterTask(id)
  BY <1>5, NewCallsType
  DEF enterShellAfterTask, termTypeOK, Jobs, Live, paneVars, exitVars, ghosts
<1>6. CASE CheckFindsTask
  <2>1. Subject \in Ids /\ inbox' \in Seq(Message)
    BY <1>6, SubjectType DEF CheckFindsTask
  <2>2. tabs' \in [Live' -> Tab] /\ Live' = Live
    BY <1>6, TabType DEF CheckFindsTask, termTypeOK, Live
  <2>3. QED
    BY <1>6, <2>1, <2>2 DEF CheckFindsTask, termTypeOK, paneVars, exitVars, ghosts
<1>7. CASE CheckFindsNothing
  <2>1. Subject \in Ids /\ inbox' \in Seq(Message)
    BY <1>7, SubjectType DEF CheckFindsNothing
  <2>2. tabs' \in [Live' -> Tab] /\ Live' = Live
    BY <1>7, TabType DEF CheckFindsNothing, termTypeOK, Live
  <2>3. /\ requests' \subseteq Request
        /\ held' \in [spawns : SUBSET Ids, kills : SUBSET Ids, restarts : SUBSET Ids]
        /\ checks' \in [Ids -> {"no", "watching", "changed", "restarts"}]
    BY <1>1, <1>7, <2>1 DEF CheckFindsNothing, termTypeOK
  <2>4. QED
    BY <1>7, <2>1, <2>2, <2>3 DEF CheckFindsNothing, termTypeOK, paneVars, exitVars, ghosts
<1>8. CASE CheckDropped
  BY <1>8, SubjectType DEF CheckDropped, termTypeOK, Live, paneVars, exitVars, ghosts
<1>9. QED
  BY <1>2, <1>3, <1>4, <1>5, <1>6, <1>7, <1>8

LEMMA TypeExitsAndPanes ==
  ASSUME termTypeOK, NEW id \in Ids, NEW pane \in Panes, NEW quick \in BOOLEAN,
         \/ ExitExpected \/ ExitEnds(quick) \/ ExitCuts
         \/ setTerminalFocusPane(pane) \/ setActiveTerminal(id) \/ activateProject
  PROVE  termTypeOK'
<1>1. CASE ExitExpected
  BY <1>1, SubjectType, NoticedType
  DEF ExitExpected, termTypeOK, Live, paneVars, exitVars, ghosts
<1>2. CASE ExitEnds(quick)
  <2>1. Subject \in Live /\ Subject \in Ids /\ inbox' \in Seq(Message)
    BY <1>2, SubjectType DEF ExitEnds
  <2>2. tabs' \in [Live' -> Tab] /\ Live' = Live
    BY <1>2, TabType DEF ExitEnds, Put, termTypeOK, Live
  <2>3. checks' \in [Ids -> {"no", "watching", "changed", "restarts"}]
    BY <1>2, NoticedType DEF ExitEnds, Put
  <2>4. shown' \in [Panes -> Ids \cup {None}] /\ focus' \in Panes
    <3>1. tabs[Subject].pane \in Panes
      BY <2>1 DEF termTypeOK, Tab
    <3>2. QED
      BY <1>2, <2>1, <3>1, PaneType DEF ExitEnds, termTypeOK, paneVars
  <2>5. QED
    BY <1>2, <2>1, <2>2, <2>3, <2>4 DEF ExitEnds, termTypeOK, exitVars, ghosts
<1>3. CASE ExitCuts
  <2>1. Subject \in Ids /\ inbox' \in Seq(Message)
    BY <1>3, SubjectType DEF ExitCuts
  <2>2. tabs' \in [Live' -> Tab] /\ Live' = Live
    BY <1>3, EndedType DEF ExitCuts, Put, termTypeOK, Live
  <2>3. checks' \in [Ids -> {"no", "watching", "changed", "restarts"}]
    BY <1>3, NoticedType DEF ExitCuts, Put
  <2>4. QED
    BY <1>3, <2>1, <2>2, <2>3 DEF ExitCuts, termTypeOK, paneVars, exitVars, ghosts
<1>4. CASE setTerminalFocusPane(pane)
  BY <1>4 DEF setTerminalFocusPane, termTypeOK, Live, exitVars, ghosts
<1>5. CASE setActiveTerminal(id)
  <2>1. tabs[id].pane \in Panes
    BY <1>5 DEF setActiveTerminal, termTypeOK, Tab
  <2>2. QED
    BY <1>5, <2>1, PaneType DEF setActiveTerminal, termTypeOK, Live, exitVars, ghosts
<1>6. CASE activateProject
  BY <1>6, TerminalConstants DEF activateProject, termTypeOK, Live, exitVars, ghosts
<1>7. QED
  BY <1>1, <1>2, <1>3, <1>4, <1>5, <1>6

LEMMA TypeLeaving ==
  ASSUME termTypeOK, Exit
  PROVE  termTypeOK'
<1>1. CASE pauseTerminalSpawnsForExit \/ PauseGivenUp \/ resumeTerminalSpawnsAfterExit
  BY <1>1 DEF pauseTerminalSpawnsForExit, PauseGivenUp, resumeTerminalSpawnsAfterExit,
              exitFrame, termTypeOK, Live, storeVars, ghosts
<1>2. CASE Paused \/ ExitAllTheSame
  <2>1. \A c \in Calls : c.id \in Ids
    <3>1. \A m \in Range(inbox) : m \in Message
      BY RangeEquality, ElementOfSeq DEF termTypeOK
    <3>2. QED
      BY <3>1 DEF Calls, Told, termTypeOK, Request, Message
  <2>2. Busy({"create", "cancel"}) \subseteq Ids
    BY <2>1 DEF Busy
  <2>3. QED
    BY <1>2, <2>2 DEF Paused, ExitAllTheSame, exitFrame, termTypeOK, Live, storeVars, ghosts
<1>3. CASE EndLeaving
  BY <1>3, NewCallsType
  DEF EndLeaving, exitFrame, termTypeOK, Jobs, Live, storeVars, ghosts
<1>4. CASE ExitKilled
  <2>1. Subject \in Ids /\ inbox' \in Seq(Message)
    BY <1>4, SubjectType DEF ExitKilled
  <2>2. tabs' \in [Live' -> Tab] /\ Live' = Live
    BY <1>4, EndedType DEF ExitKilled, Put, termTypeOK, Live
  <2>3. checks' \in [Ids -> {"no", "watching", "changed", "restarts"}]
    BY <1>4, NoticedType DEF ExitKilled, Put
  <2>4. QED
    BY <1>4, <2>1, <2>2, <2>3 DEF ExitKilled, termTypeOK, paneVars, ghosts
<1>5. CASE ExitKillFailed
  BY <1>5, SubjectType DEF ExitKillFailed, termTypeOK, Live, storeVars, exitVars
<1>6. QED
  BY <1>1, <1>2, <1>3, <1>4, <1>5 DEF Exit

LEMMA TypeBackend ==
  ASSUME termTypeOK, Backend
  PROVE  termTypeOK'
<1>1. ASSUME NEW r \in requests, NEW result \in Results, inbox' = Append(inbox, Answer(r, result))
      PROVE  inbox' \in Seq(Message)
  BY <1>1, AnswerType
<1>2. \A r \in requests : r.id \in Ids
  BY DEF termTypeOK, Request
<1>3. ASSUME NEW r \in requests, CreateServed(r) \/ CreateRefused(r)
      PROVE  termTypeOK'
  BY <1>1, <1>2, <1>3 DEF CreateServed, CreateRefused, backendFrame, termTypeOK, Live, Results,
                          storeVars, exitVars
<1>4. ASSUME NEW r \in requests, KillServed(r) \/ KillRefused(r) \/ KillEnds(r) \/ CloseOfSessionFails(r)
      PROVE  termTypeOK'
  BY <1>1, <1>4 DEF KillServed, KillRefused, KillEnds, CloseOfSessionFails, backendFrame,
                    termTypeOK, Live, Results, storeVars, exitVars
<1>5. ASSUME NEW r \in requests, KillBegins(r)
      PROVE  termTypeOK'
  BY <1>5 DEF KillBegins, backendFrame, termTypeOK, Request, Live, storeVars, exitVars
<1>6. ASSUME NEW r \in requests, terminal_session_open(r) \/ CheckFails(r)
      PROVE  termTypeOK'
  BY <1>1, <1>6 DEF terminal_session_open, CheckFails, backendFrame, termTypeOK, Live, Results,
                    storeVars, exitVars
<1>7. ASSUME NEW id \in Ids, NEW how \in {"ended", "cut"}, ShellEnds(id, how)
      PROVE  termTypeOK'
  <2>1. [job |-> "exited", id |-> id, n |-> 1, result |-> how] \in Message
    BY TerminalConstants DEF Message, Results
  <2>2. inbox' \in Seq(Message)
    BY <1>7, <2>1, InboxAppend DEF ShellEnds, termTypeOK
  <2>3. QED
    BY <1>7, <2>2 DEF ShellEnds, backendFrame, termTypeOK, Live, storeVars, exitVars
<1>8. ASSUME NEW r \in requests, KillGraceful(r)
      PROVE  termTypeOK'
  BY <1>1, <1>2, <1>8 DEF KillGraceful, termTypeOK, Live, Results, storeVars
<1>9. ASSUME NEW id \in Ids, ForcedToEnd(id)
      PROVE  termTypeOK'
  BY <1>9 DEF ForcedToEnd, termTypeOK, Live, storeVars
<1>10. QED
  BY <1>3, <1>4, <1>5, <1>6, <1>7, <1>8, <1>9 DEF Backend

----------------------------------------------------------------------------
(* An exit of the application waits for calls that are under way.          *)

BulkIsWaited == Busy({"bulk"}) # {} => bulk # NoBulk

\* The jobs that the marks stand for.
MarkedJobs == {{"create", "cancel"}, {"restart", "shell"}, {"check"}, {"shell"}}

StillWaited == \A jobs \in MarkedJobs : Busy(jobs) \subseteq Busy(jobs)'

\* No mark is made, and no call is taken that a mark stands for.
LEMMA MarksKept ==
  ASSUME termTypeOK, ReservedIsWaited, StillWaited,
         held'.spawns \subseteq held.spawns, held'.restarts \subseteq held.restarts,
         \/ checks' = checks \/ \E ids : checks' = Noticed(ids)
  PROVE  ReservedIsWaited'
<1>1. \A id \in Ids : /\ checks'[id] \in {"watching", "changed"} => checks[id] \in {"watching", "changed"}
                      /\ checks'[id] = "restarts" => checks[id] = "restarts"
  BY DEF Noticed, termTypeOK
<1>2. QED
  BY <1>1 DEF ReservedIsWaited, StillWaited, MarkedJobs

\* Calls are made and none is taken.
LEMMA CallsKeep ==
  ASSUME NEW job, NEW ids, inbox' = inbox,
         requests' = requests \/ requests' = requests \cup NewCalls(job, ids)
  PROVE  StillWaited
<1>1. CASE requests' = requests
  BY <1>1 DEF StillWaited, Busy, Calls, Told
<1>2. CASE requests' = requests \cup NewCalls(job, ids)
  BY <1>2, CallsBegin DEF StillWaited
<1>3. QED
  BY <1>1, <1>2

\* An answer is taken that no mark stands for.
LEMMA OtherAnswersKeep ==
  ASSUME NEW job \in {"close", "bulk", "exit", "exited"}, NEW results, Receive(job, results),
         inbox \in Seq(Message), requests' = requests
  PROVE  StillWaited
BY AnswerTaken DEF StillWaited, MarkedJobs

LEMMA ReservedSpawns ==
  ASSUME termTypeOK, ReservedIsWaited, NEW id \in Ids, NEW task \in BOOLEAN,
         \/ addScriptTerminal(id, task) \/ addTerminal \/ ProfileTrusted(id) \/ ProfileRefused
         \/ spawnPendingTerminal(id) \/ spawnRestoredTerminals
         \/ Spawned \/ SpawnCancelled \/ SpawnFailed \/ CancelAnswered
  PROVE  ReservedIsWaited'
<1>1. CASE addScriptTerminal(id, task) \/ addTerminal \/ ProfileTrusted(id) \/ ProfileRefused
  <2>1. StillWaited
    BY <1>1, CallsKeep DEF addScriptTerminal, addTerminal, ProfileTrusted, ProfileRefused
  <2>2. held' = held /\ (checks' = checks \/ \E ids : checks' = Noticed(ids))
    BY <1>1 DEF addScriptTerminal, addTerminal, ProfileTrusted, ProfileRefused, NewTab, Put
  <2>3. QED
    BY <2>1, <2>2, MarksKept
<1>2. ASSUME NEW ids, NEW now, requests' = requests \cup NewCalls("create", now), inbox' = inbox,
             held' = [held EXCEPT !.spawns = @ \cup now], checks' = Noticed(ids)
      PROVE  ReservedIsWaited'
  <2>1. \A jobs : Busy(jobs)' = Busy(jobs) \cup (IF "create" \in jobs THEN now ELSE {})
    BY <1>2, CallsBegin
  <2>2. /\ held'.spawns = held.spawns \cup now /\ held'.restarts = held.restarts
        /\ \A i \in Ids : checks'[i] \in {"watching", "changed"} => checks[i] \in {"watching", "changed"}
        /\ \A i \in Ids : checks'[i] = "restarts" => checks[i] = "restarts"
    BY <1>2 DEF Noticed, termTypeOK
  <2>3. QED
    BY <2>1, <2>2 DEF ReservedIsWaited
<1>3. CASE spawnPendingTerminal(id) \/ spawnRestoredTerminals
  BY <1>2, <1>3 DEF spawnPendingTerminal, spawnRestoredTerminals, Put
<1>4. ASSUME NEW job \in {"create", "cancel"}, NEW results, Receive(job, results),
             requests' = requests, held' = [held EXCEPT !.spawns = @ \ {Subject}],
             checks' = checks \/ \E ids : checks' = Noticed(ids)
      PROVE  ReservedIsWaited'
  <2>1. /\ Busy({"create", "cancel"}) \subseteq Busy({"create", "cancel"})' \cup {Subject}
        /\ \A jobs : job \notin jobs => Busy(jobs) \subseteq Busy(jobs)'
    BY <1>4, AnswerTaken DEF termTypeOK
  <2>2. held'.spawns = held.spawns \ {Subject} /\ held'.restarts = held.restarts
    BY <1>4 DEF termTypeOK
  <2>3. \A i \in Ids : /\ checks'[i] \in {"watching", "changed"} => checks[i] \in {"watching", "changed"}
                       /\ checks'[i] = "restarts" => checks[i] = "restarts"
    BY <1>4 DEF Noticed, termTypeOK
  <2>4. QED
    BY <2>1, <2>2, <2>3 DEF ReservedIsWaited
<1>5. CASE Spawned \/ SpawnFailed \/ CancelAnswered
  BY <1>4, <1>5 DEF Spawned, SpawnFailed, CancelAnswered, Put
<1>6. CASE SpawnCancelled
  <2>1. /\ Busy({"create", "cancel"}) \subseteq Busy({"create", "cancel"})' \cup {Subject}
        /\ \A jobs : "create" \notin jobs => Busy(jobs) \subseteq Busy(jobs)'
    BY <1>6, AnswerTaken DEF SpawnCancelled, termTypeOK
  <2>2. Subject \in Busy({"create", "cancel"})'
    BY <1>6, CallsMade DEF SpawnCancelled
  <2>3. held' = held /\ checks' = checks
    BY <1>6 DEF SpawnCancelled, storeVars
  <2>4. QED
    BY <2>1, <2>2, <2>3 DEF ReservedIsWaited
<1>7. QED
  BY <1>1, <1>3, <1>5, <1>6

LEMMA ReservedCloses ==
  ASSUME termTypeOK, ReservedIsWaited, NEW id \in Ids,
         \/ closeTerminal(id) \/ Closed \/ CloseFailed
         \/ closeAllProjectTerminals \/ closeOtherTerminals(id) \/ BulkAnswered
  PROVE  ReservedIsWaited'
<1>1. CASE closeTerminal(id)
  <2>1. StillWaited
    BY <1>1, CallsKeep DEF closeTerminal
  <2>2. held'.spawns \subseteq held.spawns /\ held'.restarts = held.restarts
    BY <1>1 DEF closeTerminal, Claim, termTypeOK
  <2>3. checks' = checks \/ \E ids : checks' = Noticed(ids)
    BY <1>1 DEF closeTerminal, RemoveTab, Put
  <2>4. QED
    BY <2>1, <2>2, <2>3, MarksKept
<1>2. CASE Closed \/ CloseFailed \/ BulkAnswered
  <2>1. StillWaited
    BY <1>2, OtherAnswersKeep DEF Closed, CloseFailed, BulkAnswered, termTypeOK
  <2>2. held'.spawns = held.spawns /\ held'.restarts = held.restarts
    BY <1>2 DEF Closed, CloseFailed, BulkAnswered, termTypeOK
  <2>3. checks' = checks \/ \E ids : checks' = Noticed(ids)
    BY <1>2 DEF Closed, CloseFailed, BulkAnswered, FinishBulk, RemoveTab, Put
  <2>4. QED
    BY <2>1, <2>2, <2>3, MarksKept
<1>3. ASSUME NEW b, BeginBulk(b)
      PROVE  ReservedIsWaited'
  <2>1. StillWaited
    BY <1>3, CallsKeep DEF BeginBulk
  <2>2. held'.spawns \subseteq held.spawns /\ held'.restarts = held.restarts
    BY <1>3 DEF BeginBulk, Claim, termTypeOK
  <2>3. checks' = checks \/ \E ids : checks' = Noticed(ids)
    BY <1>3 DEF BeginBulk, FinishBulk, Put
  <2>4. QED
    BY <2>1, <2>2, <2>3, MarksKept
<1>4. CASE closeAllProjectTerminals \/ closeOtherTerminals(id)
  BY <1>3, <1>4 DEF closeAllProjectTerminals, closeOtherTerminals
<1>5. QED
  BY <1>1, <1>2, <1>4

LEMMA ReservedRestarts ==
  ASSUME termTypeOK, ReservedIsWaited, NEW id \in Ids, NEW job \in {"restart", "shell"},
         \/ restartTerminal(id) \/ reopenTerminalShell(id) \/ RestartAnswered(job)
         \/ enterShellAfterTask(id) \/ CheckFindsTask \/ CheckFindsNothing \/ CheckDropped
  PROVE  ReservedIsWaited'
<1>1. ASSUME BeginRestart("restart", id), inbox' = inbox,
             checks' = checks \/ \E ids : checks' = Noticed(ids)
      PROVE  ReservedIsWaited'
  <2>1. \A jobs : Busy(jobs)' = Busy(jobs) \cup (IF "restart" \in jobs THEN {id} ELSE {})
    BY <1>1, CallsBegin DEF BeginRestart
  <2>2. held'.spawns \subseteq held.spawns /\ held'.restarts = held.restarts \cup {id}
    BY <1>1 DEF BeginRestart, termTypeOK
  <2>3. \A i \in Ids : /\ checks'[i] \in {"watching", "changed"} => checks[i] \in {"watching", "changed"}
                       /\ checks'[i] = "restarts" => checks[i] = "restarts"
    BY <1>1 DEF Noticed, termTypeOK
  <2>4. QED
    BY <2>1, <2>2, <2>3 DEF ReservedIsWaited
<1>2. CASE restartTerminal(id)
  BY <1>1, <1>2 DEF restartTerminal
<1>3. CASE reopenTerminalShell(id)
  <2>1. inbox' = inbox /\ \E ids : checks' = Noticed(ids)
    BY <1>3 DEF reopenTerminalShell, Put
  <2>2. CASE exit = "open"
    BY <1>1, <1>3, <2>1, <2>2 DEF reopenTerminalShell
  <2>3. CASE exit # "open"
    <3>1. held' = held /\ StillWaited
      BY <1>3, <2>3, CallsKeep DEF reopenTerminalShell
    <3>2. QED
      BY <2>1, <3>1, MarksKept
  <2>4. QED
    BY <2>2, <2>3
<1>4. CASE RestartAnswered(job)
  <2>1. PICK now \in SUBSET ({Subject} \cap Live) :
          /\ held' = [held EXCEPT !.kills = @ \ {Subject}, !.restarts = @ \ {Subject},
                                  !.spawns = @ \cup now]
          /\ requests' = requests \cup NewCalls("create", now)
    BY <1>4 DEF RestartAnswered
  <2>2. /\ \A jobs : Busy(jobs) \subseteq Busy(jobs)' \cup {Subject}
        /\ \A jobs : job \notin jobs => Busy(jobs) \subseteq Busy(jobs)'
    BY <1>4, <2>1, AnswerTaken DEF RestartAnswered, termTypeOK
  <2>3. now \subseteq Busy({"create", "cancel"})'
    BY <2>1, CallsMade
  <2>4. held'.spawns = held.spawns \cup now /\ held'.restarts = held.restarts \ {Subject}
    BY <2>1 DEF termTypeOK
  <2>5. \A i \in Ids : /\ checks'[i] \in {"watching", "changed"} => checks[i] \in {"watching", "changed"}
                       /\ checks'[i] = "restarts" => checks[i] = "restarts"
                       /\ job = "shell" /\ i = Subject => checks'[i] = "no"
    BY <1>4 DEF RestartAnswered, Noticed, termTypeOK
  <2>6. QED
    BY <2>2, <2>3, <2>4, <2>5 DEF ReservedIsWaited
<1>5. CASE enterShellAfterTask(id)
  <2>1. \A jobs : Busy(jobs)' = Busy(jobs) \cup (IF "check" \in jobs THEN {id} ELSE {})
    BY <1>5, CallsBegin DEF enterShellAfterTask
  <2>2. held' = held /\ checks' = [checks EXCEPT ![id] = "watching"]
    BY <1>5 DEF enterShellAfterTask
  <2>3. QED
    BY <2>1, <2>2 DEF ReservedIsWaited, termTypeOK
<1>6. CASE CheckFindsTask \/ CheckDropped
  <2>1. /\ \A jobs : Busy(jobs) \subseteq Busy(jobs)' \cup {Subject}
        /\ \A jobs : "check" \notin jobs => Busy(jobs) \subseteq Busy(jobs)'
    BY <1>6, AnswerTaken DEF CheckFindsTask, CheckDropped, termTypeOK
  <2>2. held' = held /\ checks' = [checks EXCEPT ![Subject] = "no"]
    BY <1>6 DEF CheckFindsTask, CheckDropped
  <2>3. QED
    BY <2>1, <2>2, SMTT(30) DEF ReservedIsWaited, termTypeOK
<1>7. CASE CheckFindsNothing
  <2>1. Subject \in Ids /\ checks[Subject] = "watching"
    BY <1>7, SubjectType DEF CheckFindsNothing
  <2>2. CASE exit # "open"
    <3>1. /\ \A jobs : Busy(jobs) \subseteq Busy(jobs)' \cup {Subject}
          /\ \A jobs : "check" \notin jobs => Busy(jobs) \subseteq Busy(jobs)'
      BY <1>7, <2>2, AnswerTaken DEF CheckFindsNothing, termTypeOK
    <3>2. held' = held /\ checks' = [checks EXCEPT ![Subject] = "no"]
      BY <1>7, <2>2 DEF CheckFindsNothing
    <3>3. QED
      BY <3>1, <3>2, SMTT(30) DEF ReservedIsWaited, termTypeOK
  <2>3. CASE exit = "open"
    <3>1. /\ requests' = requests \cup NewCalls("shell", {Subject})
          /\ held'.spawns \subseteq held.spawns /\ held'.restarts = held.restarts \cup {Subject}
          /\ checks' = [checks EXCEPT ![Subject] = "restarts"]
      <4>1. /\ held' = [held EXCEPT !.spawns = @ \ {Subject}, !.kills = @ \cup {Subject},
                                    !.restarts = @ \cup {Subject}]
            /\ requests' = requests \cup NewCalls("shell", {Subject})
            /\ checks' = [checks EXCEPT ![Subject] = "restarts"]
        BY <1>7, <2>3 DEF CheckFindsNothing, BeginRestart
      <4>2. QED
        BY <4>1 DEF termTypeOK
    <3>2. /\ \A jobs : Busy(jobs) \subseteq Busy(jobs)' \cup {Subject}
          /\ \A jobs : "check" \notin jobs => Busy(jobs) \subseteq Busy(jobs)'
      BY <1>7, <3>1, AnswerTaken DEF CheckFindsNothing, termTypeOK
    <3>3. Subject \in Busy({"restart", "shell"})' /\ Subject \in Busy({"shell"})'
      BY <3>1, CallsMade
    <3>4. QED
      BY <2>1, <3>1, <3>2, <3>3 DEF ReservedIsWaited, termTypeOK
  <2>4. QED
    BY <2>2, <2>3
<1>8. QED
  BY <1>2, <1>3, <1>4, <1>5, <1>6, <1>7

LEMMA ReservedExitsAndPanes ==
  ASSUME termTypeOK, ReservedIsWaited, NEW id \in Ids, NEW pane \in Panes, NEW quick \in BOOLEAN,
         \/ ExitExpected \/ ExitEnds(quick) \/ ExitCuts
         \/ setTerminalFocusPane(pane) \/ setActiveTerminal(id) \/ activateProject
  PROVE  ReservedIsWaited'
<1>1. CASE ExitExpected \/ ExitEnds(quick) \/ ExitCuts
  <2>1. StillWaited
    BY <1>1, OtherAnswersKeep DEF ExitExpected, ExitEnds, ExitCuts, termTypeOK
  <2>2. held'.spawns = held.spawns /\ held'.restarts = held.restarts
    BY <1>1 DEF ExitExpected, ExitEnds, ExitCuts, termTypeOK
  <2>3. checks' = checks \/ \E ids : checks' = Noticed(ids)
    BY <1>1 DEF ExitExpected, ExitEnds, ExitCuts, Put
  <2>4. QED
    BY <2>1, <2>2, <2>3, MarksKept
<1>2. CASE setTerminalFocusPane(pane) \/ setActiveTerminal(id) \/ activateProject
  <2>1. StillWaited
    BY <1>2, CallsKeep DEF setTerminalFocusPane, setActiveTerminal, activateProject
  <2>2. held' = held /\ checks' = checks
    BY <1>2 DEF setTerminalFocusPane, setActiveTerminal, activateProject
  <2>3. QED
    BY <2>1, <2>2, MarksKept
<1>3. QED
  BY <1>1, <1>2

LEMMA ReservedLeaving ==
  ASSUME termTypeOK, ReservedIsWaited, Exit
  PROVE  ReservedIsWaited'
<1>1. CASE pauseTerminalSpawnsForExit \/ Paused \/ PauseGivenUp \/ resumeTerminalSpawnsAfterExit
           \/ EndLeaving \/ ExitAllTheSame
  <2>1. StillWaited
    BY <1>1, CallsKeep DEF pauseTerminalSpawnsForExit, Paused, PauseGivenUp,
         resumeTerminalSpawnsAfterExit, EndLeaving, ExitAllTheSame, exitFrame
  <2>2. held' = held /\ checks' = checks
    BY <1>1 DEF pauseTerminalSpawnsForExit, Paused, PauseGivenUp,
         resumeTerminalSpawnsAfterExit, EndLeaving, ExitAllTheSame, exitFrame, storeVars
  <2>3. QED
    BY <2>1, <2>2, MarksKept
<1>2. CASE ExitKilled \/ ExitKillFailed
  <2>1. StillWaited
    BY <1>2, OtherAnswersKeep DEF ExitKilled, ExitKillFailed, termTypeOK
  <2>2. held' = held /\ (checks' = checks \/ \E ids : checks' = Noticed(ids))
    BY <1>2 DEF ExitKilled, ExitKillFailed, Put, storeVars
  <2>3. QED
    BY <2>1, <2>2, MarksKept
<1>3. QED
  BY <1>1, <1>2 DEF Exit

LEMMA ReservedBackend ==
  ASSUME termTypeOK, ReservedIsWaited, Backend
  PROVE  ReservedIsWaited'
<1>1. StillWaited
  BY BackendKeepsCalls DEF StillWaited, MarkedJobs, termTypeOK
<1>2. held' = held /\ checks' = checks
  BY DEF Backend, CreateServed, CreateRefused, KillServed, KillRefused, KillGraceful,
         KillBegins, KillEnds, CloseOfSessionFails, terminal_session_open, CheckFails, ShellEnds, ForcedToEnd,
         backendFrame, storeVars
<1>3. QED
  BY <1>1, <1>2, MarksKept

\* No kill of a close of many is asked for, and none of its answers is taken.
LEMMA BulkKept ==
  ASSUME BulkIsWaited, bulk' = bulk, Busy({"bulk"})' \subseteq Busy({"bulk"})
  PROVE  BulkIsWaited'
BY DEF BulkIsWaited

LEMMA BulkQuiet ==
  ASSUME BulkIsWaited, bulk' = bulk, inbox' = inbox, NEW job, job # "bulk", NEW ids,
         requests' = requests \/ requests' = requests \cup NewCalls(job, ids)
  PROVE  BulkIsWaited'
<1>1. Busy({"bulk"})' \subseteq Busy({"bulk"})
  <2>1. CASE requests' = requests
    BY <2>1 DEF Busy, Calls, Told
  <2>2. CASE requests' = requests \cup NewCalls(job, ids)
    BY <2>2, CallsBegin
  <2>3. QED
    BY <2>1, <2>2
<1>2. QED
  BY <1>1, BulkKept

LEMMA BulkOtherAnswer ==
  ASSUME termTypeOK, BulkIsWaited, bulk' = bulk, NEW job, NEW results, Receive(job, results),
         NEW called, called # "bulk", NEW ids,
         requests' = requests \/ requests' = requests \cup NewCalls(called, ids)
  PROVE  BulkIsWaited'
BY AnswerTakenOnly, BulkKept DEF termTypeOK

LEMMA BulkStore ==
  ASSUME termTypeOK, BulkIsWaited, Store
  PROVE  BulkIsWaited'
<1>1. CASE \/ \E id \in Ids : \E task \in BOOLEAN : addScriptTerminal(id, task)
           \/ addTerminal \/ ProfileRefused \/ spawnRestoredTerminals
           \/ \E id \in Ids : ProfileTrusted(id) \/ spawnPendingTerminal(id)
  <2>1. /\ bulk' = bulk /\ inbox' = inbox
        /\ requests' = requests \/ \E ids : requests' = requests \cup NewCalls("create", ids)
    BY <1>1 DEF addScriptTerminal, addTerminal, ProfileRefused, spawnRestoredTerminals,
         ProfileTrusted, spawnPendingTerminal
  <2>2. QED
    BY <2>1, BulkQuiet
<1>2. CASE Spawned \/ SpawnCancelled \/ SpawnFailed \/ CancelAnswered \/ Closed \/ CloseFailed
  <2>1. CASE SpawnCancelled
    BY <2>1, BulkOtherAnswer DEF SpawnCancelled, storeVars
  <2>2. CASE Spawned \/ SpawnFailed \/ CancelAnswered \/ Closed \/ CloseFailed
    <3>1. bulk' = bulk /\ requests' = requests /\ \E job, results : Receive(job, results)
      BY <2>2 DEF Spawned, SpawnFailed, CancelAnswered, Closed, CloseFailed
    <3>2. QED
      BY <3>1, BulkOtherAnswer
  <2>3. QED
    BY <1>2, <2>1, <2>2
<1>3. ASSUME NEW id \in Ids, closeTerminal(id)
      PROVE  BulkIsWaited'
  BY <1>3, BulkQuiet DEF closeTerminal
<1>4. ASSUME NEW b \in BulkClose, bulk = NoBulk, BeginBulk(b)
      PROVE  BulkIsWaited'
  <2>1. Busy({"bulk"})' = Busy({"bulk"}) \cup Killed(b.ids)
    BY <1>4, CallsBegin DEF BeginBulk
  <2>2. Busy({"bulk"}) = {}
    BY <1>4 DEF BulkIsWaited
  <2>3. b # NoBulk
    BY DEF BulkClose, NoBulk
  <2>4. QED
    BY <1>4, <2>1, <2>2, <2>3 DEF BeginBulk, BulkIsWaited
<1>5. CASE closeAllProjectTerminals
  <2> DEFINE b == [kind |-> "all", ids |-> Live, keep |-> None, pane |-> Primary, failed |-> {}]
  <2>1. b \in BulkClose
    BY TerminalConstants DEF BulkClose, termTypeOK
  <2>2. QED
    BY <1>4, <1>5, <2>1 DEF closeAllProjectTerminals
<1>6. ASSUME NEW id \in Ids, closeOtherTerminals(id)
      PROVE  BulkIsWaited'
  <2> DEFINE pane == tabs[id].pane
             b == [kind |-> "others", ids |-> Owned(pane) \ {id}, keep |-> id, pane |-> pane,
                   failed |-> {}]
  <2>1. pane \in Panes
    BY <1>6 DEF closeOtherTerminals, termTypeOK, Tab
  <2>2. b \in BulkClose
    BY <2>1 DEF BulkClose, Owned, termTypeOK
  <2>3. QED
    BY <1>4, <1>6, <2>2 DEF closeOtherTerminals
<1>7. CASE BulkAnswered
  <2> DEFINE b == [bulk EXCEPT !.failed = @ \cup IF Head(inbox).result = "failed"
                                                THEN {Subject} ELSE {}]
             others == {r \in requests : r.job = "bulk"} \cup {m \in Range(inbox') : m.job = "bulk"}
  <2>1. CASE others = {}
    BY <1>7, <2>1 DEF BulkAnswered, BulkIsWaited, Busy, Calls, Told
  <2>2. CASE others # {}
    <3>1. bulk \in BulkClose
      BY <1>7, AnswerTaken DEF BulkAnswered, BulkIsWaited, termTypeOK
    <3>2. bulk' = b
      BY <1>7, <2>2 DEF BulkAnswered
    <3>3. b.kind = bulk.kind
      BY <3>1 DEF BulkClose
    <3>4. QED
      BY <3>1, <3>2, <3>3 DEF BulkIsWaited, BulkClose, NoBulk
  <2>3. QED
    BY <2>1, <2>2
<1>8. ASSUME NEW id \in Ids, restartTerminal(id) \/ reopenTerminalShell(id) \/ enterShellAfterTask(id)
      PROVE  BulkIsWaited'
  BY <1>8, BulkQuiet DEF restartTerminal, reopenTerminalShell, enterShellAfterTask, BeginRestart
<1>9. ASSUME NEW job \in {"restart", "shell"}, RestartAnswered(job)
      PROVE  BulkIsWaited'
  BY <1>9, BulkOtherAnswer DEF RestartAnswered
<1>10. CASE CheckFindsTask \/ CheckFindsNothing \/ CheckDropped
  <2>1. /\ bulk' = bulk /\ \E results : Receive("check", results)
        /\ requests' = requests \/ requests' = requests \cup NewCalls("shell", {Subject})
    BY <1>10 DEF CheckFindsTask, CheckFindsNothing, CheckDropped, BeginRestart
  <2>2. QED
    BY <2>1, BulkOtherAnswer
<1>11. CASE ExitExpected \/ ExitCuts \/ \E quick \in BOOLEAN : ExitEnds(quick)
  <2>1. bulk' = bulk /\ requests' = requests /\ \E results : Receive("exited", results)
    BY <1>11 DEF ExitExpected, ExitCuts, ExitEnds
  <2>2. QED
    BY <2>1, BulkOtherAnswer
<1>12. CASE \/ \E pane \in Panes : setTerminalFocusPane(pane)
            \/ \E id \in Ids : setActiveTerminal(id)
            \/ activateProject
  BY <1>12, BulkQuiet DEF setTerminalFocusPane, setActiveTerminal, activateProject
<1>13. QED
  BY <1>1, <1>2, <1>3, <1>5, <1>6, <1>7, <1>8, <1>9, <1>10, <1>11, <1>12 DEF Store

LEMMA BulkOthers ==
  ASSUME termTypeOK, BulkIsWaited, Exit \/ Backend
  PROVE  BulkIsWaited'
<1>1. CASE Backend
  <2>1. bulk' = bulk
    BY <1>1 DEF Backend, CreateServed, CreateRefused, KillServed, KillRefused, KillGraceful,
         KillBegins, KillEnds, CloseOfSessionFails, terminal_session_open, CheckFails, ShellEnds, ForcedToEnd,
         backendFrame, storeVars
  <2>2. QED
    BY <1>1, <2>1, BackendKeepsCalls, BulkKept DEF termTypeOK
<1>2. CASE pauseTerminalSpawnsForExit \/ Paused \/ PauseGivenUp \/ resumeTerminalSpawnsAfterExit
           \/ EndLeaving \/ ExitAllTheSame
  BY <1>2, BulkQuiet DEF pauseTerminalSpawnsForExit, Paused, PauseGivenUp,
       resumeTerminalSpawnsAfterExit, EndLeaving, ExitAllTheSame, exitFrame, storeVars
<1>3. CASE ExitKilled \/ ExitKillFailed
  <2>1. bulk' = bulk /\ requests' = requests /\ \E results : Receive("exit", results)
    BY <1>3 DEF ExitKilled, ExitKillFailed, storeVars
  <2>2. QED
    BY <2>1, BulkOtherAnswer
<1>4. QED
  BY <1>1, <1>2, <1>3 DEF Exit

----------------------------------------------------------------------------
(* A pane shows terminals of its own. *)

KeptInItsPane ==
  bulk # NoBulk /\ bulk.kind = "others" =>
    /\ bulk.keep \in opened
    /\ bulk.keep \in Live => tabs[bulk.keep].pane = bulk.pane

PanesOwn == PanesShowTheirOwn /\ KeptInItsPane

\* Some tabs are changed or removed, and none changes its pane.
SamePanes == Live' \subseteq Live /\ \A id \in Live' : tabs'[id].pane = tabs[id].pane

LEMMA SamePanesUnchanged == tabs' = tabs => SamePanes
BY DEF SamePanes, Live

LEMMA EndedKeepsPane ==
  ASSUME termTypeOK, NEW id, tabs' = Ended(id)
  PROVE  SamePanes
BY DEF Ended, With, SamePanes, termTypeOK, Live, Tab

LEMMA CreatedKeepsPane ==
  ASSUME NEW L, NEW old \in [L -> Tab], NEW ids
  PROVE  \A id \in L : Created(ids, old)[id].pane = old[id].pane
BY DEF Created, Tab

LEMMA ShownKept ==
  ASSUME PanesOwn, SamePanes, shown' = shown, opened' = opened, bulk' = bulk \/ bulk' = NoBulk
  PROVE  PanesOwn'
BY DEF PanesOwn, PanesShowTheirOwn, KeptInItsPane, SamePanes

\* One pane shows another terminal, which is its own.
LEMMA ShownInPane ==
  ASSUME termTypeOK, PanesOwn, SamePanes, NEW pane \in Panes, NEW id, id # None,
         shown' = bindTerminalToPane(pane, id), id \in Live' => tabs[id].pane = pane,
         opened' = opened, bulk' = bulk \/ bulk' = NoBulk, None \notin Ids
  PROVE  PanesOwn'
<1>1. \A p \in Panes : shown'[p] \in {shown[p], None} \/ (p = pane /\ shown'[p] = id)
  BY DEF bindTerminalToPane
<1>2. None \notin Live'
  BY DEF SamePanes, termTypeOK
<1>3. PanesShowTheirOwn'
  BY <1>1, <1>2 DEF PanesOwn, PanesShowTheirOwn, SamePanes
<1>4. KeptInItsPane'
  BY DEF PanesOwn, KeptInItsPane, SamePanes
<1>5. QED
  BY <1>3, <1>4 DEF PanesOwn

LEMMA RemoveShowsOwn ==
  ASSUME termTypeOK, PanesOwn, NEW id, RemoveTab(id), opened' = opened, bulk' = bulk
  PROVE  PanesOwn'
<1>1. SamePanes /\ Live' = Live \ {id}
  BY DEF RemoveTab, Put, Restrict, SamePanes, Live, termTypeOK
<1>2. \A p \in Panes : \/ shown'[p] = shown[p] \/ shown'[p] = None \/ shown'[p] \in Owned(p)
  BY DEF RemoveTab, clearClosedFromPanes
<1>3. PanesShowTheirOwn'
  BY <1>1, <1>2, TerminalConstants DEF PanesOwn, PanesShowTheirOwn, SamePanes, Owned, termTypeOK
<1>4. KeptInItsPane'
  BY <1>1 DEF PanesOwn, KeptInItsPane, SamePanes
<1>5. QED
  BY <1>3, <1>4 DEF PanesOwn

LEMMA FinishShowsOwn ==
  ASSUME termTypeOK, PanesOwn, NEW b \in BulkClose, FinishBulk(b), opened' = opened,
         b.kind = "others" => b.keep \in opened /\ (b.keep \in Live => tabs[b.keep].pane = b.pane)
  PROVE  PanesOwn'
<1>1. SamePanes /\ bulk' = NoBulk
  BY DEF FinishBulk, Put, Restrict, SamePanes, Live
<1>2. CASE b.kind = "all"
  <2>1. \A p \in Panes : shown'[p] \in {shown[p], None}
    BY <1>2 DEF FinishBulk, clearProjectPaneMaps
  <2>2. PanesShowTheirOwn'
    BY <1>1, <2>1, TerminalConstants DEF PanesOwn, PanesShowTheirOwn, SamePanes, termTypeOK
  <2>3. QED
    BY <1>1, <2>2 DEF PanesOwn, KeptInItsPane
<1>3. CASE b.kind # "all"
  <2>1. b.pane \in Panes /\ b.kind = "others" /\ shown' = bindTerminalToPane(b.pane, b.keep)
    BY <1>3 DEF FinishBulk, BulkClose
  <2>2. b.keep # None /\ (b.keep \in Live' => tabs[b.keep].pane = b.pane)
    BY <1>1, <2>1, TerminalConstants DEF SamePanes, termTypeOK
  <2>3. QED
    BY <1>1, <2>1, <2>2, ShownInPane, TerminalConstants
<1>4. QED
  BY <1>2, <1>3

LEMMA NewTabShowsOwn ==
  ASSUME termTypeOK, PanesOwn, NEW id \in Ids, NEW task \in BOOLEAN, NewTab(id, task), bulk' = bulk
  PROVE  PanesOwn'
<1>1. /\ id \notin opened /\ opened' = opened \cup {id} /\ Live' = Live \cup {id}
      /\ \A i \in Live : tabs'[i].pane = tabs[i].pane
      /\ tabs'[id].pane = focus /\ shown' = bindTerminalToPane(focus, id)
  BY DEF NewTab, Put, Live, termTypeOK
<1>2. \A p \in Panes : (p # focus /\ shown'[p] \in {shown[p], None} \ {id}) \/ (p = focus /\ shown'[p] = id)
  BY <1>1, TerminalConstants DEF bindTerminalToPane, termTypeOK
<1>3. PanesShowTheirOwn'
  BY <1>1, <1>2, TerminalConstants DEF PanesOwn, PanesShowTheirOwn, termTypeOK
<1>4. KeptInItsPane'
  BY <1>1 DEF PanesOwn, KeptInItsPane
<1>5. QED
  BY <1>3, <1>4 DEF PanesOwn

LEMMA PanesSpawns ==
  ASSUME termTypeOK, PanesOwn, NEW id \in Ids, NEW task \in BOOLEAN,
         \/ addScriptTerminal(id, task) \/ addTerminal \/ ProfileTrusted(id) \/ ProfileRefused
         \/ spawnPendingTerminal(id) \/ spawnRestoredTerminals
         \/ Spawned \/ SpawnCancelled \/ SpawnFailed \/ CancelAnswered
  PROVE  PanesOwn'
<1>1. CASE \/ addTerminal \/ ProfileRefused \/ SpawnCancelled \/ CancelAnswered
           \/ (ProfileTrusted(id) /\ exit # "open")
  <2>1. tabs' = tabs /\ shown' = shown /\ opened' = opened /\ bulk' = bulk
    BY <1>1 DEF addTerminal, ProfileRefused, SpawnCancelled, CancelAnswered, ProfileTrusted,
                paneVars, storeVars
  <2>2. QED
    BY <2>1, SamePanesUnchanged, ShownKept
<1>2. CASE addScriptTerminal(id, task) \/ (ProfileTrusted(id) /\ exit = "open")
  BY <1>2, NewTabShowsOwn DEF addScriptTerminal, ProfileTrusted
<1>3. CASE spawnPendingTerminal(id)
  <2>1. SamePanes
    BY <1>3, CreatedKeepsPane, CreatedType
    DEF spawnPendingTerminal, Put, SamePanes, Live, termTypeOK
  <2>2. QED
    BY <1>3, <2>1, ShownKept DEF spawnPendingTerminal, paneVars
<1>4. CASE spawnRestoredTerminals
  <2> DEFINE ids == {i \in Live : tabs[i].restored} \ Busy({"create"})
             now == IF exit = "open" THEN ids \ held.spawns ELSE {}
             starting == [i \in Live |-> IF i \in ids
                            THEN [tabs[i] EXCEPT !.status = "starting", !.pending = TRUE]
                            ELSE tabs[i]]
  <2>1. starting \in [Live -> Tab] /\ \A i \in Live : starting[i].pane = tabs[i].pane
    <3>1. starting \in [Live -> Tab]
      BY TabType DEF termTypeOK
    <3>2. \A i \in Live : [tabs[i] EXCEPT !.status = "starting", !.pending = TRUE].pane = tabs[i].pane
      BY DEF termTypeOK, Tab
    <3>3. QED
      BY <3>1, <3>2
  <2>2. tabs' = Created(now, starting)
    BY <1>4 DEF spawnRestoredTerminals, Put
  <2> HIDE DEF starting, now
  <2>3. SamePanes
    BY <2>1, <2>2, CreatedKeepsPane, CreatedType DEF SamePanes, Live
  <2>4. QED
    BY <1>4, <2>3, ShownKept DEF spawnRestoredTerminals, paneVars
<1>5. CASE Spawned
  <2>1. tabs' = [tabs EXCEPT ![Subject] = [@ EXCEPT !.status = "running", !.restored = FALSE,
                                                    !.pending = FALSE]]
    BY <1>5 DEF Spawned, Put
  <2>2. SamePanes
    BY <2>1 DEF SamePanes, Live, termTypeOK, Tab
  <2>3. QED
    BY <1>5, <2>2, ShownKept DEF Spawned, paneVars
<1>6. CASE SpawnFailed
  BY <1>6, EndedKeepsPane, ShownKept DEF SpawnFailed, Put, paneVars
<1>7. QED
  BY <1>1, <1>2, <1>3, <1>4, <1>5, <1>6

LEMMA PanesCloses ==
  ASSUME termTypeOK, BulkIsWaited, PanesOwn, NEW id \in Ids,
         \/ closeTerminal(id) \/ Closed \/ CloseFailed
         \/ closeAllProjectTerminals \/ closeOtherTerminals(id) \/ BulkAnswered
  PROVE  PanesOwn'
<1>1. CASE closeTerminal(id)
  <2>1. CASE tabs[id].restored
    BY <1>1, <2>1, RemoveShowsOwn DEF closeTerminal
  <2>2. CASE ~tabs[id].restored
    BY <1>1, <2>2, SamePanesUnchanged, ShownKept DEF closeTerminal
  <2>3. QED
    BY <2>1, <2>2
<1>2. CASE Closed
  BY <1>2, RemoveShowsOwn DEF Closed
<1>3. CASE CloseFailed
  BY <1>3, SamePanesUnchanged, ShownKept DEF CloseFailed, paneVars
<1>4. ASSUME NEW b \in BulkClose, bulk = NoBulk, BeginBulk(b),
             b.kind = "others" => b.keep \in opened /\ tabs[b.keep].pane = b.pane
      PROVE  PanesOwn'
  <2>1. CASE Killed(b.ids) = {}
    BY <1>4, <2>1, FinishShowsOwn DEF BeginBulk
  <2>2. CASE Killed(b.ids) # {}
    <3>1. bulk' = b /\ tabs' = tabs /\ shown' = shown /\ opened' = opened
      BY <1>4, <2>2 DEF BeginBulk
    <3>2. PanesShowTheirOwn' /\ KeptInItsPane'
      BY <1>4, <3>1 DEF PanesOwn, PanesShowTheirOwn, KeptInItsPane, Live
    <3>3. QED
      BY <3>2 DEF PanesOwn
  <2>3. QED
    BY <2>1, <2>2
<1>5. CASE closeAllProjectTerminals
  <2> DEFINE b == [kind |-> "all", ids |-> Live, keep |-> None, pane |-> Primary, failed |-> {}]
  <2>1. b \in BulkClose /\ b.kind = "all"
    BY TerminalConstants DEF BulkClose, termTypeOK
  <2>2. QED
    BY <1>4, <1>5, <2>1 DEF closeAllProjectTerminals
<1>6. CASE closeOtherTerminals(id)
  <2> DEFINE pane == tabs[id].pane
             b == [kind |-> "others", ids |-> Owned(pane) \ {id}, keep |-> id, pane |-> pane,
                   failed |-> {}]
  <2>1. pane \in Panes /\ id \in opened
    BY <1>6 DEF closeOtherTerminals, termTypeOK, Tab
  <2>2. b \in BulkClose /\ b.keep = id /\ b.pane = pane
    BY <2>1 DEF BulkClose, Owned, termTypeOK
  <2>3. QED
    BY <1>4, <1>6, <2>1, <2>2 DEF closeOtherTerminals
<1>7. CASE BulkAnswered
  <2> DEFINE b == [bulk EXCEPT !.failed = @ \cup IF Head(inbox).result = "failed"
                                                THEN {Subject} ELSE {}]
             others == {r \in requests : r.job = "bulk"} \cup {m \in Range(inbox') : m.job = "bulk"}
  <2>1. bulk \in BulkClose /\ bulk # NoBulk /\ Subject \in Ids
    BY <1>7, AnswerTaken, SubjectType DEF BulkAnswered, BulkIsWaited, termTypeOK
  <2>2. b \in BulkClose /\ b.kind = bulk.kind /\ b.keep = bulk.keep /\ b.pane = bulk.pane
    BY <2>1 DEF BulkClose
  <2>3. CASE others = {}
    <3>1. FinishBulk(b) /\ opened' = opened
      BY <1>7, <2>3 DEF BulkAnswered
    <3>2. QED
      BY <2>1, <2>2, <3>1, FinishShowsOwn DEF PanesOwn, KeptInItsPane
  <2>4. CASE others # {}
    <3>1. bulk' = b /\ tabs' = tabs /\ shown' = shown /\ opened' = opened
      BY <1>7, <2>4 DEF BulkAnswered
    <3>2. PanesShowTheirOwn' /\ KeptInItsPane'
      BY <2>1, <2>2, <3>1 DEF PanesOwn, PanesShowTheirOwn, KeptInItsPane, Live
    <3>3. QED
      BY <3>2 DEF PanesOwn
  <2>5. QED
    BY <2>3, <2>4
<1>8. QED
  BY <1>1, <1>2, <1>3, <1>5, <1>6, <1>7

LEMMA PanesRestarts ==
  ASSUME termTypeOK, PanesOwn, NEW id \in Ids, NEW job \in {"restart", "shell"},
         \/ restartTerminal(id) \/ reopenTerminalShell(id) \/ RestartAnswered(job)
         \/ enterShellAfterTask(id) \/ CheckFindsTask \/ CheckFindsNothing \/ CheckDropped
  PROVE  PanesOwn'
<1>1. shown' = shown /\ opened' = opened /\ bulk' = bulk
  BY DEF restartTerminal, reopenTerminalShell, RestartAnswered, enterShellAfterTask,
         CheckFindsTask, CheckFindsNothing, CheckDropped, paneVars
<1>2. CASE restartTerminal(id) \/ enterShellAfterTask(id) \/ CheckDropped
  BY <1>1, <1>2, SamePanesUnchanged, ShownKept
  DEF restartTerminal, enterShellAfterTask, CheckDropped
<1>3. ASSUME NEW i, \/ tabs' = [tabs EXCEPT ![i].task = FALSE]
                    \/ tabs' = [tabs EXCEPT ![i].status = "running"]
      PROVE  SamePanes
  BY <1>3 DEF SamePanes, Live, termTypeOK, Tab
<1>4. CASE reopenTerminalShell(id) \/ CheckFindsTask \/ CheckFindsNothing
  <2>1. \E i : \/ tabs' = [tabs EXCEPT ![i].task = FALSE]
               \/ tabs' = [tabs EXCEPT ![i].status = "running"]
    BY <1>4 DEF reopenTerminalShell, CheckFindsTask, CheckFindsNothing, Put
  <2>2. QED
    BY <1>1, <1>3, <2>1, ShownKept
<1>5. CASE RestartAnswered(job)
  <2> DEFINE fresh == With(Subject, [tabs[Subject] EXCEPT
                                !.status = "starting", !.restored = FALSE, !.pending = TRUE])
  <2>1. fresh \in [Live -> Tab] /\ \A i \in Live : fresh[i].pane = tabs[i].pane
    <3>1. fresh \in [Live -> Tab]
      BY TabType, WithType DEF termTypeOK
    <3>2. \A i \in Live : fresh[i].pane = tabs[i].pane
      BY DEF With, Live, termTypeOK, Tab
    <3>3. QED
      BY <3>1, <3>2
  <2>2. PICK now : tabs' = Created(now, fresh)
    BY <1>5 DEF RestartAnswered
  <2> HIDE DEF fresh
  <2>3. SamePanes
    BY <2>1, <2>2, CreatedKeepsPane, CreatedType DEF SamePanes, Live
  <2>4. QED
    BY <1>1, <2>3, ShownKept
<1>6. QED
  BY <1>2, <1>4, <1>5

LEMMA PanesExitsAndPanes ==
  ASSUME termTypeOK, PanesOwn, NEW id \in Ids, NEW pane \in Panes, NEW quick \in BOOLEAN,
         \/ ExitExpected \/ ExitEnds(quick) \/ ExitCuts
         \/ setTerminalFocusPane(pane) \/ setActiveTerminal(id) \/ activateProject
  PROVE  PanesOwn'
<1>1. CASE ExitExpected \/ setTerminalFocusPane(pane)
  BY <1>1, SamePanesUnchanged, ShownKept DEF ExitExpected, setTerminalFocusPane, paneVars
<1>2. CASE ExitEnds(quick)
  <2>1. /\ Subject \in Live /\ opened' = opened /\ bulk' = bulk
        /\ tabs' = [tabs EXCEPT ![Subject].status = "exited"]
        /\ \/ shown' = shown
           \/ shown' = bindTerminalToPane(tabs[Subject].pane, Subject)
    BY <1>2 DEF ExitEnds, Put, paneVars
  <2>2. SamePanes
    BY <2>1 DEF SamePanes, Live, termTypeOK, Tab
  <2>3. tabs[Subject].pane \in Panes /\ Subject # None
    BY <2>1, TerminalConstants DEF termTypeOK, Tab
  <2>4. QED
    BY <2>1, <2>2, <2>3, ShownKept, ShownInPane, TerminalConstants
<1>3. CASE ExitCuts
  BY <1>3, EndedKeepsPane, ShownKept DEF ExitCuts, Put, paneVars
<1>4. CASE setActiveTerminal(id)
  <2>1. /\ id \in Live /\ opened' = opened /\ bulk' = bulk /\ tabs' = tabs
        /\ shown' = bindTerminalToPane(tabs[id].pane, id)
    BY <1>4 DEF setActiveTerminal
  <2>2. tabs[id].pane \in Panes /\ id # None
    BY <2>1, TerminalConstants DEF termTypeOK, Tab
  <2>3. QED
    BY <2>1, <2>2, SamePanesUnchanged, ShownInPane, TerminalConstants
<1>5. CASE activateProject
  <2>1. PanesShowTheirOwn'
    BY <1>5, TerminalConstants
    DEF activateProject, EachItsOwn, PanesShowTheirOwn, Owned, Live, termTypeOK
  <2>2. KeptInItsPane'
    BY <1>5 DEF activateProject, PanesOwn, KeptInItsPane, Live
  <2>3. QED
    BY <2>1, <2>2 DEF PanesOwn
<1>6. QED
  BY <1>1, <1>2, <1>3, <1>4, <1>5

LEMMA PanesOthers ==
  ASSUME termTypeOK, PanesOwn, Exit \/ Backend
  PROVE  PanesOwn'
<1>1. CASE Backend
  <2>1. tabs' = tabs /\ shown' = shown /\ opened' = opened /\ bulk' = bulk
    BY <1>1 DEF Backend, CreateServed, CreateRefused, KillServed, KillRefused, KillGraceful,
         KillBegins, KillEnds, CloseOfSessionFails, terminal_session_open, CheckFails, ShellEnds, ForcedToEnd,
         backendFrame, storeVars
  <2>2. QED
    BY <2>1, SamePanesUnchanged, ShownKept
<1>2. CASE pauseTerminalSpawnsForExit \/ Paused \/ PauseGivenUp \/ resumeTerminalSpawnsAfterExit
           \/ EndLeaving \/ ExitKillFailed \/ ExitAllTheSame
  <2>1. tabs' = tabs /\ shown' = shown /\ opened' = opened /\ bulk' = bulk
    BY <1>2 DEF pauseTerminalSpawnsForExit, Paused, PauseGivenUp, ExitKillFailed,
         resumeTerminalSpawnsAfterExit, EndLeaving, ExitAllTheSame, exitFrame, storeVars
  <2>2. QED
    BY <2>1, SamePanesUnchanged, ShownKept
<1>3. CASE ExitKilled
  BY <1>3, EndedKeepsPane, ShownKept DEF ExitKilled, Put, paneVars
<1>4. QED
  BY <1>1, <1>2, <1>3 DEF Exit

----------------------------------------------------------------------------
(* The invariant. *)

TermInv == termTypeOK /\ BulkIsWaited /\ ReservedIsWaited /\ PanesOwn

LEMMA InitTermInv == Init => TermInv
<1>1. SUFFICES ASSUME Init PROVE TermInv
  OBVIOUS
<1>2. termTypeOK
  BY <1>1, TypeInit
<1>3. Calls = {}
  BY <1>1 DEF Init, Calls, Told, Range
<1>4. BulkIsWaited /\ ReservedIsWaited
  BY <1>1, <1>3 DEF Init, BulkIsWaited, ReservedIsWaited, Busy
<1>5. PanesOwn
  <2>1. EachItsOwn(shown) /\ bulk = NoBulk
    BY <1>1 DEF Init
  <2>2. QED
    BY <1>2, <2>1, TerminalConstants
    DEF PanesOwn, PanesShowTheirOwn, KeptInItsPane, EachItsOwn, Owned, termTypeOK
<1>6. QED
  BY <1>2, <1>4, <1>5 DEF TermInv

LEMMA StoreTermInv ==
  ASSUME TermInv, Store
  PROVE  TermInv'
<1>1. BulkIsWaited'
  BY BulkStore DEF TermInv
<1>2. ASSUME NEW id \in Ids, NEW task \in BOOLEAN,
             \/ addScriptTerminal(id, task) \/ addTerminal \/ ProfileTrusted(id) \/ ProfileRefused
             \/ spawnPendingTerminal(id) \/ spawnRestoredTerminals
             \/ Spawned \/ SpawnCancelled \/ SpawnFailed \/ CancelAnswered
      PROVE  termTypeOK' /\ ReservedIsWaited' /\ PanesOwn'
  BY <1>2, TypeNewTabs, TypeSpawns, ReservedSpawns, PanesSpawns DEF TermInv
<1>3. ASSUME NEW id \in Ids,
             \/ closeTerminal(id) \/ Closed \/ CloseFailed
             \/ closeAllProjectTerminals \/ closeOtherTerminals(id) \/ BulkAnswered
      PROVE  termTypeOK' /\ ReservedIsWaited' /\ PanesOwn'
  BY <1>3, TypeCloses, ReservedCloses, PanesCloses DEF TermInv, BulkIsWaited
<1>4. ASSUME NEW id \in Ids, NEW job \in {"restart", "shell"},
             \/ restartTerminal(id) \/ reopenTerminalShell(id) \/ RestartAnswered(job)
             \/ enterShellAfterTask(id) \/ CheckFindsTask \/ CheckFindsNothing \/ CheckDropped
      PROVE  termTypeOK' /\ ReservedIsWaited' /\ PanesOwn'
  BY <1>4, TypeRestarts, ReservedRestarts, PanesRestarts DEF TermInv
<1>5. ASSUME NEW id \in Ids, NEW pane \in Panes, NEW quick \in BOOLEAN,
             \/ ExitExpected \/ ExitEnds(quick) \/ ExitCuts
             \/ setTerminalFocusPane(pane) \/ setActiveTerminal(id) \/ activateProject
      PROVE  termTypeOK' /\ ReservedIsWaited' /\ PanesOwn'
  BY <1>5, TypeExitsAndPanes, ReservedExitsAndPanes, PanesExitsAndPanes DEF TermInv
<1>6. QED
  <2>1. Ids # {} /\ Panes # {} /\ TRUE \in BOOLEAN /\ "restart" \in {"restart", "shell"}
    BY TerminalConstants
  <2>2. termTypeOK' /\ ReservedIsWaited' /\ PanesOwn'
    <3>1. CASE \/ \E id \in Ids : \E task \in BOOLEAN : addScriptTerminal(id, task)
               \/ addTerminal \/ ProfileRefused \/ spawnRestoredTerminals
               \/ \E id \in Ids : ProfileTrusted(id) \/ spawnPendingTerminal(id)
               \/ Spawned \/ SpawnCancelled \/ SpawnFailed \/ CancelAnswered
      BY <1>2, <2>1, <3>1
    <3>2. CASE \/ \E id \in Ids : closeTerminal(id) \/ closeOtherTerminals(id)
               \/ Closed \/ CloseFailed \/ closeAllProjectTerminals \/ BulkAnswered
      BY <1>3, <2>1, <3>2
    <3>3. CASE \/ \E id \in Ids : restartTerminal(id) \/ reopenTerminalShell(id)
                                   \/ enterShellAfterTask(id)
               \/ \E job \in {"restart", "shell"} : RestartAnswered(job)
               \/ CheckFindsTask \/ CheckFindsNothing \/ CheckDropped
      BY <1>4, <2>1, <3>3
    <3>4. CASE \/ ExitExpected \/ ExitCuts \/ \E quick \in BOOLEAN : ExitEnds(quick)
               \/ \E pane \in Panes : setTerminalFocusPane(pane)
               \/ \E id \in Ids : setActiveTerminal(id)
               \/ activateProject
      BY <1>5, <2>1, <3>4
    <3>5. QED
      BY <3>1, <3>2, <3>3, <3>4 DEF Store
  <2>3. QED
    BY <1>1, <2>2 DEF TermInv

LEMMA NextTermInv == TermInv /\ [Next]_vars => TermInv'
<1>1. SUFFICES ASSUME TermInv, [Next]_vars PROVE TermInv'
  OBVIOUS
<1>2. CASE Store
  BY <1>1, <1>2, StoreTermInv
<1>3. CASE Exit
  BY <1>1, <1>3, TypeLeaving, BulkOthers, ReservedLeaving, PanesOthers DEF TermInv
<1>4. CASE Backend
  BY <1>1, <1>4, TypeBackend, BulkOthers, ReservedBackend, PanesOthers DEF TermInv
<1>5. CASE UNCHANGED vars
  <2>1. /\ UNCHANGED storeVars /\ UNCHANGED exitVars /\ requests' = requests /\ inbox' = inbox
        /\ shells' = shells /\ routed' = routed
    BY <1>5 DEF vars
  <2>2. termTypeOK' /\ PanesOwn'
    BY <1>1, <2>1 DEF TermInv, termTypeOK, PanesOwn, PanesShowTheirOwn, KeptInItsPane, Live,
         storeVars, exitVars
  <2>3. BulkIsWaited' /\ ReservedIsWaited'
    BY <1>1, <2>1 DEF TermInv, BulkIsWaited, ReservedIsWaited, Busy, Calls, Told, storeVars
  <2>4. QED
    BY <2>2, <2>3 DEF TermInv
<1>6. QED
  BY <1>1, <1>2, <1>3, <1>4, <1>5 DEF Next

\* The types, the marks and the panes of the terminals together, and that a close of many
\* tabs remembers what it closes until the last of its kills has been answered.
THEOREM TerminalsInvariant == Spec => []TermInv
BY InitTermInv, NextTermInv, PTL DEF Spec

\* The terminal store, its requests and its messages are of the right types.
THEOREM TerminalsTypeCorrect == Spec => []termTypeOK
<1>1. TermInv => termTypeOK
  BY DEF TermInv
<1>2. QED
  BY <1>1, TerminalsInvariant, PTL

\* Every mark that pauseTerminalSpawnsForExit waits for stands for a call under way, whatever
\* fails, is closed, restarted or finished meanwhile: none is left behind to make every later
\* exit time out.
THEOREM MarksAreWaited == Spec => []ReservedIsWaited
<1>1. TermInv => ReservedIsWaited
  BY DEF TermInv
<1>2. QED
  BY <1>1, TerminalsInvariant, PTL

\* No pane of the terminal panel shows a terminal of another pane.
THEOREM PanesShowOwn == Spec => []PanesShowTheirOwn
<1>1. TermInv => PanesShowTheirOwn
  BY DEF TermInv, PanesOwn
<1>2. QED
  BY <1>1, TerminalsInvariant, PTL

----------------------------------------------------------------------------
(***************************************************************************)
(* A tab that says it runs has a session, for any number of terminals and  *)
(* any order of the backend's work.  The argument follows one terminal: a  *)
(* message that says its session is open is either right, or followed by   *)
(* the news that it has ended; and news of an end that the store ignores,  *)
(* because the end was intended, leaves the one who intended it at work.   *)
(***************************************************************************)

\* What is called or told once a session has ended, or is being ended.
EndJobs == {"close", "bulk", "restart", "shell", "exit", "exited"}

Running(id) == id \in Live /\ tabs[id].status = "running"
InBulk(id) == bulk # NoBulk /\ id \in bulk.ids

\* Nothing is of a terminal that has not been opened.
OpenedOnly ==
  /\ \A c \in Calls : c.id \in opened
  /\ shells \subseteq opened /\ leaving \subseteq opened /\ held.kills \subseteq opened

\* Only a session without a tab is cancelled.
CancelledIsClosed == \A c \in Calls : c.job = "cancel" => c.id \notin Live

BulkIsOfItsTabs == \A c \in Calls : c.job = "bulk" => InBulk(c.id)
BegunAreKills == \A r \in requests : r.begun => r.job \in KillJobs

\* Whoever expects the exit of a tab's shell has not finished with that tab.
KillsAreIntended ==
  \A id \in held.kills \cap Live : id \in Busy({"close", "restart", "shell"}) \/ InBulk(id)

SaysOpen(m) ==
  \/ m.job = "create" /\ m.result = "ok"
  \/ m.job = "check" /\ m.result = "open"

\* The session of id is open, is being closed, or its end is told after the i-th message.
OpenOrTold(id, i) ==
  \/ id \in shells
  \/ \E r \in requests : r.id = id /\ r.begun
  \/ \E j \in 1 .. Len(inbox) : j > i /\ inbox[j].id = id /\ inbox[j].job \in EndJobs

OpenIsTrue ==
  \A i \in 1 .. Len(inbox) :
    SaysOpen(inbox[i]) /\ inbox[i].id \in Live => OpenOrTold(inbox[i].id, i)

RunningIsOpen ==
  \A id \in Live \ (shells \cup hollow) :
    Running(id) => id \in Busy(EndJobs) \/ InBulk(id)

Quieter == OpenedOnly /\ CancelledIsClosed /\ BulkIsOfItsTabs /\ BegunAreKills

ShellInv == TermInv /\ Quieter /\ KillsAreIntended /\ OpenIsTrue /\ RunningIsOpen

LEMMA InitShellInv == Init => ShellInv
<1>1. SUFFICES ASSUME Init PROVE ShellInv
  OBVIOUS
<1>2. TermInv /\ Calls = {} /\ requests = {} /\ inbox = <<>>
  <2>1. requests = {} /\ inbox = <<>>
    BY <1>1 DEF Init
  <2>2. Calls = {}
    BY <2>1 DEF Calls, Told, Range
  <2>3. QED
    BY <1>1, <2>1, <2>2, InitTermInv
<1>3. /\ shells \subseteq opened /\ leaving = {} /\ held.kills = {}
      /\ \A id \in Live : Running(id) => id \in shells
  BY <1>1 DEF Init, Running, Live
<1>4. QED
  BY <1>2, <1>3 DEF ShellInv, Quieter, OpenedOnly, CancelledIsClosed, BulkIsOfItsTabs,
       BegunAreKills, KillsAreIntended, OpenIsTrue, RunningIsOpen

----------------------------------------------------------------------------
(* The steps of the store and of the exit. *)

\* What no step of the store does: it opens and closes no session, serves no call, and makes
\* no tab for a terminal opened before.
StoreFrame ==
  /\ shells' = shells /\ opened \subseteq opened' /\ hollow \subseteq hollow'
  /\ requests \subseteq requests'
  /\ inbox' = inbox \/ (inbox # <<>> /\ inbox' = Tail(inbox))
  /\ Live' \cap opened \subseteq Live

\* The calls a step of the store makes.
NewCallsFrame ==
  \A r \in requests' \ requests :
    /\ ~r.begun /\ r.id \in opened
    /\ r.job = "cancel" => r.id \notin Live
    /\ r.job = "bulk" => InBulk(r.id)'

\* A close of many tabs goes on with those it began with, until they are gone.
BulkFrame == \A id \in Live' : InBulk(id) => InBulk(id)'

LEMMA NewCallsAre ==
  ASSUME NEW job, NEW ids
  PROVE  \A r \in NewCalls(job, ids) : r.job = job /\ r.id \in ids /\ ~r.begun
BY DEF NewCalls

LEMMA InboxShrinks ==
  ASSUME inbox \in Seq(Message), inbox # <<>>, inbox' = Tail(inbox)
  PROVE  /\ Len(inbox) \in Nat /\ Len(inbox') = Len(inbox) - 1
         /\ \A i \in 1 .. Len(inbox') : inbox'[i] = inbox[i + 1]
BY HeadTailProperties, EmptySeq

LEMMA InboxGrows ==
  ASSUME inbox \in Seq(Message), NEW m \in Message, inbox' = Append(inbox, m)
  PROVE  /\ Len(inbox) \in Nat /\ Len(inbox') = Len(inbox) + 1
         /\ \A i \in 1 .. Len(inbox) : inbox'[i] = inbox[i]
         /\ inbox'[Len(inbox) + 1] = m
BY AppendProperties, LenProperties

LEMMA CallsInFrame ==
  ASSUME termTypeOK, StoreFrame
  PROVE  Calls' \subseteq Calls \cup (requests' \ requests)
BY InboxHead DEF StoreFrame, Calls, Told, termTypeOK

LEMMA OpenKept ==
  ASSUME termTypeOK, OpenedOnly, OpenIsTrue, StoreFrame
  PROVE  OpenIsTrue'
<1>1. CASE inbox' = inbox
  <2>1. SUFFICES ASSUME NEW i \in 1 .. Len(inbox), SaysOpen(inbox[i]), inbox[i].id \in Live'
                 PROVE  OpenOrTold(inbox[i].id, i)'
    BY <1>1 DEF OpenIsTrue, SaysOpen
  <2>2. inbox[i] \in Calls
    BY LenProperties DEF Calls, Told, Range, termTypeOK
  <2>3. OpenOrTold(inbox[i].id, i)
    BY <2>1, <2>2 DEF OpenIsTrue, OpenedOnly, StoreFrame
  <2>4. QED
    BY <1>1, <2>3 DEF OpenOrTold, StoreFrame
<1>2. CASE inbox # <<>> /\ inbox' = Tail(inbox)
  <2>1. /\ Len(inbox) \in Nat /\ Len(inbox') = Len(inbox) - 1
        /\ \A i \in 1 .. Len(inbox') : inbox'[i] = inbox[i + 1]
    BY <1>2, InboxShrinks DEF termTypeOK
  <2>2. SUFFICES ASSUME NEW i \in 1 .. Len(inbox'), SaysOpen(inbox'[i]), inbox'[i].id \in Live'
                 PROVE  OpenOrTold(inbox[i].id, i)'
    BY DEF OpenIsTrue, SaysOpen
  <2>3. i + 1 \in 1 .. Len(inbox) /\ inbox'[i] = inbox[i + 1]
    BY <2>1
  <2>4. inbox[i + 1] \in Calls
    BY <2>3, LenProperties DEF Calls, Told, Range, termTypeOK
  <2>5. OpenOrTold(inbox[i + 1].id, i + 1)
    BY <2>2, <2>3, <2>4 DEF OpenIsTrue, OpenedOnly, StoreFrame
  <2>6. ASSUME NEW j \in 1 .. Len(inbox), j > i + 1
        PROVE  j - 1 \in 1 .. Len(inbox') /\ j - 1 > i /\ inbox'[j - 1] = inbox[j]
    BY <2>1, <2>6
  <2>7. QED
    BY <2>3, <2>5, <2>6 DEF OpenOrTold, StoreFrame
<1>3. QED
  BY <1>1, <1>2 DEF StoreFrame

LEMMA QuieterKept ==
  ASSUME termTypeOK, Quieter, StoreFrame, NewCallsFrame,
         \A c \in Calls' : c \in Calls /\ c.job = "bulk" => InBulk(c.id)',
         leaving' \subseteq leaving \cup opened, held'.kills \subseteq held.kills \cup opened
  PROVE  Quieter'
<1>1. Calls' \subseteq Calls \cup (requests' \ requests)
  BY CallsInFrame
<1>2. OpenedOnly'
  BY <1>1 DEF Quieter, OpenedOnly, StoreFrame, NewCallsFrame
<1>3. CancelledIsClosed'
  BY <1>1 DEF Quieter, OpenedOnly, CancelledIsClosed, StoreFrame, NewCallsFrame
<1>4. BulkIsOfItsTabs'
  BY <1>1 DEF BulkIsOfItsTabs, NewCallsFrame
<1>5. BegunAreKills'
  BY DEF Quieter, BegunAreKills, NewCallsFrame
<1>6. QED
  BY <1>2, <1>3, <1>4, <1>5 DEF Quieter

\* No tab begins to run without a session, and an end that is taken from the inbox leaves its
\* tab gone, not running, hollow, or in the hands of someone else.
LEMMA RunningKept ==
  ASSUME termTypeOK, RunningIsOpen, StoreFrame, BulkFrame, NEW subject, subject = Subject,
         \A id \in Live' : Running(id)' => Running(id) \/ id \in shells \cup Busy(EndJobs)',
         \/ inbox' = inbox
         \/ Head(inbox).job \notin EndJobs \/ subject \in shells
         \/ ~Running(subject)' \/ subject \in hollow' \/ InBulk(subject)'
         \/ subject \in Busy(EndJobs)'
  PROVE  RunningIsOpen'
<1>1. SUFFICES ASSUME NEW id \in Live' \ (shells' \cup hollow'), Running(id)'
               PROVE  id \in Busy(EndJobs)' \/ InBulk(id)'
  BY DEF RunningIsOpen
<1>2. id \in Busy(EndJobs) \/ InBulk(id) \/ id \in Busy(EndJobs)'
  BY <1>1 DEF RunningIsOpen, Running, StoreFrame
<1>3. CASE InBulk(id)
  BY <1>3 DEF BulkFrame
<1>4. CASE id \in Busy(EndJobs)
  <2>1. PICK c \in Calls : c.id = id /\ c.job \in EndJobs
    BY <1>4 DEF Busy
  <2>2. CASE c \in Calls'
    BY <2>1, <2>2 DEF Busy
  <2>3. CASE c \notin Calls'
    <3>1. inbox' # inbox /\ c = Head(inbox)
      BY <2>3, InboxHead DEF StoreFrame, Calls, Told, termTypeOK
    <3>2. QED
      BY <1>1, <2>1, <3>1 DEF Subject, StoreFrame
  <2>4. QED
    BY <2>2, <2>3
<1>5. QED
  BY <1>2, <1>3, <1>4

LEMMA KillsKept ==
  ASSUME termTypeOK, OpenedOnly, KillsAreIntended, StoreFrame, BulkFrame,
         NEW subject, subject = Subject,
         \A id \in held'.kills \cap Live' :
           id \in held.kills \cup Busy({"close", "restart", "shell"})' \/ InBulk(id)',
         \/ inbox' = inbox
         \/ Head(inbox).job \notin {"close", "restart", "shell"}
         \/ subject \notin held'.kills \cap Live'
  PROVE  KillsAreIntended'
<1>1. SUFFICES ASSUME NEW id \in held.kills, id \in held'.kills \cap Live'
               PROVE  id \in Busy({"close", "restart", "shell"})' \/ InBulk(id)'
  BY DEF KillsAreIntended
<1>2. id \in Busy({"close", "restart", "shell"}) \/ InBulk(id)
  BY <1>1 DEF KillsAreIntended, OpenedOnly, StoreFrame
<1>3. CASE InBulk(id)
  BY <1>1, <1>3 DEF BulkFrame
<1>4. CASE id \in Busy({"close", "restart", "shell"})
  <2>1. PICK c \in Calls : c.id = id /\ c.job \in {"close", "restart", "shell"}
    BY <1>4 DEF Busy
  <2>2. CASE c \in Calls'
    BY <2>1, <2>2 DEF Busy
  <2>3. CASE c \notin Calls'
    <3>1. inbox' # inbox /\ c = Head(inbox)
      BY <2>3, InboxHead DEF StoreFrame, Calls, Told, termTypeOK
    <3>2. QED
      BY <1>1, <2>1, <3>1 DEF Subject
  <2>4. QED
    BY <2>2, <2>3
<1>5. QED
  BY <1>2, <1>3, <1>4

\* What an answered call still needs to have been when it is taken: see RunningKept, KillsKept.
EndTaken(subject) ==
  \/ Head(inbox).job \notin EndJobs \/ subject \in shells
  \/ ~Running(subject)' \/ subject \in hollow' \/ InBulk(subject)'
  \/ subject \in Busy(EndJobs)'

KillTaken(subject) ==
  Head(inbox).job \notin {"close", "restart", "shell"} \/ subject \notin held'.kills \cap Live'

\* A step of the store that does not touch a close of many tabs.
LEMMA StoreKeeps ==
  ASSUME ShellInv, StoreFrame, NewCallsFrame, bulk' = bulk, leaving' \subseteq leaving \cup opened,
         inbox' = inbox \/ \A id : id = Subject => EndTaken(id) /\ KillTaken(id),
         \A id \in Live' : Running(id)' => Running(id) \/ id \in shells \cup Busy(EndJobs)',
         held'.kills \subseteq held.kills \cup opened,
         \A id \in held'.kills \cap Live' :
           id \in held.kills \cup Busy({"close", "restart", "shell"})' \/ InBulk(id)'
  PROVE  Quieter' /\ KillsAreIntended' /\ OpenIsTrue' /\ RunningIsOpen'
<1>1. \A id : InBulk(id)' <=> InBulk(id)
  BY DEF InBulk
<1>2. Quieter'
  BY <1>1, QuieterKept DEF ShellInv, TermInv, Quieter, BulkIsOfItsTabs
<1>3. BulkFrame
  BY <1>1 DEF BulkFrame
<1> PICK subject : subject = Subject
  OBVIOUS
<1>4. KillsAreIntended'
  BY <1>3, KillsKept DEF ShellInv, TermInv, Quieter, KillTaken
<1>5. OpenIsTrue'
  BY OpenKept DEF ShellInv, TermInv, Quieter
<1>6. RunningIsOpen'
  BY <1>3, RunningKept DEF ShellInv, TermInv, EndTaken
<1>7. QED
  BY <1>2, <1>4, <1>5, <1>6

LEMMA NoNewCalls == requests' = requests => NewCallsFrame
BY DEF NewCallsFrame

LEMMA SomeNewCalls ==
  ASSUME NEW job, job \notin {"cancel", "bulk"}, NEW ids, ids \subseteq opened,
         requests' = requests \cup NewCalls(job, ids)
  PROVE  NewCallsFrame
BY NewCallsAre DEF NewCallsFrame

\* The tabs stay those they were, and none begins to run.
TabsFrame == Live' \subseteq Live /\ \A id \in Live' : Running(id)' => Running(id)

LEMMA SameTabs == tabs' = tabs => TabsFrame
BY DEF TabsFrame, Live, Running

LEMMA EndedTabs ==
  ASSUME termTypeOK, NEW id, tabs' = Ended(id)
  PROVE  TabsFrame /\ ~Running(id)'
BY DEF Ended, With, TabsFrame, Running, termTypeOK, Live, Tab

LEMMA CreatedTabs ==
  ASSUME NEW old \in [Live -> Tab], NEW ids, tabs' = Created(ids, old)
  PROVE  Live' = Live /\ \A id \in Live : tabs'[id].status = old[id].status
<1>1. \A tab \in Tab : [tab EXCEPT !.pending = FALSE].status = tab.status
  BY DEF Tab
<1>2. QED
  BY <1>1 DEF Created, Live

----------------------------------------------------------------------------
(* Each of them. *)

LEMMA ShellNewTabs ==
  ASSUME ShellInv, NEW id \in Ids, NEW task \in BOOLEAN,
         addScriptTerminal(id, task) \/ addTerminal \/ ProfileTrusted(id) \/ ProfileRefused
  PROVE  Quieter' /\ KillsAreIntended' /\ OpenIsTrue' /\ RunningIsOpen'
<1>1. /\ requests' = requests /\ inbox' = inbox /\ shells' = shells /\ hollow' = hollow
      /\ bulk' = bulk /\ held' = held /\ leaving' = leaving
  BY DEF addScriptTerminal, addTerminal, ProfileTrusted, ProfileRefused, exitVars, ghosts
<1>2. CASE tabs' = tabs /\ opened' = opened
  <2>1. StoreFrame
    BY <1>1, <1>2, SameTabs DEF StoreFrame, TabsFrame
  <2>2. QED
    BY <1>1, <1>2, <2>1, NoNewCalls, SameTabs, StoreKeeps
    DEF TabsFrame, ShellInv, Quieter, OpenedOnly
<1>3. CASE \E t \in BOOLEAN : NewTab(id, t)
  <2>1. /\ id \notin opened /\ opened' = opened \cup {id} /\ Live' = Live \cup {id}
        /\ \A i \in Live' : Running(i)' => Running(i)
    BY <1>3 DEF NewTab, Put, Running, Live, ShellInv, TermInv, termTypeOK
  <2>2. StoreFrame
    BY <1>1, <2>1 DEF StoreFrame
  <2>3. QED
    BY <1>1, <2>1, <2>2, NoNewCalls, StoreKeeps DEF ShellInv, Quieter, OpenedOnly
<1>4. QED
  BY <1>2, <1>3 DEF addScriptTerminal, addTerminal, ProfileTrusted, ProfileRefused

LEMMA ShellSpawns ==
  ASSUME ShellInv, NEW id \in Ids,
         \/ spawnPendingTerminal(id) \/ spawnRestoredTerminals
         \/ SpawnCancelled \/ SpawnFailed \/ CancelAnswered
  PROVE  Quieter' /\ KillsAreIntended' /\ OpenIsTrue' /\ RunningIsOpen'
<1> USE DEF ShellInv, TermInv
<1>1. /\ shells' = shells /\ hollow' = hollow /\ bulk' = bulk /\ leaving' = leaving
      /\ opened' = opened
  BY DEF spawnPendingTerminal, spawnRestoredTerminals, SpawnCancelled, SpawnFailed,
         CancelAnswered, storeVars, exitVars, ghosts
<1>2. held'.kills = held.kills
  BY DEF spawnPendingTerminal, spawnRestoredTerminals, SpawnCancelled, SpawnFailed,
         CancelAnswered, storeVars, termTypeOK
<1>3. CASE spawnPendingTerminal(id)
  <2>1. TabsFrame
    BY <1>3, CreatedTabs DEF spawnPendingTerminal, Put, TabsFrame, Running, termTypeOK
  <2>2. StoreFrame
    BY <1>1, <1>3, <2>1 DEF StoreFrame, spawnPendingTerminal, TabsFrame
  <2>3. NewCallsFrame
    BY <1>3, SomeNewCalls DEF spawnPendingTerminal, termTypeOK
  <2>4. QED
    BY <1>1, <1>2, <1>3, <2>1, <2>2, <2>3, StoreKeeps DEF spawnPendingTerminal, TabsFrame
<1>4. CASE spawnRestoredTerminals
  <2> DEFINE ids == {i \in Live : tabs[i].restored} \ Busy({"create"})
             now == IF exit = "open" THEN ids \ held.spawns ELSE {}
             starting == [i \in Live |-> IF i \in ids
                            THEN [tabs[i] EXCEPT !.status = "starting", !.pending = TRUE]
                            ELSE tabs[i]]
  <2>1. starting \in [Live -> Tab] /\ \A i \in Live : starting[i].status \in {tabs[i].status, "starting"}
    <3>1. starting \in [Live -> Tab]
      BY TabType DEF termTypeOK
    <3>2. \A i \in Live :
            [tabs[i] EXCEPT !.status = "starting", !.pending = TRUE].status = "starting"
      BY DEF termTypeOK, Tab
    <3>3. QED
      BY <3>1, <3>2
  <2>2. /\ tabs' = Created(now, starting) /\ now \subseteq Live
        /\ requests' = requests \cup NewCalls("create", now) /\ inbox' = inbox
    BY <1>4 DEF spawnRestoredTerminals, Put
  <2> HIDE DEF starting, now
  <2>3. TabsFrame
    BY <2>1, <2>2, CreatedTabs DEF TabsFrame, Running
  <2>4. StoreFrame
    BY <1>1, <2>2, <2>3 DEF StoreFrame, TabsFrame
  <2>5. NewCallsFrame
    BY <2>2, SomeNewCalls DEF termTypeOK
  <2>6. QED
    BY <1>1, <1>2, <2>2, <2>3, <2>4, <2>5, StoreKeeps DEF TabsFrame
<1>5. CASE SpawnCancelled \/ CancelAnswered
  <2>1. TabsFrame
    BY <1>5, SameTabs DEF SpawnCancelled, CancelAnswered, storeVars
  <2>2. inbox # <<>> /\ inbox' = Tail(inbox) /\ Head(inbox).job \in {"create", "cancel"}
    BY <1>5 DEF SpawnCancelled, CancelAnswered, Receive
  <2>3. StoreFrame
    BY <1>1, <1>5, <2>1, <2>2 DEF StoreFrame, SpawnCancelled, CancelAnswered, TabsFrame
  <2>4. NewCallsFrame
    <3>1. Subject \in opened
      BY <2>2, InboxHead DEF Subject, Quieter, OpenedOnly, Calls, Told, termTypeOK
    <3>2. QED
      BY <1>5, <3>1, NewCallsAre DEF SpawnCancelled, CancelAnswered, NewCallsFrame
  <2>5. \A i : i = Subject => EndTaken(i) /\ KillTaken(i)
    BY <2>2 DEF EndTaken, KillTaken, EndJobs
  <2>6. QED
    BY <1>1, <1>2, <2>1, <2>3, <2>4, <2>5, StoreKeeps DEF TabsFrame
<1>6. CASE SpawnFailed
  <2>1. TabsFrame
    BY <1>6, EndedTabs DEF SpawnFailed, Put
  <2>2. inbox # <<>> /\ inbox' = Tail(inbox) /\ Head(inbox).job = "create" /\ requests' = requests
    BY <1>6 DEF SpawnFailed, Receive
  <2>3. StoreFrame
    BY <1>1, <2>1, <2>2 DEF StoreFrame, TabsFrame
  <2>4. \A i : i = Subject => EndTaken(i) /\ KillTaken(i)
    BY <2>2 DEF EndTaken, KillTaken, EndJobs
  <2>5. QED
    BY <1>1, <1>2, <2>1, <2>2, <2>3, <2>4, NoNewCalls, StoreKeeps DEF TabsFrame
<1>7. QED
  BY <1>3, <1>4, <1>5, <1>6

\* A message that says so is right: the session of its tab is there, or its end is under way.
LEMMA SaidOpen ==
  ASSUME ShellInv, NEW job, NEW results, Receive(job, results), SaysOpen(Head(inbox)),
         requests' = requests, NEW subject, subject = Subject, subject \in Live
  PROVE  subject \in shells \cup Busy(EndJobs)'
<1>1. /\ inbox # <<>> /\ inbox' = Tail(inbox) /\ inbox \in Seq(Message)
      /\ Len(inbox) \in Nat \ {0} /\ Head(inbox) = inbox[1]
  BY EmptySeq, LenProperties DEF Receive, ShellInv, TermInv, termTypeOK
<1>2. OpenOrTold(subject, 1)
  BY <1>1 DEF ShellInv, OpenIsTrue, Subject
<1>3. CASE \E r \in requests : r.id = subject /\ r.begun
  <2>1. PICK r \in requests : r.id = subject /\ r.begun
    BY <1>3
  <2>2. r \in Calls' /\ r \in Calls
    BY <2>1 DEF Calls
  <2>3. r.job \in KillJobs /\ r.job # "cancel"
    BY <2>1, <2>2 DEF ShellInv, Quieter, BegunAreKills, CancelledIsClosed
  <2>4. r.job \in EndJobs
    BY <2>3 DEF KillJobs, Jobs, EndJobs
  <2>5. QED
    BY <2>1, <2>2, <2>4 DEF Busy
<1>4. CASE \E j \in 1 .. Len(inbox) : j > 1 /\ inbox[j].id = subject /\ inbox[j].job \in EndJobs
  <2>1. PICK j \in 1 .. Len(inbox) : j > 1 /\ inbox[j].id = subject /\ inbox[j].job \in EndJobs
    BY <1>4
  <2>2. j - 1 \in 1 .. Len(inbox') /\ inbox[j] = inbox'[j - 1]
    BY <1>1, <2>1, InboxShrinks
  <2>3. inbox' \in Seq(Message)
    BY <1>1, InboxHead
  <2>4. inbox[j] \in Calls'
    BY <2>2, <2>3, LenProperties DEF Calls, Told, Range
  <2>5. QED
    BY <2>1, <2>4 DEF Busy
<1>5. QED
  BY <1>2, <1>3, <1>4 DEF OpenOrTold

LEMMA ShellStarts ==
  ASSUME ShellInv, Spawned \/ CheckFindsTask
  PROVE  Quieter' /\ KillsAreIntended' /\ OpenIsTrue' /\ RunningIsOpen'
<1>1. /\ shells' = shells /\ hollow' = hollow /\ bulk' = bulk /\ leaving' = leaving
      /\ opened' = opened /\ requests' = requests /\ held'.kills = held.kills
      /\ inbox # <<>> /\ inbox' = Tail(inbox)
  BY DEF Spawned, CheckFindsTask, Receive, exitVars, ghosts, ShellInv, TermInv, termTypeOK
<1>2. Receive("create", {"ok"}) \/ Receive("check", {"open"})
  BY DEF Spawned, CheckFindsTask
<1>3. SaysOpen(Head(inbox)) /\ Head(inbox).job \in {"create", "check"}
  BY <1>2 DEF Receive, SaysOpen
<1> PICK subject : subject = Subject
  OBVIOUS
<1>4. Live' = Live /\ \A id \in Live' : Running(id)' => Running(id) \/ id = subject
  BY DEF Spawned, CheckFindsTask, Put, Live, Running, ShellInv, TermInv, termTypeOK
<1>5. \A id \in Live' : Running(id)' => Running(id) \/ id \in shells \cup Busy(EndJobs)'
  BY <1>1, <1>2, <1>3, <1>4, SaidOpen
<1>6. StoreFrame
  BY <1>1, <1>4 DEF StoreFrame
<1>7. \A i : i = Subject => EndTaken(i) /\ KillTaken(i)
  BY <1>3 DEF EndTaken, KillTaken, EndJobs
<1>8. QED
  BY <1>1, <1>5, <1>6, <1>7, NoNewCalls, StoreKeeps

LEMMA RemovedTabs ==
  ASSUME NEW id, RemoveTab(id)
  PROVE  TabsFrame /\ id \notin Live'
BY DEF RemoveTab, Put, Restrict, TabsFrame, Live, Running

LEMMA ShellCloses ==
  ASSUME ShellInv, NEW id \in Ids, closeTerminal(id) \/ Closed \/ CloseFailed
  PROVE  Quieter' /\ KillsAreIntended' /\ OpenIsTrue' /\ RunningIsOpen'
<1>1. /\ shells' = shells /\ bulk' = bulk /\ leaving' = leaving /\ opened' = opened
  BY DEF closeTerminal, Closed, CloseFailed, exitVars, ghosts
<1>2. CASE closeTerminal(id)
  <2>1. /\ inbox' = inbox /\ hollow' = hollow /\ id \in Live /\ held'.kills = held.kills \cup {id}
        /\ requests' = requests \cup NewCalls("close", Killed({id}))
    BY <1>2 DEF closeTerminal, Claim, ghosts, ShellInv, TermInv, termTypeOK
  <2>2. TabsFrame
    BY <1>2, RemovedTabs, SameTabs DEF closeTerminal
  <2>3. StoreFrame
    BY <1>1, <2>1, <2>2 DEF StoreFrame, TabsFrame
  <2>4. id \in opened /\ Killed({id}) \subseteq {id}
    BY <2>1 DEF Killed, ShellInv, TermInv, termTypeOK
  <2>5. NewCallsFrame
    BY <2>1, <2>4, SomeNewCalls
  <2>6. id \in Live' => id \in Busy({"close", "restart", "shell"})'
    <3>1. CASE tabs[id].restored
      BY <1>2, <3>1, RemovedTabs DEF closeTerminal
    <3>2. CASE ~tabs[id].restored
      <4>1. id \in Killed({id})
        BY <3>2 DEF Killed
      <4>2. QED
        BY <2>1, <4>1, CallsMade
    <3>3. QED
      BY <3>1, <3>2
  <2>7. QED
    BY <1>1, <2>1, <2>2, <2>3, <2>4, <2>5, <2>6, StoreKeeps DEF TabsFrame
<1>3. CASE Closed \/ CloseFailed
  <2>1. /\ inbox # <<>> /\ inbox' = Tail(inbox) /\ requests' = requests /\ hollow \subseteq hollow'
        /\ held'.kills \subseteq held.kills
    BY <1>3 DEF Closed, CloseFailed, Receive, ghosts, ShellInv, TermInv, termTypeOK
  <2> PICK subject : subject = Subject
    OBVIOUS
  <2>2. TabsFrame
    BY <1>3, RemovedTabs, SameTabs DEF Closed, CloseFailed
  <2>3. StoreFrame
    BY <1>1, <2>1, <2>2 DEF StoreFrame, TabsFrame
  <2>4. EndTaken(subject) /\ KillTaken(subject)
    <3>1. CASE Closed
      <4>1. subject \notin Live'
        BY <3>1, RemovedTabs DEF Closed
      <4>2. QED
        BY <4>1 DEF EndTaken, KillTaken, Running
    <3>2. CASE CloseFailed
      <4>1. subject \in hollow' \cup shells /\ subject \notin held'.kills
        BY <3>2 DEF CloseFailed, ShellInv, TermInv, termTypeOK
      <4>2. QED
        BY <4>1 DEF EndTaken, KillTaken
    <3>3. QED
      BY <1>3, <3>1, <3>2
  <2>5. QED
    BY <1>1, <2>1, <2>2, <2>3, <2>4, NoNewCalls, StoreKeeps DEF TabsFrame, ShellInv, Quieter, OpenedOnly
<1>4. QED
  BY <1>2, <1>3

LEMMA RestartBegun ==
  ASSUME termTypeOK, NEW job \in {"restart", "shell"}, NEW id \in Ids, BeginRestart(job, id)
  PROVE  /\ held'.kills = held.kills \cup {id} /\ id \in Busy({"close", "restart", "shell"})'
         /\ id \in opened => NewCallsFrame
<1>1. held'.kills = held.kills \cup {id} /\ requests' = requests \cup NewCalls(job, {id})
  BY DEF BeginRestart, termTypeOK
<1>2. id \in Busy({"close", "restart", "shell"})'
  BY <1>1, CallsMade
<1>3. ASSUME id \in opened PROVE NewCallsFrame
  BY <1>1, <1>3, SomeNewCalls
<1>4. QED
  BY <1>1, <1>2, <1>3

LEMMA ShellRestarts ==
  ASSUME ShellInv, NEW id \in Ids,
         restartTerminal(id) \/ reopenTerminalShell(id) \/ enterShellAfterTask(id)
  PROVE  Quieter' /\ KillsAreIntended' /\ OpenIsTrue' /\ RunningIsOpen'
<1> USE DEF ShellInv, TermInv
<1>1. /\ shells' = shells /\ hollow' = hollow /\ bulk' = bulk /\ leaving' = leaving
      /\ opened' = opened /\ inbox' = inbox /\ id \in opened
  BY DEF restartTerminal, reopenTerminalShell, enterShellAfterTask, exitVars, ghosts, termTypeOK
<1>2. TabsFrame
  BY SameTabs
  DEF restartTerminal, reopenTerminalShell, enterShellAfterTask, Put, TabsFrame, Live, Running,
      termTypeOK, Tab
<1>3. /\ NewCallsFrame /\ requests \subseteq requests'
      /\ held'.kills \subseteq held.kills \cup ({id} \cap Busy({"close", "restart", "shell"})')
  <2>1. CASE enterShellAfterTask(id)
    BY <1>1, <2>1, SomeNewCalls DEF enterShellAfterTask
  <2>2. CASE BeginRestart("restart", id)
    BY <1>1, <2>2, RestartBegun DEF BeginRestart
  <2>3. CASE UNCHANGED <<held, requests>>
    BY <2>3, NoNewCalls
  <2>4. QED
    BY <2>1, <2>2, <2>3 DEF restartTerminal, reopenTerminalShell
<1>4. StoreFrame
  BY <1>1, <1>2, <1>3 DEF StoreFrame, TabsFrame
<1>5. QED
  BY <1>1, <1>2, <1>3, <1>4, StoreKeeps DEF TabsFrame

LEMMA ShellChecks ==
  ASSUME ShellInv, CheckFindsNothing \/ CheckDropped
  PROVE  Quieter' /\ KillsAreIntended' /\ OpenIsTrue' /\ RunningIsOpen'
<1> USE DEF ShellInv, TermInv
<1>1. /\ shells' = shells /\ hollow' = hollow /\ bulk' = bulk /\ leaving' = leaving
      /\ opened' = opened /\ inbox # <<>> /\ inbox' = Tail(inbox) /\ Head(inbox).job = "check"
  BY DEF CheckFindsNothing, CheckDropped, Receive, exitVars, ghosts
<1> PICK subject : subject = Subject
  OBVIOUS
<1>2. subject \in Ids /\ subject \in opened
  BY <1>1, InboxHead DEF Subject, Message, Quieter, OpenedOnly, Calls, Told, termTypeOK
<1>3. TabsFrame
  <2>1. tabs' = tabs \/ tabs' = [tabs EXCEPT ![subject].task = FALSE]
    BY DEF CheckFindsNothing, CheckDropped
  <2>2. ASSUME tabs' = [tabs EXCEPT ![subject].task = FALSE]
        PROVE  TabsFrame
    BY <2>2 DEF TabsFrame, Live, Running, termTypeOK, Tab
  <2>3. QED
    BY <2>1, <2>2, SameTabs
<1>4. /\ NewCallsFrame /\ requests \subseteq requests'
      /\ held'.kills \subseteq held.kills \cup ({subject} \cap Busy({"close", "restart", "shell"})')
  <2>1. CASE BeginRestart("shell", subject)
    BY <1>2, <2>1, RestartBegun DEF BeginRestart
  <2>2. CASE UNCHANGED <<held, requests>>
    BY <2>2, NoNewCalls
  <2>3. QED
    BY <2>1, <2>2 DEF CheckFindsNothing, CheckDropped
<1>5. StoreFrame
  BY <1>1, <1>3, <1>4 DEF StoreFrame, TabsFrame
<1>6. \A i : i = Subject => EndTaken(i) /\ KillTaken(i)
  BY <1>1 DEF EndTaken, KillTaken, EndJobs
<1>7. QED
  BY <1>1, <1>2, <1>3, <1>4, <1>5, <1>6, StoreKeeps DEF TabsFrame

LEMMA ShellRestarted ==
  ASSUME ShellInv, NEW job \in {"restart", "shell"}, RestartAnswered(job)
  PROVE  Quieter' /\ KillsAreIntended' /\ OpenIsTrue' /\ RunningIsOpen'
<1> USE DEF ShellInv, TermInv
<1>1. /\ shells' = shells /\ hollow' = hollow /\ bulk' = bulk /\ leaving' = leaving
      /\ opened' = opened /\ inbox # <<>> /\ inbox' = Tail(inbox)
  BY DEF RestartAnswered, Receive, exitVars
<1> PICK subject : subject = Subject
  OBVIOUS
<1> DEFINE fresh == With(subject, [tabs[subject] EXCEPT
                              !.status = "starting", !.restored = FALSE, !.pending = TRUE])
<1>2. PICK now \in SUBSET ({subject} \cap Live) :
        /\ tabs' = Created(now, fresh)
        /\ held' = [held EXCEPT !.kills = @ \ {subject}, !.restarts = @ \ {subject},
                                !.spawns = @ \cup now]
        /\ requests' = requests \cup NewCalls("create", now)
  BY DEF RestartAnswered
<1>3. /\ fresh \in [Live -> Tab] /\ \A i \in Live : fresh[i].status \in {tabs[i].status, "starting"}
      /\ subject \in Live => fresh[subject].status = "starting"
  <2>1. ASSUME subject \in Live
        PROVE  [tabs[subject] EXCEPT !.status = "starting", !.restored = FALSE, !.pending = TRUE].status
                 = "starting"
    BY <2>1 DEF termTypeOK, Tab
  <2>2. fresh \in [Live -> Tab]
    BY TabType, WithType DEF termTypeOK
  <2>3. QED
    BY <2>1, <2>2 DEF With, termTypeOK
<1> HIDE DEF fresh
<1>4. TabsFrame /\ ~Running(subject)'
  BY <1>2, <1>3, CreatedTabs DEF TabsFrame, Running
<1>5. StoreFrame
  BY <1>1, <1>2, <1>4 DEF StoreFrame, TabsFrame
<1>6. NewCallsFrame
  BY <1>2, SomeNewCalls DEF termTypeOK
<1>7. held'.kills = held.kills \ {subject}
  BY <1>2 DEF termTypeOK
<1>8. EndTaken(subject) /\ KillTaken(subject)
  BY <1>4, <1>7 DEF EndTaken, KillTaken
<1>9. QED
  BY <1>1, <1>4, <1>5, <1>6, <1>7, <1>8, StoreKeeps DEF TabsFrame, Quieter, OpenedOnly

LEMMA FinishedTabs ==
  ASSUME NEW b, FinishBulk(b)
  PROVE  TabsFrame /\ bulk' = NoBulk /\ \A id \in Live' : id \notin b.ids
BY DEF FinishBulk, Put, Restrict, TabsFrame, Live, Running

LEMMA ShellBulkBegins ==
  ASSUME ShellInv, bulk = NoBulk, NEW b \in BulkClose, b.ids \subseteq Live, BeginBulk(b)
  PROVE  Quieter' /\ KillsAreIntended' /\ OpenIsTrue' /\ RunningIsOpen'
<1> USE DEF ShellInv, TermInv
<1>1. /\ shells' = shells /\ hollow' = hollow /\ leaving' = leaving /\ opened' = opened
      /\ inbox' = inbox /\ held'.kills = held.kills \cup b.ids
      /\ requests' = requests \cup NewCalls("bulk", Killed(b.ids))
  BY DEF BeginBulk, Claim, exitVars, termTypeOK
<1>2. b.ids \subseteq opened /\ Killed(b.ids) \subseteq b.ids /\ b # NoBulk
  BY DEF Killed, BulkClose, NoBulk, termTypeOK
<1>3. TabsFrame
  BY FinishedTabs, SameTabs DEF BeginBulk
<1>4. \A id \in b.ids : InBulk(id)' \/ (id \notin Live' /\ Killed(b.ids) = {})
  BY <1>2, FinishedTabs DEF BeginBulk, InBulk
<1>5. StoreFrame
  BY <1>1, <1>3 DEF StoreFrame, TabsFrame
<1>6. NewCallsFrame
  BY <1>1, <1>2, <1>4, NewCallsAre DEF NewCallsFrame
<1>7. BulkFrame /\ \A c \in Calls : c.job # "bulk"
  BY DEF BulkFrame, InBulk, Quieter, BulkIsOfItsTabs
<1>8. Quieter'
  BY <1>1, <1>2, <1>5, <1>6, <1>7, QuieterKept
<1> PICK subject : subject = Subject
  OBVIOUS
<1>9. KillsAreIntended'
  BY <1>1, <1>4, <1>5, <1>7, KillsKept DEF Quieter
<1>10. RunningIsOpen'
  BY <1>1, <1>3, <1>5, <1>7, RunningKept DEF TabsFrame
<1>11. QED
  BY <1>5, <1>8, <1>9, <1>10, OpenKept DEF Quieter

LEMMA ShellBulkAnswered ==
  ASSUME ShellInv, BulkAnswered
  PROVE  Quieter' /\ KillsAreIntended' /\ OpenIsTrue' /\ RunningIsOpen'
<1> USE DEF ShellInv, TermInv
<1>1. /\ shells' = shells /\ hollow' = hollow /\ leaving' = leaving /\ opened' = opened
      /\ requests' = requests /\ held' = held
      /\ inbox # <<>> /\ inbox' = Tail(inbox) /\ Head(inbox).job = "bulk"
  BY DEF BulkAnswered, Receive, exitVars
<1> PICK subject : subject = Subject
  OBVIOUS
<1>2. bulk \in BulkClose /\ subject \in bulk.ids
  <2>1. Head(inbox) \in Calls
    BY <1>1, InboxHead DEF Calls, Told, termTypeOK
  <2>2. InBulk(subject)
    BY <1>1, <2>1 DEF Quieter, BulkIsOfItsTabs, Subject
  <2>3. QED
    BY <2>2 DEF InBulk, termTypeOK
<1> DEFINE b == [bulk EXCEPT !.failed = @ \cup IF Head(inbox).result = "failed"
                                              THEN {Subject} ELSE {}]
           others == {r \in requests : r.job = "bulk"} \cup {m \in Range(inbox') : m.job = "bulk"}
<1>3. b.ids = bulk.ids /\ b.kind = bulk.kind /\ b # NoBulk /\ bulk # NoBulk
  BY <1>2 DEF BulkClose, NoBulk
<1>4. IF others = {} THEN FinishBulk(b) ELSE bulk' = b /\ tabs' = tabs
  BY DEF BulkAnswered
<1> HIDE DEF b
<1>5. TabsFrame
  BY <1>4, FinishedTabs, SameTabs
<1>6. StoreFrame /\ NewCallsFrame
  BY <1>1, <1>5, NoNewCalls DEF StoreFrame, TabsFrame
<1>7. \A id \in bulk.ids : id \in Live' \/ others # {} => InBulk(id)'
  BY <1>3, <1>4, FinishedTabs DEF InBulk
<1>8. BulkFrame
  BY <1>7 DEF BulkFrame, InBulk
<1>9. Quieter'
  <2>1. ASSUME NEW c \in Calls', c \in Calls, c.job = "bulk"
        PROVE  InBulk(c.id)'
    <3>1. others # {}
      BY <1>1, <2>1 DEF Calls, Told
    <3>2. c.id \in bulk.ids
      BY <2>1 DEF Quieter, BulkIsOfItsTabs, InBulk
    <3>3. QED
      BY <1>7, <3>1, <3>2
  <2>2. QED
    BY <1>1, <1>6, <2>1, QuieterKept
<1>10. KillsAreIntended'
  BY <1>1, <1>5, <1>6, <1>8, KillsKept DEF Quieter, TabsFrame
<1>11. RunningIsOpen'
  BY <1>1, <1>2, <1>5, <1>6, <1>7, <1>8, RunningKept DEF TabsFrame, Running
<1>12. QED
  BY <1>6, <1>9, <1>10, <1>11, OpenKept DEF Quieter

LEMMA ShellExits ==
  ASSUME ShellInv, NEW quick \in BOOLEAN, ExitExpected \/ ExitEnds(quick) \/ ExitCuts
  PROVE  Quieter' /\ KillsAreIntended' /\ OpenIsTrue' /\ RunningIsOpen'
<1> USE DEF ShellInv, TermInv
<1>1. /\ shells' = shells /\ hollow' = hollow /\ bulk' = bulk /\ leaving' = leaving
      /\ opened' = opened /\ requests' = requests /\ held'.kills \subseteq held.kills
      /\ inbox # <<>> /\ inbox' = Tail(inbox) /\ Head(inbox).job = "exited"
  BY DEF ExitExpected, ExitEnds, ExitCuts, Receive, exitVars, ghosts, termTypeOK
<1> PICK subject : subject = Subject
  OBVIOUS
<1>2. KillTaken(subject)
  BY <1>1 DEF KillTaken
<1>3. TabsFrame /\ EndTaken(subject)
  <2>1. CASE ExitExpected
    <3>1. tabs' = tabs
      BY <2>1 DEF ExitExpected
    <3>2. ASSUME subject \in Live
          PROVE  subject \in Busy(EndJobs)' \/ InBulk(subject)'
      <4>1. subject \in Busy({"close", "restart", "shell"}) \/ InBulk(subject)
        BY <2>1, <3>2 DEF ExitExpected, KillsAreIntended
      <4>2. ASSUME NEW c \in Calls, c.id = subject, c.job \in {"close", "restart", "shell"}
            PROVE  subject \in Busy(EndJobs)'
        <5>1. c \in Calls'
          BY <1>1, <4>2, InboxHead DEF Calls, Told, termTypeOK
        <5>2. QED
          BY <4>2, <5>1 DEF Busy, EndJobs
      <4>3. QED
        BY <1>1, <4>1, <4>2 DEF Busy, InBulk
    <3>3. QED
      BY <3>1, <3>2, SameTabs DEF EndTaken, Running, Live
  <2>2. CASE ExitEnds(quick)
    <3>1. subject \in Live /\ tabs' = [tabs EXCEPT ![subject].status = "exited"]
      BY <2>2 DEF ExitEnds, Put
    <3>2. Live' = Live /\ TabsFrame /\ ~Running(subject)'
      BY <3>1 DEF TabsFrame, Running, Live, termTypeOK, Tab
    <3>3. QED
      BY <3>2 DEF EndTaken
  <2>3. CASE ExitCuts
    <3>1. tabs' = Ended(subject)
      BY <2>3 DEF ExitCuts, Put
    <3>2. QED
      BY <3>1, EndedTabs DEF EndTaken
  <2>4. QED
    BY <2>1, <2>2, <2>3
<1>4. StoreFrame
  BY <1>1, <1>3 DEF StoreFrame, TabsFrame
<1>5. QED
  BY <1>1, <1>2, <1>3, <1>4, NoNewCalls, StoreKeeps DEF TabsFrame, Quieter, OpenedOnly

LEMMA ShellPanes ==
  ASSUME ShellInv, NEW id \in Ids, NEW pane \in Panes,
         setTerminalFocusPane(pane) \/ setActiveTerminal(id) \/ activateProject
  PROVE  Quieter' /\ KillsAreIntended' /\ OpenIsTrue' /\ RunningIsOpen'
<1>1. /\ shells' = shells /\ hollow' = hollow /\ bulk' = bulk /\ leaving' = leaving
      /\ opened' = opened /\ requests' = requests /\ held' = held /\ inbox' = inbox
      /\ tabs' = tabs
  BY DEF setTerminalFocusPane, setActiveTerminal, activateProject, exitVars, ghosts
<1>2. TabsFrame
  BY <1>1, SameTabs
<1>3. StoreFrame
  BY <1>1, <1>2 DEF StoreFrame, TabsFrame
<1>4. QED
  BY <1>1, <1>2, <1>3, NoNewCalls, StoreKeeps DEF TabsFrame, ShellInv, Quieter, OpenedOnly

LEMMA ShellLeaving ==
  ASSUME ShellInv, Exit
  PROVE  Quieter' /\ KillsAreIntended' /\ OpenIsTrue' /\ RunningIsOpen'
<1> USE DEF ShellInv, TermInv
<1>1. /\ shells' = shells /\ hollow \subseteq hollow' /\ bulk' = bulk /\ opened' = opened
      /\ held' = held /\ leaving' \subseteq leaving \cup opened
  BY DEF Exit, pauseTerminalSpawnsForExit, Paused, PauseGivenUp, resumeTerminalSpawnsAfterExit,
         EndLeaving, ExitKilled, ExitKillFailed, ExitAllTheSame, exitFrame, storeVars, exitVars,
         ghosts, termTypeOK
<1>2. CASE ExitKilled \/ ExitKillFailed
  <2>1. inbox # <<>> /\ inbox' = Tail(inbox) /\ Head(inbox).job = "exit" /\ requests' = requests
    BY <1>2 DEF ExitKilled, ExitKillFailed, Receive
  <2> PICK subject : subject = Subject
    OBVIOUS
  <2>2. TabsFrame /\ EndTaken(subject) /\ KillTaken(subject)
    <3>1. KillTaken(subject)
      BY <2>1 DEF KillTaken
    <3>2. CASE ExitKilled
      BY <3>1, <3>2, EndedTabs DEF ExitKilled, Put, EndTaken
    <3>3. CASE ExitKillFailed
      BY <3>1, <3>3, SameTabs DEF ExitKillFailed, EndTaken, storeVars
    <3>4. QED
      BY <1>2, <3>2, <3>3
  <2>3. StoreFrame
    BY <1>1, <2>1, <2>2 DEF StoreFrame, TabsFrame
  <2>4. QED
    BY <1>1, <2>1, <2>2, <2>3, NoNewCalls, StoreKeeps DEF TabsFrame, Quieter, OpenedOnly
<1>3. CASE \/ pauseTerminalSpawnsForExit \/ Paused \/ PauseGivenUp
           \/ resumeTerminalSpawnsAfterExit \/ EndLeaving \/ ExitAllTheSame
  <2>1. inbox' = inbox /\ tabs' = tabs
    BY <1>3 DEF pauseTerminalSpawnsForExit, Paused, PauseGivenUp, resumeTerminalSpawnsAfterExit,
                EndLeaving, ExitAllTheSame, exitFrame, storeVars
  <2>2. NewCallsFrame /\ requests \subseteq requests'
    <3>1. requests' = requests \/ requests' = requests \cup NewCalls("exit", leaving)
      BY <1>3 DEF pauseTerminalSpawnsForExit, Paused, PauseGivenUp, EndLeaving, ExitAllTheSame,
                  resumeTerminalSpawnsAfterExit
    <3>2. QED
      BY <3>1, NoNewCalls, SomeNewCalls DEF Quieter, OpenedOnly
  <2>3. TabsFrame
    BY <2>1, SameTabs
  <2>4. StoreFrame
    BY <1>1, <2>1, <2>2, <2>3 DEF StoreFrame, TabsFrame
  <2>5. QED
    BY <1>1, <2>1, <2>2, <2>3, <2>4, StoreKeeps DEF TabsFrame, Quieter, OpenedOnly
<1>4. QED
  BY <1>2, <1>3 DEF Exit

----------------------------------------------------------------------------
(* The steps of the backend. *)

StoreStays ==
  /\ tabs' = tabs /\ opened' = opened /\ held' = held /\ bulk' = bulk /\ leaving' = leaving
  /\ hollow' = hollow

\* The session of id is open, or a call that has begun is closing it.
OpenOrClosing(id) == id \in shells \/ \E r \in requests : r.id = id /\ r.begun

\* The end of the session of id is told by m.
LEMMA OpenAppended ==
  ASSUME termTypeOK, OpenIsTrue, tabs' = tabs, NEW m \in Message, inbox' = Append(inbox, m),
         SaysOpen(m) => m.id \in shells',
         \A id \in Live : OpenOrClosing(id) =>
           OpenOrClosing(id)' \/ (m.id = id /\ m.job \in EndJobs)
  PROVE  OpenIsTrue'
<1>1. /\ Len(inbox) \in Nat /\ Len(inbox') = Len(inbox) + 1
      /\ \A i \in 1 .. Len(inbox) : inbox'[i] = inbox[i]
      /\ inbox'[Len(inbox) + 1] = m
  BY InboxGrows DEF termTypeOK
<1>2. SUFFICES ASSUME NEW i \in 1 .. Len(inbox'), SaysOpen(inbox'[i]), inbox'[i].id \in Live
               PROVE  OpenOrTold(inbox[i].id, i)' 
  BY DEF OpenIsTrue, SaysOpen, Live
<1>3. CASE i = Len(inbox) + 1
  BY <1>1, <1>2, <1>3 DEF OpenOrTold
<1>4. CASE i \in 1 .. Len(inbox)
  <2>1. PICK id : id = inbox[i].id
    OBVIOUS
  <2>2. id \in Live /\ SaysOpen(inbox[i]) /\ inbox'[i].id = id
    BY <1>1, <1>2, <1>4, <2>1
  <2>3. OpenOrTold(id, i)
    BY <1>4, <2>1, <2>2 DEF OpenIsTrue
  <2>4. CASE OpenOrClosing(id)
    BY <1>1, <1>4, <2>2, <2>4 DEF OpenOrClosing, OpenOrTold
  <2>5. CASE \E j \in 1 .. Len(inbox) : j > i /\ inbox[j].id = id /\ inbox[j].job \in EndJobs
    BY <1>1, <2>2, <2>5 DEF OpenOrTold
  <2>6. QED
    BY <2>3, <2>4, <2>5 DEF OpenOrTold, OpenOrClosing
<1>5. QED
  BY <1>1, <1>3, <1>4

\* The calls keep their jobs; those that end a session end it where it was open.
LEMMA BackendKeeps ==
  ASSUME ShellInv, StoreStays, NEW ended, Calls \subseteq Calls' \cup ended,
         \A c \in ended : \E d \in Calls' : d.job = c.job /\ d.id = c.id,
         \A c \in Calls' : (\E d \in Calls : d.job = c.job /\ d.id = c.id)
                             \/ (c.job = "exited" /\ c.id \in opened),
         \A r \in requests' : r.begun => r.job \in KillJobs,
         shells' \subseteq opened,
         \A id \in Live \cap (shells \ shells') : id \in Busy(EndJobs)'
  PROVE  Quieter' /\ KillsAreIntended' /\ RunningIsOpen'
<1>1. Live' = Live /\ \A id : (Running(id)' <=> Running(id)) /\ (InBulk(id)' <=> InBulk(id))
  BY DEF StoreStays, Live, Running, InBulk
<1>2. Quieter'
  <2>1. OpenedOnly'
    BY DEF ShellInv, Quieter, OpenedOnly, StoreStays
  <2>2. CancelledIsClosed'
    BY <1>1 DEF ShellInv, Quieter, CancelledIsClosed
  <2>3. BulkIsOfItsTabs'
    BY <1>1 DEF ShellInv, Quieter, BulkIsOfItsTabs
  <2>4. BegunAreKills'
    BY DEF BegunAreKills
  <2>5. QED
    BY <2>1, <2>2, <2>3, <2>4 DEF Quieter
<1>3. \A jobs : Busy(jobs) \subseteq Busy(jobs)'
  BY DEF Busy
<1>4. KillsAreIntended'
  BY <1>1, <1>3 DEF ShellInv, KillsAreIntended, StoreStays
<1>5. RunningIsOpen'
  BY <1>1, <1>3 DEF ShellInv, RunningIsOpen, StoreStays
<1>6. QED
  BY <1>2, <1>4, <1>5

\* The call r is answered.
LEMMA ShellAnswered ==
  ASSUME ShellInv, StoreStays, NEW r \in requests, NEW result \in Results,
         requests' = requests \ {r}, inbox' = Append(inbox, Answer(r, result)),
         \/ shells' = shells
         \/ shells' = shells \cup {r.id}
         \/ shells' = shells \ {r.id} /\ r.job \in KillJobs,
         SaysOpen(Answer(r, result)) => r.id \in shells'
  PROVE  Quieter' /\ KillsAreIntended' /\ OpenIsTrue' /\ RunningIsOpen'
<1> USE DEF ShellInv, TermInv
<1> PICK m \in Message : m = Answer(r, result) /\ m.job = r.job /\ m.id = r.id
  <2>1. Answer(r, result).job = r.job /\ Answer(r, result).id = r.id
    BY DEF Answer
  <2>2. QED
    BY <2>1, AnswerType
<1>1. Calls' \cup {r} = Calls \cup {m} /\ r \in Calls /\ m \in Calls'
  BY InboxAppend DEF Calls, Told, termTypeOK
<1>2. r.id \in opened
  BY <1>1 DEF Quieter, OpenedOnly
<1>3. ASSUME r.job \in KillJobs, r.id \in Live
      PROVE  r.job \in EndJobs
  <2>1. r.job # "cancel"
    BY <1>1, <1>3 DEF Quieter, CancelledIsClosed
  <2>2. QED
    BY <1>3, <2>1 DEF KillJobs, Jobs, EndJobs
<1>4. r.begun => r.job \in KillJobs
  BY DEF Quieter, BegunAreKills
<1>5. shells' \subseteq opened
  BY <1>2 DEF Quieter, OpenedOnly
<1>6. \A id \in Live \cap (shells \ shells') : id \in Busy(EndJobs)'
  BY <1>1, <1>3 DEF Busy
<1>7. \A q \in requests' : q.begun => q.job \in KillJobs
  BY DEF Quieter, BegunAreKills
<1>8. Quieter' /\ KillsAreIntended' /\ RunningIsOpen'
  BY <1>1, <1>5, <1>6, <1>7, BackendKeeps
<1>9. \A id \in Live : OpenOrClosing(id) =>
        OpenOrClosing(id)' \/ (m.id = id /\ m.job \in EndJobs)
  BY <1>3, <1>4 DEF OpenOrClosing
<1>10. OpenIsTrue'
  BY <1>9, OpenAppended DEF StoreStays
<1>11. QED
  BY <1>8, <1>10

LEMMA ShellKillBegins ==
  ASSUME ShellInv, NEW r \in requests, KillBegins(r)
  PROVE  Quieter' /\ KillsAreIntended' /\ OpenIsTrue' /\ RunningIsOpen'
<1> USE DEF ShellInv, TermInv
<1> DEFINE q == [r EXCEPT !.begun = TRUE]
<1>1. q.job = r.job /\ q.id = r.id /\ q.begun
  BY DEF termTypeOK, Request
<1>2. /\ requests' = (requests \ {r}) \cup {q} /\ inbox' = inbox /\ shells' = shells \ {r.id}
      /\ StoreStays /\ r.job \in KillJobs
  BY DEF KillBegins, StoreStays, backendFrame, storeVars, exitVars, ghosts
<1> HIDE DEF q
<1>3. Calls' \cup {r} = Calls \cup {q} /\ r \in Calls /\ q \in Calls'
  BY <1>2 DEF Calls, Told
<1>4. \A id \in Live \cap (shells \ shells') : id \in Busy(EndJobs)'
  <2>1. ASSUME r.id \in Live PROVE r.job \in EndJobs
    <3>1. r.job # "cancel"
      BY <1>3, <2>1 DEF Quieter, CancelledIsClosed
    <3>2. QED
      BY <1>2, <3>1 DEF KillJobs, Jobs, EndJobs
  <2>2. QED
    BY <1>1, <1>2, <1>3, <2>1 DEF Busy
<1>5. shells' \subseteq opened /\ \A p \in requests' : p.begun => p.job \in KillJobs
  BY <1>1, <1>2 DEF Quieter, OpenedOnly, BegunAreKills
<1>6. Quieter' /\ KillsAreIntended' /\ RunningIsOpen'
  BY <1>1, <1>2, <1>3, <1>4, <1>5, BackendKeeps
<1>7. OpenIsTrue'
  <2>1. SUFFICES ASSUME NEW i \in 1 .. Len(inbox), SaysOpen(inbox[i]), inbox[i].id \in Live
                 PROVE  OpenOrTold(inbox[i].id, i)'
    BY <1>2 DEF OpenIsTrue, SaysOpen, StoreStays, Live
  <2>2. OpenOrTold(inbox[i].id, i)
    BY <2>1 DEF OpenIsTrue
  <2>3. QED
    BY <1>1, <1>2, <2>2 DEF OpenOrTold
<1>8. QED
  BY <1>6, <1>7

LEMMA ShellShellEnds ==
  ASSUME ShellInv, NEW id \in Ids, NEW how \in {"ended", "cut"}, ShellEnds(id, how)
  PROVE  Quieter' /\ KillsAreIntended' /\ OpenIsTrue' /\ RunningIsOpen'
<1> USE DEF ShellInv, TermInv
<1> DEFINE m == [job |-> "exited", id |-> id, n |-> 1, result |-> how]
<1>1. m \in Message /\ m.job = "exited" /\ m.id = id /\ ~SaysOpen(m)
  BY TerminalConstants DEF Message, Results, SaysOpen
<1>2. /\ requests' = requests /\ inbox' = Append(inbox, m) /\ shells' = shells \ {id}
      /\ StoreStays /\ id \in shells
  BY DEF ShellEnds, StoreStays, backendFrame, storeVars, exitVars, ghosts
<1> HIDE DEF m
<1>3. Calls' = Calls \cup {m}
  BY <1>1, <1>2, InboxAppend DEF Calls, Told, termTypeOK
<1>4. id \in opened /\ shells' \subseteq opened
  BY <1>2 DEF Quieter, OpenedOnly
<1>5. id \in Busy(EndJobs)'
  BY <1>1, <1>3 DEF Busy, EndJobs
<1>6. Quieter' /\ KillsAreIntended' /\ RunningIsOpen'
  BY <1>1, <1>2, <1>3, <1>4, <1>5, BackendKeeps DEF Quieter, BegunAreKills
<1>7. \A i \in Live : OpenOrClosing(i) => OpenOrClosing(i)' \/ (m.id = i /\ m.job \in EndJobs)
  BY <1>1, <1>2 DEF OpenOrClosing, EndJobs
<1>8. OpenIsTrue'
  BY <1>1, <1>2, <1>7, OpenAppended DEF StoreStays
<1>9. QED
  BY <1>6, <1>8

\* A step that leaves the tabs, the calls and the sessions alone.
LEMMA QuietStep ==
  ASSUME ShellInv, UNCHANGED <<storeVars, leaving, ghosts>>, requests' = requests,
         inbox' = inbox, shells' = shells
  PROVE  Quieter' /\ KillsAreIntended' /\ OpenIsTrue' /\ RunningIsOpen'
<1>1. /\ tabs' = tabs /\ opened' = opened /\ held' = held /\ bulk' = bulk
      /\ leaving' = leaving /\ hollow' = hollow
  BY DEF storeVars, ghosts
<1>2. TabsFrame
  BY <1>1, SameTabs
<1>3. StoreFrame
  BY <1>1, <1>2 DEF StoreFrame, TabsFrame
<1>4. QED
  BY <1>1, <1>2, <1>3, NoNewCalls, StoreKeeps DEF TabsFrame, ShellInv, Quieter, OpenedOnly

LEMMA ShellBackend ==
  ASSUME ShellInv, Backend
  PROVE  Quieter' /\ KillsAreIntended' /\ OpenIsTrue' /\ RunningIsOpen'
<1>1. ASSUME NEW r \in requests,
             \/ CreateServed(r) \/ CreateRefused(r) \/ KillServed(r) \/ KillEnds(r)
             \/ CloseOfSessionFails(r) \/ KillRefused(r) \/ KillGraceful(r)
             \/ terminal_session_open(r) \/ CheckFails(r)
      PROVE  Quieter' /\ KillsAreIntended' /\ OpenIsTrue' /\ RunningIsOpen'
  <2>1. requests' = requests \ {r} /\ StoreStays
    BY <1>1 DEF CreateServed, CreateRefused, KillServed, KillEnds, CloseOfSessionFails,
                KillRefused, KillGraceful, terminal_session_open, CheckFails, StoreStays,
                backendFrame,
                storeVars, exitVars, ghosts
  <2>2. \A result : Answer(r, result).job = r.job /\ Answer(r, result).result = result
    BY DEF Answer
  <2>3. CASE CreateServed(r)
    <3>1. inbox' = Append(inbox, Answer(r, "ok")) /\ shells' = shells \cup {r.id}
      BY <2>3 DEF CreateServed
    <3>2. QED
      BY <2>1, <3>1, ShellAnswered DEF Results
  <2>4. CASE KillServed(r) \/ KillGraceful(r)
    <3>1. /\ inbox' = Append(inbox, Answer(r, "ok")) /\ r.job \in KillJobs
          /\ shells' = shells \/ shells' = shells \ {r.id}
      BY <2>4 DEF KillServed, KillGraceful
    <3>2. ~SaysOpen(Answer(r, "ok"))
      BY <2>2, <3>1 DEF SaysOpen, KillJobs
    <3>3. QED
      BY <2>1, <3>1, <3>2, ShellAnswered DEF Results
  <2>5. CASE KillEnds(r)
    <3>1. /\ inbox' = Append(inbox, Answer(r, "ok")) /\ shells' = shells /\ r.job \in KillJobs
      BY <2>5 DEF KillEnds, ShellInv, Quieter, BegunAreKills
    <3>2. ~SaysOpen(Answer(r, "ok"))
      BY <2>2, <3>1 DEF SaysOpen, KillJobs
    <3>3. QED
      BY <2>1, <3>1, <3>2, ShellAnswered DEF Results
  <2>6. CASE CreateRefused(r) \/ CloseOfSessionFails(r) \/ KillRefused(r) \/ CheckFails(r)
    <3>1. inbox' = Append(inbox, Answer(r, "failed")) /\ shells' = shells
      BY <2>6 DEF CreateRefused, CloseOfSessionFails, KillRefused, CheckFails
    <3>2. ~SaysOpen(Answer(r, "failed"))
      BY <2>2 DEF SaysOpen
    <3>3. QED
      BY <2>1, <3>1, <3>2, ShellAnswered DEF Results
  <2>7. CASE terminal_session_open(r)
    <3> DEFINE result == IF r.id \in shells THEN "open" ELSE "ok"
    <3>1. inbox' = Append(inbox, Answer(r, result)) /\ shells' = shells /\ r.job = "check"
      BY <2>7 DEF terminal_session_open
    <3>2. SaysOpen(Answer(r, result)) => r.id \in shells'
      BY <2>2, <3>1 DEF SaysOpen
    <3>3. result \in Results
      BY DEF Results
    <3> HIDE DEF result
    <3>4. QED
      BY <2>1, <3>1, <3>2, <3>3, ShellAnswered
  <2>8. QED
    BY <1>1, <2>3, <2>4, <2>5, <2>6, <2>7
<1>2. ASSUME NEW other \in Ids, ForcedToEnd(other)
      PROVE  Quieter' /\ KillsAreIntended' /\ OpenIsTrue' /\ RunningIsOpen'
  <2>1. /\ UNCHANGED <<storeVars, leaving, ghosts>> /\ requests' = requests /\ inbox' = inbox
        /\ shells' = shells
    BY <1>2 DEF ForcedToEnd
  <2>2. QED
    BY <2>1, QuietStep
<1>3. QED
  BY <1>1, <1>2, ShellKillBegins, ShellShellEnds DEF Backend

----------------------------------------------------------------------------

LEMMA StoreShellInv ==
  ASSUME ShellInv, Store
  PROVE  Quieter' /\ KillsAreIntended' /\ OpenIsTrue' /\ RunningIsOpen'
<1>1. CASE \/ \E id \in Ids : \E task \in BOOLEAN : addScriptTerminal(id, task)
           \/ addTerminal \/ ProfileRefused \/ \E id \in Ids : ProfileTrusted(id)
  BY <1>1, ShellNewTabs, TerminalConstants
<1>2. CASE \/ spawnRestoredTerminals \/ \E id \in Ids : spawnPendingTerminal(id)
           \/ SpawnCancelled \/ SpawnFailed \/ CancelAnswered
  BY <1>2, ShellSpawns, TerminalConstants
<1>3. CASE Spawned \/ CheckFindsTask \/ CheckFindsNothing \/ CheckDropped
  BY <1>3, ShellStarts, ShellChecks
<1>4. CASE (\E id \in Ids : closeTerminal(id)) \/ Closed \/ CloseFailed
  BY <1>4, ShellCloses, TerminalConstants
<1>5. CASE closeAllProjectTerminals
  <2> DEFINE b == [kind |-> "all", ids |-> Live, keep |-> None, pane |-> Primary, failed |-> {}]
  <2>1. b \in BulkClose /\ b.ids \subseteq Live
    BY TerminalConstants DEF BulkClose, ShellInv, TermInv, termTypeOK
  <2>2. bulk = NoBulk /\ BeginBulk(b)
    BY <1>5 DEF closeAllProjectTerminals
  <2> HIDE DEF b
  <2>3. QED
    BY <2>1, <2>2, ShellBulkBegins
<1>6. ASSUME NEW id \in Ids, closeOtherTerminals(id)
      PROVE  Quieter' /\ KillsAreIntended' /\ OpenIsTrue' /\ RunningIsOpen'
  <2> DEFINE pane == tabs[id].pane
             b == [kind |-> "others", ids |-> Owned(pane) \ {id}, keep |-> id, pane |-> pane,
                   failed |-> {}]
  <2>1. pane \in Panes
    BY <1>6 DEF closeOtherTerminals, ShellInv, TermInv, termTypeOK, Tab
  <2>2. b \in BulkClose /\ b.ids \subseteq Live
    BY <2>1 DEF BulkClose, Owned, ShellInv, TermInv, termTypeOK
  <2>3. bulk = NoBulk /\ BeginBulk(b)
    BY <1>6 DEF closeOtherTerminals
  <2> HIDE DEF b
  <2>4. QED
    BY <2>2, <2>3, ShellBulkBegins
<1>7. CASE BulkAnswered
  BY <1>7, ShellBulkAnswered
<1>8. CASE \/ \E id \in Ids : restartTerminal(id) \/ reopenTerminalShell(id) \/ enterShellAfterTask(id)
           \/ \E job \in {"restart", "shell"} : RestartAnswered(job)
  BY <1>8, ShellRestarts, ShellRestarted
<1>9. CASE ExitExpected \/ ExitCuts \/ \E quick \in BOOLEAN : ExitEnds(quick)
  BY <1>9, ShellExits
<1>10. CASE \/ \E pane \in Panes : setTerminalFocusPane(pane)
            \/ \E id \in Ids : setActiveTerminal(id)
            \/ activateProject
  BY <1>10, ShellPanes, TerminalConstants
<1>11. QED
  BY <1>1, <1>2, <1>3, <1>4, <1>5, <1>6, <1>7, <1>8, <1>9, <1>10 DEF Store

LEMMA NextShellInv == ShellInv /\ [Next]_vars => ShellInv'
<1>1. SUFFICES ASSUME ShellInv, [Next]_vars PROVE ShellInv'
  OBVIOUS
<1>2. TermInv'
  BY <1>1, NextTermInv DEF ShellInv
<1>3. CASE UNCHANGED vars
  <2>1. /\ UNCHANGED <<storeVars, leaving, ghosts>> /\ requests' = requests /\ inbox' = inbox
        /\ shells' = shells
    BY <1>3 DEF vars, exitVars
  <2>2. QED
    BY <1>1, <1>2, <2>1, QuietStep DEF ShellInv
<1>4. CASE Next
  <2>1. Quieter' /\ KillsAreIntended' /\ OpenIsTrue' /\ RunningIsOpen'
    BY <1>1, <1>4, StoreShellInv, ShellLeaving, ShellBackend DEF Next
  <2>2. QED
    BY <1>2, <2>1 DEF ShellInv
<1>5. QED
  BY <1>1, <1>3, <1>4

\* A tab that says it runs has a session, unless something of it is still under way or the
\* session was lost in a kill that failed: no exit of a shell is ignored for good, and no late
\* answer revives a tab whose shell has ended without the news of it following.
THEOREM RunningTabsHaveShells == Spec => []RunningHasShell
<1>1. ASSUME ShellInv PROVE RunningHasShell
  <2>1. SUFFICES ASSUME NEW id \in Live \ (shells \cup hollow), tabs[id].status = "running"
                 PROVE  (\E c \in Calls : c.id = id) \/ (bulk # NoBulk /\ id \in bulk.ids)
    BY DEF RunningHasShell
  <2>2. id \in Busy(EndJobs) \/ InBulk(id)
    BY <1>1, <2>1 DEF ShellInv, RunningIsOpen, Running
  <2>3. QED
    BY <2>2 DEF Busy, InBulk
<1>2. QED
  BY <1>1, InitShellInv, NextShellInv, PTL DEF Spec

----------------------------------------------------------------------------
(* No shell is left without a tab.  What is said here is said of a        *)
(* terminal that NoStrayShell does not leave out.                         *)

Clean(id) == id \notin stray \cup CrossedSoFar \cup MisroutedSoFar

Creates(c, id) == c.job = "create" /\ c.id = id
\* The session of id has been opened, and the store is to be told.
HasOpened(id) == \E m \in Told : Creates(m, id) /\ m.result = "ok"
\* A remote session of id is being closed for its tab to be closed.
ClosingNow(id) == \E r \in requests : r.id = id /\ r.begun /\ r.job = "close"

\* One shell is created at a time.
OneCreate(id) ==
  /\ \A q, r \in requests : Creates(q, id) /\ Creates(r, id) => q = r
  /\ \A r \in requests : Creates(r, id) => \A m \in Told : ~Creates(m, id)
  /\ \A i, j \in 1 .. Len(inbox) : Creates(inbox[i], id) /\ Creates(inbox[j], id) => i = j

\* A shell is created for a tab that has none.
PendingIsNew(id) ==
  id \in Live /\ tabs[id].pending => id \notin Busy({"create"}) \cup shells
RestoredIsNew(id) == id \in Live /\ tabs[id].restored /\ id \in shells => HasOpened(id)
CreatingHasNone(id) == id \in Busy({"create"}) /\ id \in shells => HasOpened(id)
RestartedHasNone(id) ==
  /\ \A r \in requests : r.id = id /\ r.begun /\ r.job \in {"restart", "shell"} => id \notin shells
  /\ \A m \in Told : m.id = id /\ m.job \in {"restart", "shell"} /\ m.result = "ok" =>
       id \notin shells

\* A tab that is closed will not have another shell created.
ClosingIsLast(id) ==
  ClosingNow(id) =>
    /\ id \notin shells /\ \A r \in requests : ~Creates(r, id)
    /\ id \in Live => ~tabs[id].pending

\* When the end of a session is told, there is none unless its opening is told afterwards.
EndsTab(m, id) == m.id = id /\ (m.job = "exited" \/ (m.job = "close" /\ m.result = "ok"))
EndIsTold(id) ==
  \A i \in 1 .. Len(inbox) : EndsTab(inbox[i], id) /\ id \in shells =>
    \E j \in 1 .. Len(inbox) : j > i /\ Creates(inbox[j], id) /\ inbox[j].result = "ok"

\* A close of many tabs leaves no session but those it could not kill.
Unkilled(job, id) ==
  \/ \E r \in requests : r.id = id /\ r.job = job /\ ~r.begun
  \/ \E m \in Told : m.id = id /\ m.job = job /\ m.result = "failed"
BulkKills(id) ==
  InBulk(id) /\ id \in shells => id \in bulk.failed \/ Unkilled("bulk", id)

\* A shell without a tab has just been opened, and is then cancelled.
Swept(id) == id \in shells \ Live => HasOpened(id) \/ Unkilled("cancel", id)

\* A restored tab without its first shell has nothing to close.
ClosedHadShell(id) == id \in Live \cap Busy({"close"}) => ~tabs[id].restored

Settled(id) ==
  /\ OneCreate(id) /\ PendingIsNew(id) /\ RestoredIsNew(id) /\ CreatingHasNone(id)
  /\ RestartedHasNone(id) /\ ClosingIsLast(id) /\ EndIsTold(id) /\ BulkKills(id) /\ Swept(id)
  /\ ClosedHadShell(id)

SettledInv == \A id \in Ids : Clean(id) => Settled(id)

\* The tabs at first: those that run have sessions.
LEMMA InitTabs ==
  ASSUME Init
  PROVE  /\ shells \subseteq Live
         /\ \A id \in Live : /\ ~tabs[id].pending /\ (tabs[id].restored => id \notin shells)
                             /\ id \in shells => tabs[id].status = "running"
<1>1. PICK running, waiting \in SUBSET Ids :
        /\ running \cap waiting = {}
        /\ opened = running \cup waiting /\ shells = running
        /\ \E paneOf \in [opened -> IF "panes" \in scope.allows THEN Panes ELSE {Primary}],
              taskOf \in [opened -> {FALSE, "task" \in scope.allows}] :
             tabs = [id \in opened |->
                      [status |-> IF id \in running THEN "running" ELSE "exited",
                       pending |-> FALSE, restored |-> id \in waiting,
                       task |-> id \in running /\ taskOf[id], pane |-> paneOf[id]]]
  BY DEF Init
<1>2. \A status, restored, task, pane :
        LET tab == [status |-> status, pending |-> FALSE, restored |-> restored, task |-> task,
                    pane |-> pane]
        IN  tab.pending = FALSE /\ tab.restored = restored /\ tab.status = status
  OBVIOUS
<1>3. Live = opened
  BY <1>1, Zenon DEF Live
<1>4. ASSUME NEW id \in opened
      PROVE  /\ ~tabs[id].pending /\ (tabs[id].restored => id \in waiting)
             /\ id \in running => tabs[id].status = "running"
  <2>1. PICK paneOf \in [opened -> IF "panes" \in scope.allows THEN Panes ELSE {Primary}],
             taskOf \in [opened -> {FALSE, "task" \in scope.allows}] :
          tabs = [i \in opened |->
                   [status |-> IF i \in running THEN "running" ELSE "exited",
                    pending |-> FALSE, restored |-> i \in waiting,
                    task |-> i \in running /\ taskOf[i], pane |-> paneOf[i]]]
    BY <1>1, Zenon
  <2>2. PICK restored \in BOOLEAN : restored <=> id \in waiting
    OBVIOUS
  <2>3. PICK task \in BOOLEAN : task <=> id \in running /\ taskOf[id]
    OBVIOUS
  <2>4. restored = (id \in waiting) /\ task = (id \in running /\ taskOf[id])
    BY <2>2, <2>3
  <2>5. tabs[id] = [status |-> IF id \in running THEN "running" ELSE "exited",
                    pending |-> FALSE, restored |-> id \in waiting,
                    task |-> id \in running /\ taskOf[id], pane |-> paneOf[id]]
    BY <2>1, Zenon
  <2>6. PICK status : status = IF id \in running THEN "running" ELSE "exited"
    OBVIOUS
  <2>7. tabs[id] = [status |-> status, pending |-> FALSE, restored |-> restored,
                    task |-> task, pane |-> paneOf[id]]
    BY <2>4, <2>5, <2>6, Zenon
  <2>8. QED
    BY <1>2, <2>2, <2>6, <2>7
<1>5. QED
  BY <1>1, <1>3, <1>4

LEMMA InitSettled == Init => SettledInv
<1>1. SUFFICES ASSUME Init PROVE SettledInv
  OBVIOUS
<1>2. Calls = {} /\ Told = {} /\ requests = {} /\ inbox = <<>> /\ bulk = NoBulk
  <2>1. requests = {} /\ inbox = <<>> /\ bulk = NoBulk
    BY <1>1 DEF Init
  <2>2. QED
    BY <2>1 DEF Calls, Told, Range
<1>3. /\ shells \subseteq Live
      /\ \A id \in Live : ~tabs[id].pending /\ (tabs[id].restored => id \notin shells)
  BY <1>1, InitTabs
<1>4. Len(inbox) = 0
  BY <1>2
<1>5. ASSUME NEW id \in Ids PROVE Settled(id)
  <2>1. id \notin Busy({"create"}) \cup Busy({"close"}) /\ ~ClosingNow(id) /\ ~InBulk(id)
    BY <1>2 DEF Busy, ClosingNow, InBulk
  <2>2. OneCreate(id) /\ PendingIsNew(id) /\ RestoredIsNew(id) /\ CreatingHasNone(id)
    BY <1>2, <1>3, <1>4, <2>1 DEF OneCreate, PendingIsNew, RestoredIsNew, CreatingHasNone
  <2>3. RestartedHasNone(id) /\ ClosingIsLast(id) /\ EndIsTold(id) /\ BulkKills(id) /\ Swept(id)
    BY <1>2, <1>3, <1>4, <2>1 DEF RestartedHasNone, ClosingIsLast, EndIsTold, BulkKills, Swept
  <2>4. QED
    BY <2>1, <2>2, <2>3 DEF Settled, ClosedHadShell
<1>6. QED
  BY <1>5 DEF SettledInv

\* What is left out once is left out for good.
LEMMA StrayGrows == [Next]_vars => stray \subseteq stray'
<1>1. SUFFICES ASSUME [Next]_vars PROVE stray \subseteq stray'
  OBVIOUS
<1>2. CASE UNCHANGED vars
  BY <1>2 DEF vars, ghosts
<1>3. CASE Backend
  BY <1>3
  DEF Backend, CreateServed, CreateRefused, KillServed, KillBegins, KillEnds, CloseOfSessionFails,
      KillRefused, KillGraceful, terminal_session_open, CheckFails, ShellEnds, ForcedToEnd,
      backendFrame, ghosts
<1>4. CASE Exit
  BY <1>4
  DEF Exit, pauseTerminalSpawnsForExit, Paused, PauseGivenUp, resumeTerminalSpawnsAfterExit,
      EndLeaving, ExitKilled, ExitKillFailed, ExitAllTheSame, exitFrame, ghosts
<1>5. CASE Store
  <2>1. ASSUME NEW b, BeginBulk(b) PROVE stray \subseteq stray'
    BY <2>1 DEF BeginBulk, FinishBulk
  <2>2. CASE BulkAnswered
    BY <2>2 DEF BulkAnswered, FinishBulk
  <2>3. CASE closeAllProjectTerminals
    BY <2>1, <2>3 DEF closeAllProjectTerminals
  <2>4. ASSUME NEW id \in Ids, closeOtherTerminals(id) PROVE stray \subseteq stray'
    BY <2>1, <2>4 DEF closeOtherTerminals
  <2>5. CASE CancelAnswered \/ \E job \in {"restart", "shell"} : RestartAnswered(job)
    BY <2>5 DEF CancelAnswered, RestartAnswered, GiveUpIfFailed
  <2>6. CASE \/ \E id \in Ids : \E task \in BOOLEAN : addScriptTerminal(id, task)
             \/ addTerminal \/ ProfileRefused \/ spawnRestoredTerminals
             \/ \E id \in Ids : ProfileTrusted(id) \/ spawnPendingTerminal(id)
             \/ Spawned \/ SpawnCancelled \/ SpawnFailed
    BY <2>6 DEF addScriptTerminal, addTerminal, ProfileRefused, spawnRestoredTerminals,
                ProfileTrusted, spawnPendingTerminal, Spawned, SpawnCancelled, SpawnFailed, ghosts
  <2>7. CASE \/ \E id \in Ids : closeTerminal(id) \/ restartTerminal(id)
                                \/ reopenTerminalShell(id) \/ enterShellAfterTask(id)
                                \/ setActiveTerminal(id)
             \/ Closed \/ CloseFailed \/ CheckFindsTask \/ CheckFindsNothing \/ CheckDropped
             \/ ExitExpected \/ ExitCuts \/ \E quick \in BOOLEAN : ExitEnds(quick)
             \/ \E pane \in Panes : setTerminalFocusPane(pane)
             \/ activateProject
    BY <2>7 DEF closeTerminal, restartTerminal, reopenTerminalShell, enterShellAfterTask,
                setActiveTerminal, Closed, CloseFailed, CheckFindsTask, CheckFindsNothing,
                CheckDropped, ExitExpected, ExitCuts, ExitEnds, setTerminalFocusPane,
                activateProject, ghosts
  <2>8. QED
    BY <1>5, <2>2, <2>3, <2>4, <2>5, <2>6, <2>7 DEF Store
<1>6. QED
  BY <1>1, <1>2, <1>3, <1>4, <1>5 DEF Next

LEMMA NextRemembers == Next => Remember
<1>1. SUFFICES ASSUME Next PROVE Remember
  OBVIOUS
<1>2. \A kind : Move(kind) \/ UserMove(kind) \/ System => Remember
  BY DEF Move, UserMove, System
<1>3. CASE Backend
  BY <1>2, <1>3
  DEF Backend, CreateServed, CreateRefused, KillServed, KillBegins, KillEnds, CloseOfSessionFails,
      KillRefused, KillGraceful, terminal_session_open, CheckFails, ShellEnds,
      ForcedToEnd
<1>4. CASE Exit
  BY <1>2, <1>4
  DEF Exit, pauseTerminalSpawnsForExit, Paused, PauseGivenUp, resumeTerminalSpawnsAfterExit,
      EndLeaving, ExitKilled, ExitKillFailed, ExitAllTheSame
<1>5. CASE Store
  <2>1. CASE \/ \E id \in Ids : \E task \in BOOLEAN : addScriptTerminal(id, task)
             \/ addTerminal \/ ProfileRefused \/ spawnRestoredTerminals
             \/ \E id \in Ids : ProfileTrusted(id) \/ spawnPendingTerminal(id)
             \/ Spawned \/ SpawnCancelled \/ SpawnFailed \/ CancelAnswered
    BY <1>2, <2>1 DEF addScriptTerminal, addTerminal, ProfileRefused, spawnRestoredTerminals,
                ProfileTrusted, spawnPendingTerminal, Spawned, SpawnCancelled, SpawnFailed,
                CancelAnswered
  <2>2. CASE \/ \E id \in Ids : closeTerminal(id) \/ restartTerminal(id)
                                \/ reopenTerminalShell(id) \/ enterShellAfterTask(id)
                                \/ setActiveTerminal(id) \/ closeOtherTerminals(id)
             \/ Closed \/ CloseFailed \/ CheckFindsTask \/ CheckFindsNothing \/ CheckDropped
             \/ closeAllProjectTerminals \/ BulkAnswered
             \/ \E job \in {"restart", "shell"} : RestartAnswered(job)
             \/ ExitExpected \/ ExitCuts \/ \E quick \in BOOLEAN : ExitEnds(quick)
             \/ \E pane \in Panes : setTerminalFocusPane(pane)
             \/ activateProject
    BY <1>2, <2>2 DEF closeTerminal, restartTerminal, reopenTerminalShell, enterShellAfterTask,
                setActiveTerminal, closeOtherTerminals, Closed, CloseFailed, CheckFindsTask,
                CheckFindsNothing, CheckDropped, closeAllProjectTerminals, BulkAnswered,
                RestartAnswered, ExitExpected, ExitCuts, ExitEnds, setTerminalFocusPane,
                activateProject
  <2>3. QED
    BY <1>5, <2>1, <2>2 DEF Store
<1>6. QED
  BY <1>1, <1>3, <1>4, <1>5 DEF Next

LEMMA CleanBefore ==
  ASSUME [Next]_vars, NEW id, Clean(id)'
  PROVE  Clean(id)
<1>1. stray \subseteq stray'
  BY StrayGrows
<1>2. CASE UNCHANGED vars
  <2>1. CrossedSoFar' = CrossedSoFar /\ MisroutedSoFar' = MisroutedSoFar
    BY <1>2 DEF vars, memory, CrossedSoFar, MisroutedSoFar, Busy, Calls, Told, storeVars
  <2>2. QED
    BY <1>1, <2>1 DEF Clean
<1>3. CASE Next
  <2>1. CrossedSoFar \subseteq CrossedSoFar' /\ MisroutedSoFar \subseteq MisroutedSoFar'
    BY <1>3, NextRemembers DEF Remember, CrossedSoFar, MisroutedSoFar
  <2>2. QED
    BY <1>1, <2>1 DEF Clean
<1>4. QED
  BY <1>2, <1>3

\* What a terminal that is not left out is not in the middle of.
LEMMA NotCrossed ==
  ASSUME NEW id, Clean(id)
  PROVE  /\ id \in Busy({"restart", "shell"}) => id \notin Busy({"create"}) \cup Busy({"close"})
         /\ InBulk(id) => id \notin Busy({"create"})
<1>1. Busy({"create"}) \subseteq Busy({"create", "close", "bulk"})
      /\ Busy({"close"}) \subseteq Busy({"create", "close", "bulk"})
  BY DEF Busy
<1>2. QED
  BY <1>1 DEF Clean, CrossedSoFar, InBulk

LEMMA NotMisrouted ==
  ASSUME NEW id, Clean(id), NEW r \in requests, r.id = id, r.astray
  PROVE  id \notin shells
BY DEF Clean, MisroutedSoFar

LEMMA MessageAt ==
  ASSUME inbox \in Seq(Message)
  PROVE  \A m : m \in Told <=> \E i \in 1 .. Len(inbox) : inbox[i] = m
BY LenProperties DEF Told, Range

LEMMA CallFor ==
  ASSUME NEW job, NEW ids, NEW id \in ids
  PROVE  \E r \in NewCalls(job, ids) : r.id = id /\ r.job = job /\ ~r.begun
<1> DEFINE call(i) == [job |-> job, id |-> i, begun |-> FALSE, astray |-> Astray(job, i),
                       n |-> CHOOSE n \in Unused(job, i) : TRUE]
<1>1. NewCalls(job, ids) = {call(i) : i \in ids}
  BY DEF NewCalls
<1>2. call(id).id = id /\ call(id).job = job /\ ~call(id).begun
  OBVIOUS
<1> HIDE DEF call
<1>3. QED
  BY <1>1, <1>2

\* The inbox of a step that takes a message.
LEMMA InboxTaken ==
  ASSUME termTypeOK, inbox # <<>>, inbox' = Tail(inbox)
  PROVE  /\ Len(inbox) \in Nat \ {0} /\ Len(inbox') = Len(inbox) - 1 /\ Head(inbox) = inbox[1]
         /\ \A i \in 1 .. Len(inbox') : i + 1 \in 1 .. Len(inbox) /\ inbox'[i] = inbox[i + 1]
         /\ \A i \in 1 .. Len(inbox) :
              i > 1 => i - 1 \in 1 .. Len(inbox') /\ inbox'[i - 1] = inbox[i]
         /\ Told = {Head(inbox)} \cup Told'
<1>1. Len(inbox) \in Nat \ {0} /\ Len(inbox') = Len(inbox) - 1 /\ Head(inbox) = inbox[1]
  BY LenProperties, EmptySeq, HeadTailProperties DEF termTypeOK
<1>2. \A i \in 1 .. Len(inbox') : inbox'[i] = inbox[i + 1]
  BY InboxShrinks DEF termTypeOK
<1>3. \A i \in 1 .. Len(inbox) : i > 1 => i - 1 \in 1 .. Len(inbox') /\ inbox'[i - 1] = inbox[i]
  BY <1>1, <1>2
<1>4. Told = {Head(inbox)} \cup Told'
  BY InboxHead DEF Told, termTypeOK
<1>5. \A i \in 1 .. Len(inbox') : i + 1 \in 1 .. Len(inbox)
  BY <1>1
<1>6. QED
  BY <1>1, <1>2, <1>3, <1>4, <1>5

\* A shell may be created for id.
NewShell(id) ==
  /\ id \in Live' /\ ~tabs'[id].pending
  /\ id \notin Busy({"create"}) \cup shells /\ ~ClosingNow(id)

\* The message about id that is taken leaves somebody who kills its stray session.
TakenWell(id) ==
  Head(inbox).id = id =>
    /\ Creates(Head(inbox), id) /\ Head(inbox).result = "ok" =>
         \/ id \notin Live /\ \E r \in requests' : r.id = id /\ r.job = "cancel" /\ ~r.begun
         \/ id \in Live /\ (id \in Live' => ~tabs'[id].restored)
    /\ Head(inbox).job = "cancel" /\ Head(inbox).result = "failed" => id \notin shells

\* What a step of the store may do to the tab of id.
TabKept(id) ==
  /\ id \in Live' /\ tabs'[id].pending =>
       \/ id \in Live /\ tabs[id].pending
       \/ id \notin Busy({"create"}) \cup shells /\ ~ClosingNow(id)
  /\ id \in Live' /\ tabs'[id].restored => id \in Live /\ tabs[id].restored
  /\ id \in Live \ Live' => (id \in shells => HasOpened(id)')

\* What it may call for id.
CallsKept(id) ==
  /\ \A r \in requests' \ requests : ~r.begun
  /\ \A r \in requests' \ requests : Creates(r, id) => NewShell(id)
  /\ \A q, r \in requests' \ requests : Creates(q, id) /\ Creates(r, id) => q = r
  /\ \A r \in requests' \ requests :
       r.job = "close" /\ r.id = id /\ id \in Live => ~tabs[id].restored

SessionFrame ==
  /\ shells' = shells /\ requests \subseteq requests'
  /\ inbox' = inbox \/ (inbox # <<>> /\ inbox' = Tail(inbox))

LEMMA SessionFacts ==
  ASSUME termTypeOK, SessionFrame, NEW id
  PROVE  /\ Told' \subseteq Told
         /\ \A m \in Told \ Told' : inbox' # inbox /\ m = Head(inbox)
         /\ ClosingNow(id) => ClosingNow(id)'
         /\ (\A r \in requests' \ requests : ~r.begun) => (ClosingNow(id)' => ClosingNow(id))
<1>1. /\ Told' \subseteq Told
      /\ \A m \in Told \ Told' : inbox' # inbox /\ m = Head(inbox)
  BY InboxTaken DEF SessionFrame, Told
<1>2. QED
  BY <1>1 DEF SessionFrame, ClosingNow

\* Once the answer of a creation is taken there is no other.
LEMMA CreateTaken ==
  ASSUME termTypeOK, SessionFrame, NEW id, OneCreate(id), CallsKept(id),
         inbox' # inbox, Creates(Head(inbox), id)
  PROVE  id \notin Busy({"create"})'
<1>1. /\ Len(inbox) \in Nat \ {0} /\ Head(inbox) = inbox[1]
      /\ \A i \in 1 .. Len(inbox') : i + 1 \in 1 .. Len(inbox) /\ inbox'[i] = inbox[i + 1]
      /\ Told = {Head(inbox)} \cup Told'
  BY InboxTaken DEF SessionFrame
<1>2. ASSUME NEW m \in Told' PROVE ~Creates(m, id)
  <2>1. inbox' \in Seq(Message)
    BY InboxHead DEF SessionFrame, termTypeOK
  <2>2. PICK i \in 1 .. Len(inbox') : inbox'[i] = m
    BY <2>1, LenProperties DEF Told, Range
  <2>3. i \in Nat /\ i >= 1 /\ i + 1 # 1
    BY <2>1, LenProperties
  <2>4. QED
    BY <1>1, <2>2, <2>3 DEF OneCreate
<1>3. ASSUME NEW r \in requests', Creates(r, id) PROVE FALSE
  <2>1. Head(inbox) \in Told /\ Head(inbox) \in Calls
    BY <1>1 DEF Calls
  <2>2. CASE r \in requests
    BY <1>3, <2>1, <2>2 DEF OneCreate
  <2>3. CASE r \notin requests
    <3>1. id \in Busy({"create"})
      BY <2>1 DEF Busy, Creates
    <3>2. QED
      BY <1>3, <2>3, <3>1 DEF CallsKept, NewShell
  <2>4. QED
    BY <2>2, <2>3
<1>4. QED
  BY <1>2, <1>3 DEF Busy, Calls, Creates

\* A creation under way has been so before, or its tab has no session.
LEMMA BusyCreating ==
  ASSUME termTypeOK, SessionFrame, NEW id, CallsKept(id), id \in Busy({"create"})'
  PROVE  id \in Busy({"create"}) \/ NewShell(id)
<1>1. PICK c \in Calls' : Creates(c, id)
  BY DEF Busy, Creates
<1>2. CASE c \in Calls
  BY <1>1, <1>2 DEF Busy, Creates
<1>3. CASE c \notin Calls
  <2>1. c \in requests' \ requests
    BY <1>3, SessionFacts DEF Calls
  <2>2. QED
    BY <1>1, <2>1 DEF CallsKept
<1>4. QED
  BY <1>2, <1>3

\* The opening of id stays to be told unless its answer is taken.
LEMMA OpenedKept ==
  ASSUME termTypeOK, SessionFrame, NEW id, HasOpened(id)
  PROVE  \/ HasOpened(id)'
         \/ inbox' # inbox /\ Creates(Head(inbox), id) /\ Head(inbox).result = "ok"
<1>1. PICK m \in Told : Creates(m, id) /\ m.result = "ok"
  BY DEF HasOpened
<1>2. QED
  BY <1>1, SessionFacts DEF HasOpened

LEMMA StoreSettles ==
  ASSUME termTypeOK, SessionFrame, NEW id, Settled(id), CallsKept(id), TabKept(id),
         inbox' = inbox \/ TakenWell(id), BulkKills(id)'
  PROVE  Settled(id)'
<1> USE DEF Settled
<1>1. Told' \subseteq Told /\ shells' = shells /\ (ClosingNow(id)' <=> ClosingNow(id))
  BY SessionFacts DEF SessionFrame, CallsKept
<1>2. OneCreate(id)'
  <2>1. ASSUME NEW q \in requests', NEW r \in requests', Creates(q, id), Creates(r, id)
        PROVE  q = r
    <3>1. CASE q \in requests /\ r \in requests
      BY <2>1, <3>1 DEF OneCreate
    <3>2. CASE q \notin requests /\ r \notin requests
      BY <2>1, <3>2 DEF CallsKept
    <3>3. ASSUME NEW p \in requests, Creates(p, id), id \notin Busy({"create"})
          PROVE  FALSE
      BY <3>3 DEF Busy, Calls, Creates
    <3>4. QED
      BY <2>1, <3>1, <3>2, <3>3 DEF CallsKept, NewShell
  <2>2. ASSUME NEW r \in requests', NEW m \in Told', Creates(r, id), Creates(m, id)
        PROVE  FALSE
    <3>1. CASE r \in requests
      BY <1>1, <2>2, <3>1 DEF OneCreate
    <3>2. CASE r \notin requests
      <4>1. id \in Busy({"create"})
        BY <1>1, <2>2 DEF Busy, Calls, Creates
      <4>2. QED
        BY <2>2, <3>2, <4>1 DEF CallsKept, NewShell
    <3>3. QED
      BY <3>1, <3>2
  <2>3. ASSUME NEW i \in 1 .. Len(inbox'), NEW j \in 1 .. Len(inbox'),
               Creates(inbox'[i], id), Creates(inbox'[j], id)
        PROVE  i = j
    <3>1. CASE inbox' = inbox
      BY <2>3, <3>1 DEF OneCreate
    <3>2. CASE inbox' # inbox
      <4>1. /\ i + 1 \in 1 .. Len(inbox) /\ inbox'[i] = inbox[i + 1]
            /\ j + 1 \in 1 .. Len(inbox) /\ inbox'[j] = inbox[j + 1]
        BY <3>2, InboxTaken DEF SessionFrame
      <4>2. i + 1 = j + 1
        BY <2>3, <4>1 DEF OneCreate
      <4>3. i \in Int /\ j \in Int
        OBVIOUS
      <4>4. QED
        BY <4>2, <4>3
    <3>3. QED
      BY <3>1, <3>2
  <2>4. QED
    BY <2>1, <2>2, <2>3 DEF OneCreate
<1>3. PendingIsNew(id)'
  BY <1>1, BusyCreating DEF PendingIsNew, TabKept, NewShell
<1>4. RestoredIsNew(id)'
  <2>1. SUFFICES ASSUME id \in Live', tabs'[id].restored, id \in shells
                 PROVE  HasOpened(id)'
    BY <1>1 DEF RestoredIsNew
  <2>2. HasOpened(id) /\ id \in Live
    BY <2>1 DEF TabKept, RestoredIsNew
  <2>3. ~(inbox' # inbox /\ Creates(Head(inbox), id) /\ Head(inbox).result = "ok")
    BY <2>1, <2>2 DEF TakenWell, Creates
  <2>4. QED
    BY <2>2, <2>3, OpenedKept
<1>5. CreatingHasNone(id)'
  <2>1. SUFFICES ASSUME id \in Busy({"create"})', id \in shells
                 PROVE  HasOpened(id)'
    BY <1>1 DEF CreatingHasNone
  <2>2. HasOpened(id)
    BY <2>1, BusyCreating DEF CreatingHasNone, NewShell
  <2>3. QED
    BY <2>1, <2>2, OpenedKept, CreateTaken
<1>6. RestartedHasNone(id)'
  BY <1>1 DEF RestartedHasNone, CallsKept
<1>7. ClosingIsLast(id)'
  <2>1. SUFFICES ASSUME ClosingNow(id)
                 PROVE  /\ id \notin shells /\ \A r \in requests' : ~Creates(r, id)
                        /\ id \in Live' => ~tabs'[id].pending
    BY <1>1 DEF ClosingIsLast
  <2>2. QED
    BY <2>1 DEF ClosingIsLast, CallsKept, NewShell, TabKept
<1>8. EndIsTold(id)'
  <2>1. CASE inbox' = inbox
    BY <1>1, <2>1 DEF EndIsTold
  <2>2. CASE inbox' # inbox
    <3>1. SUFFICES ASSUME NEW i \in 1 .. Len(inbox'), EndsTab(inbox'[i], id), id \in shells
                   PROVE  \E j \in 1 .. Len(inbox') :
                            j > i /\ Creates(inbox'[j], id) /\ inbox'[j].result = "ok"
      BY <1>1 DEF EndIsTold
    <3>2. i + 1 \in 1 .. Len(inbox) /\ inbox'[i] = inbox[i + 1]
      BY <2>2, InboxTaken DEF SessionFrame
    <3>3. PICK j \in 1 .. Len(inbox) :
                 j > i + 1 /\ Creates(inbox[j], id) /\ inbox[j].result = "ok"
      BY <3>1, <3>2 DEF EndIsTold
    <3>4. i \in Int /\ j \in Int /\ i >= 1
      OBVIOUS
    <3>5. j > 1 /\ j - 1 > i
      BY <3>3, <3>4
    <3>6. j - 1 \in 1 .. Len(inbox') /\ inbox'[j - 1] = inbox[j]
      BY <2>2, <3>5, InboxTaken DEF SessionFrame
    <3>7. QED
      BY <3>3, <3>5, <3>6
  <2>3. QED
    BY <2>1, <2>2
<1>9. Swept(id)'
  <2>1. SUFFICES ASSUME id \in shells \ Live'
                 PROVE  HasOpened(id)' \/ Unkilled("cancel", id)'
    BY <1>1 DEF Swept
  <2>2. CASE id \in Live
    BY <2>1, <2>2 DEF TabKept
  <2>3. CASE id \notin Live /\ HasOpened(id)
    BY <2>1, <2>3, OpenedKept DEF TakenWell, Unkilled, Creates
  <2>4. CASE \E r \in requests : r.id = id /\ r.job = "cancel" /\ ~r.begun
    BY <2>4 DEF Unkilled, SessionFrame
  <2>5. ASSUME NEW m \in Told, m.id = id, m.job = "cancel", m.result = "failed"
        PROVE  Unkilled("cancel", id)'
    <3>1. m \in Told'
      BY <2>1, <2>5, SessionFacts DEF TakenWell
    <3>2. QED
      BY <2>5, <3>1 DEF Unkilled
  <2>6. QED
    BY <2>1, <2>2, <2>3, <2>4, <2>5 DEF Swept, Unkilled
<1>10. ClosedHadShell(id)'
  BY <1>1 DEF ClosedHadShell, Busy, Calls, CallsKept, TabKept
<1>11. QED
  BY <1>2, <1>3, <1>4, <1>5, <1>6, <1>7, <1>8, <1>9, <1>10

\* A close of many tabs that is not touched.
LEMMA BulkKillsKept ==
  ASSUME termTypeOK, SessionFrame, NEW id, BulkKills(id), bulk' = bulk,
         inbox' = inbox \/ Head(inbox).job # "bulk"
  PROVE  BulkKills(id)'
<1>1. SUFFICES ASSUME InBulk(id), id \in shells, Unkilled("bulk", id)
               PROVE  Unkilled("bulk", id)'
  BY DEF BulkKills, SessionFrame, InBulk
<1>2. CASE \E r \in requests : r.id = id /\ r.job = "bulk" /\ ~r.begun
  BY <1>2 DEF Unkilled, SessionFrame
<1>3. ASSUME NEW m \in Told, m.id = id, m.job = "bulk", m.result = "failed"
      PROVE  Unkilled("bulk", id)'
  <2>1. m \in Told'
    BY <1>3, SessionFacts
  <2>2. QED
    BY <1>3, <2>1 DEF Unkilled
<1>4. QED
  BY <1>1, <1>2, <1>3 DEF Unkilled

\* The tabs stay, and none waits for a shell that did not before.
OldTabs ==
  /\ Live' = Live
  /\ \A id \in Live : /\ tabs'[id].pending => tabs[id].pending
                      /\ tabs'[id].restored => tabs[id].restored

\* A step that creates and removes nothing.
LEMMA QuietSettles ==
  ASSUME termTypeOK, SessionFrame, NEW id, Settled(id), OldTabs, bulk' = bulk,
         \A r \in requests' \ requests : r.job \notin {"create", "close"} /\ ~r.begun,
         inbox' = inbox \/ Head(inbox).job \notin {"create", "cancel", "bulk"}
  PROVE  Settled(id)'
<1>1. CallsKept(id)
  BY DEF CallsKept, Creates
<1>2. TabKept(id)
  BY DEF TabKept, OldTabs
<1>3. inbox' = inbox \/ TakenWell(id)
  BY DEF TakenWell, Creates
<1>4. BulkKills(id)'
  BY BulkKillsKept DEF Settled
<1>5. QED
  BY <1>1, <1>2, <1>3, <1>4, StoreSettles

LEMMA SameOldTabs == tabs' = tabs => OldTabs
BY DEF OldTabs, Live

LEMMA EndedOldTabs ==
  ASSUME termTypeOK, NEW id, tabs' = Ended(id)
  PROVE  OldTabs
<1>1. CASE id \in Live
  <2>1. tabs[id] \in Tab /\ tabs' = [tabs EXCEPT ![id] = [tabs[id] EXCEPT !.status = "exited",
                                       !.restored = FALSE, !.pending = FALSE]]
    BY <1>1 DEF Ended, With, termTypeOK
  <2>2. [tabs[id] EXCEPT !.status = "exited", !.restored = FALSE, !.pending = FALSE]
          = [tabs[id] EXCEPT !.status = "exited", !.restored = FALSE, !.pending = FALSE]
    OBVIOUS
  <2> DEFINE tab == [tabs[id] EXCEPT !.status = "exited", !.restored = FALSE, !.pending = FALSE]
  <2>3. tab.restored = FALSE /\ tab.pending = FALSE
    BY <2>1 DEF Tab
  <2> HIDE DEF tab
  <2>4. tabs' = [tabs EXCEPT ![id] = tab]
    BY <2>1 DEF tab
  <2>5. QED
    BY <1>1, <2>3, <2>4 DEF OldTabs, Live
<1>2. CASE id \notin Live
  BY <1>2, SameOldTabs DEF Ended, With
<1>3. QED
  BY <1>1, <1>2

LEMMA ChangedOldTabs ==
  ASSUME termTypeOK, NEW id, NEW value,
         \/ tabs' = [tabs EXCEPT ![id].status = value]
         \/ tabs' = [tabs EXCEPT ![id].task = value]
  PROVE  OldTabs
<1>1. \A tab \in Tab :
        /\ [tab EXCEPT !.status = value].pending = tab.pending
        /\ [tab EXCEPT !.status = value].restored = tab.restored
        /\ [tab EXCEPT !.task = value].pending = tab.pending
        /\ [tab EXCEPT !.task = value].restored = tab.restored
  BY DEF Tab
<1>2. CASE tabs' = [tabs EXCEPT ![id].status = value]
  BY <1>1, <1>2 DEF OldTabs, Live, termTypeOK
<1>3. CASE tabs' = [tabs EXCEPT ![id].task = value]
  BY <1>1, <1>3 DEF OldTabs, Live, termTypeOK
<1>4. QED
  BY <1>2, <1>3

LEMMA NoNewCreates ==
  ASSUME NEW job, job \notin {"create", "close"}, NEW ids,
         requests' = requests \/ requests' = requests \cup NewCalls(job, ids)
  PROVE  /\ requests \subseteq requests'
         /\ \A r \in requests' \ requests : r.job \notin {"create", "close"} /\ ~r.begun
BY NewCallsAre

\* Panes, dialogs, the questions about finished tasks, and the exits of shells.
LEMMA SettledQuiet ==
  ASSUME ShellInv, NEW id \in Ids, Settled(id), NEW other \in Ids, NEW pane \in Panes,
         NEW quick \in BOOLEAN,
         \/ addTerminal \/ ProfileRefused
         \/ setTerminalFocusPane(pane) \/ setActiveTerminal(other) \/ activateProject
         \/ ExitExpected \/ ExitEnds(quick) \/ ExitCuts \/ CloseFailed
         \/ CheckFindsTask \/ CheckFindsNothing \/ CheckDropped
         \/ restartTerminal(other) \/ reopenTerminalShell(other) \/ enterShellAfterTask(other)
  PROVE  Settled(id)'
<1> USE DEF ShellInv, TermInv
<1>1. CASE \/ addTerminal \/ ProfileRefused \/ setTerminalFocusPane(pane)
           \/ setActiveTerminal(other) \/ activateProject
  <2>1. /\ shells' = shells /\ bulk' = bulk /\ requests' = requests /\ inbox' = inbox
        /\ tabs' = tabs
    BY <1>1 DEF addTerminal, ProfileRefused, setTerminalFocusPane, setActiveTerminal,
                activateProject
  <2>2. OldTabs /\ SessionFrame
    BY <2>1, SameOldTabs DEF SessionFrame
  <2>3. QED
    BY <2>1, <2>2, QuietSettles
<1>2. CASE \/ ExitExpected \/ ExitEnds(quick) \/ ExitCuts \/ CloseFailed
           \/ CheckFindsTask \/ CheckDropped
  <2>1. /\ shells' = shells /\ bulk' = bulk /\ requests' = requests
        /\ inbox # <<>> /\ inbox' = Tail(inbox)
        /\ Head(inbox).job \in {"exited", "close", "check"}
    BY <1>2 DEF ExitExpected, ExitEnds, ExitCuts, CloseFailed, CheckFindsTask, CheckDropped,
                Receive
  <2> PICK subject : subject = Subject
    OBVIOUS
  <2>2. \/ tabs' = tabs \/ tabs' = Ended(subject)
        \/ \E value : tabs' = [tabs EXCEPT ![subject].status = value]
    BY <1>2 DEF ExitExpected, ExitEnds, ExitCuts, CloseFailed, CheckFindsTask, CheckDropped, Put
  <2>3. OldTabs /\ SessionFrame
    BY <2>1, <2>2, SameOldTabs, EndedOldTabs, ChangedOldTabs DEF SessionFrame
  <2>4. QED
    BY <2>1, <2>3, QuietSettles
<1>3. CASE CheckFindsNothing
  <2> PICK subject : subject = Subject
    OBVIOUS
  <2>1. /\ shells' = shells /\ bulk' = bulk /\ tabs' = [tabs EXCEPT ![subject].task = FALSE]
        /\ requests' = requests \/ requests' = requests \cup NewCalls("shell", {subject})
        /\ inbox # <<>> /\ inbox' = Tail(inbox) /\ Head(inbox).job = "check"
    BY <1>3 DEF CheckFindsNothing, BeginRestart, Receive
  <2>2. OldTabs
    BY <2>1, ChangedOldTabs
  <2>3. /\ SessionFrame
        /\ \A r \in requests' \ requests : r.job \notin {"create", "close"} /\ ~r.begun
    BY <2>1, NoNewCreates DEF SessionFrame
  <2>4. QED
    BY <2>1, <2>2, <2>3, QuietSettles
<1>4. CASE \/ restartTerminal(other) \/ reopenTerminalShell(other)
           \/ enterShellAfterTask(other)
  <2>1. /\ shells' = shells /\ bulk' = bulk /\ inbox' = inbox
        /\ tabs' = tabs \/ tabs' = [tabs EXCEPT ![other].task = FALSE]
    BY <1>4 DEF restartTerminal, reopenTerminalShell, enterShellAfterTask, Put
  <2>2. PICK job \in {"restart", "check"} :
          requests' = requests \/ requests' = requests \cup NewCalls(job, {other})
    BY <1>4 DEF restartTerminal, reopenTerminalShell, enterShellAfterTask, BeginRestart
  <2>3. OldTabs
    BY <2>1, SameOldTabs, ChangedOldTabs
  <2>4. /\ SessionFrame
        /\ \A r \in requests' \ requests : r.job \notin {"create", "close"} /\ ~r.begun
    BY <2>1, <2>2, NoNewCreates DEF SessionFrame
  <2>5. QED
    BY <2>1, <2>3, <2>4, QuietSettles
<1>5. QED
  BY <1>1, <1>2, <1>3, <1>4

LEMMA SettledExit ==
  ASSUME ShellInv, NEW id \in Ids, Settled(id), Exit
  PROVE  Settled(id)'
<1> USE DEF ShellInv, TermInv
<1>1. /\ shells' = shells /\ bulk' = bulk
      /\ requests' = requests \/ requests' = requests \cup NewCalls("exit", leaving)
  BY DEF Exit, pauseTerminalSpawnsForExit, Paused, PauseGivenUp, resumeTerminalSpawnsAfterExit,
         EndLeaving, ExitKilled, ExitKillFailed, ExitAllTheSame, exitFrame, storeVars
<1>2. inbox' = inbox \/ (inbox # <<>> /\ inbox' = Tail(inbox) /\ Head(inbox).job = "exit")
  BY DEF Exit, pauseTerminalSpawnsForExit, Paused, PauseGivenUp, resumeTerminalSpawnsAfterExit,
         EndLeaving, ExitKilled, ExitKillFailed, ExitAllTheSame, exitFrame, Receive
<1> PICK subject : subject = Subject
  OBVIOUS
<1>3. tabs' = tabs \/ tabs' = Ended(subject)
  BY DEF Exit, pauseTerminalSpawnsForExit, Paused, PauseGivenUp, resumeTerminalSpawnsAfterExit,
         EndLeaving, ExitKilled, ExitKillFailed, ExitAllTheSame, exitFrame, storeVars, Put
<1>4. OldTabs
  BY <1>3, SameOldTabs, EndedOldTabs
<1>5. SessionFrame /\ \A r \in requests' \ requests : r.job \notin {"create", "close"} /\ ~r.begun
  BY <1>1, <1>2, NoNewCreates DEF SessionFrame
<1>6. QED
  BY <1>1, <1>2, <1>4, <1>5, QuietSettles

\* A terminal without a tab before has neither calls nor a session.
LEMMA SettledNewTabs ==
  ASSUME ShellInv, NEW id \in Ids, Settled(id), NEW other \in Ids, NEW task \in BOOLEAN,
         addScriptTerminal(other, task) \/ ProfileTrusted(other)
  PROVE  Settled(id)'
<1> USE DEF ShellInv, TermInv
<1>1. shells' = shells /\ bulk' = bulk /\ requests' = requests /\ inbox' = inbox
  BY DEF addScriptTerminal, ProfileTrusted
<1>2. SessionFrame
  BY <1>1 DEF SessionFrame
<1>3. CASE tabs' = tabs
  BY <1>1, <1>2, <1>3, SameOldTabs, QuietSettles
<1>4. ASSUME NEW t \in BOOLEAN, NewTab(other, t)
      PROVE  Settled(id)'
  <2>1. /\ other \notin opened /\ Live' = Live \cup {other}
        /\ \A i \in Live : i # other => tabs'[i] = tabs[i]
        /\ ~tabs'[other].restored
    BY <1>4 DEF NewTab, Put, Live
  <2>2. other \notin Busy({"create"}) \cup shells /\ ~ClosingNow(other)
    BY <2>1 DEF Quieter, OpenedOnly, Busy, ClosingNow, Calls
  <2>3. TabKept(id)
    BY <2>1, <2>2 DEF TabKept
  <2>4. CallsKept(id)
    BY <1>1 DEF CallsKept
  <2>5. BulkKills(id)'
    BY <1>1, <1>2, BulkKillsKept DEF Settled
  <2>6. QED
    BY <1>1, <1>2, <2>3, <2>4, <2>5, StoreSettles
<1>5. QED
  BY <1>3, <1>4 DEF addScriptTerminal, ProfileTrusted

\* The answers to creations and to the kill of a cancelled one.
LEMMA SettledSpawned ==
  ASSUME ShellInv, NEW id \in Ids, Settled(id), Clean(id)',
         Spawned \/ SpawnFailed \/ SpawnCancelled \/ CancelAnswered
  PROVE  Settled(id)'
<1> USE DEF ShellInv, TermInv
<1> PICK subject : subject = Subject
  OBVIOUS
<1>1. /\ shells' = shells /\ bulk' = bulk
      /\ requests' = requests \/ requests' = requests \cup NewCalls("cancel", {subject})
      /\ inbox # <<>> /\ inbox' = Tail(inbox) /\ Head(inbox).job \in {"create", "cancel"}
  BY DEF Spawned, SpawnFailed, SpawnCancelled, CancelAnswered, Receive, storeVars
<1>2. SessionFrame /\ \A r \in requests' \ requests : r.job \notin {"create", "close"} /\ ~r.begun
  BY <1>1, NoNewCreates DEF SessionFrame
<1>3. CallsKept(id)
  BY <1>2 DEF CallsKept, Creates
<1>4. OldTabs /\ (Spawned => subject \in Live /\ ~tabs'[subject].restored)
  <2>1. CASE Spawned
    <3>1. /\ subject \in Live
          /\ tabs' = [tabs EXCEPT ![subject] = [@ EXCEPT !.status = "running",
                                                         !.restored = FALSE, !.pending = FALSE]]
      BY <2>1 DEF Spawned, Put
    <3>2. \A tab \in Tab :
            LET new == [tab EXCEPT !.status = "running", !.restored = FALSE, !.pending = FALSE]
            IN  ~new.restored /\ ~new.pending
      BY DEF Tab
    <3>3. QED
      BY <3>1, <3>2 DEF OldTabs, Live, termTypeOK
  <2>2. CASE SpawnFailed \/ SpawnCancelled \/ CancelAnswered
    <3>1. ~Spawned \/ (subject \in Live /\ ~tabs'[subject].restored)
      <4>1. CASE Spawned
        BY <2>1, <4>1
      <4>2. QED
        BY <4>1
    <3>2. tabs' = tabs \/ tabs' = Ended(subject)
      BY <2>2 DEF SpawnFailed, SpawnCancelled, CancelAnswered, storeVars, Put
    <3>3. QED
      BY <3>1, <3>2, SameOldTabs, EndedOldTabs
  <2>3. QED
    BY <2>1, <2>2
<1>5. TabKept(id)
  BY <1>4 DEF TabKept, OldTabs
<1>6. TakenWell(id)
  <2>1. SUFFICES ASSUME subject = id PROVE TakenWell(id)
    BY DEF TakenWell, Subject
  <2>2. CASE Spawned
    BY <1>4, <2>1, <2>2 DEF TakenWell, Spawned, Receive
  <2>3. CASE SpawnFailed
    BY <2>3 DEF TakenWell, SpawnFailed, Receive
  <2>4. CASE SpawnCancelled
    <3>1. requests' = requests \cup NewCalls("cancel", {subject}) /\ subject \notin Live
      BY <2>4 DEF SpawnCancelled
    <3>2. \E r \in NewCalls("cancel", {subject}) : r.id = id /\ r.job = "cancel" /\ ~r.begun
      BY <2>1, CallFor
    <3>3. QED
      BY <2>1, <2>4, <3>1, <3>2 DEF TakenWell, SpawnCancelled, Receive
  <2>5. CASE CancelAnswered
    <3>1. Head(inbox).result = "failed" => id \notin shells
      BY <2>1, <2>5 DEF CancelAnswered, GiveUpIfFailed, Clean
    <3>2. QED
      BY <2>5, <3>1 DEF TakenWell, CancelAnswered, Receive, Creates
  <2>6. QED
    BY <2>2, <2>3, <2>4, <2>5
<1>7. BulkKills(id)'
  BY <1>1, <1>2, BulkKillsKept DEF Settled
<1>8. QED
  BY <1>2, <1>3, <1>5, <1>6, <1>7, StoreSettles

\* A new request of one creation for each of ids.
LEMMA NewCreates ==
  ASSUME NEW ids, requests' = requests \cup NewCalls("create", ids), NEW id
  PROVE  /\ requests \subseteq requests'
         /\ \A r \in requests' \ requests : r.job = "create" /\ ~r.begun
         /\ \A r \in requests' \ requests : Creates(r, id) => id \in ids
         /\ \A q, r \in requests' \ requests : Creates(q, id) /\ Creates(r, id) => q = r
<1> DEFINE call(i) == [job |-> "create", id |-> i, begun |-> FALSE, astray |-> Astray("create", i),
                       n |-> CHOOSE n \in Unused("create", i) : TRUE]
<1>1. NewCalls("create", ids) = {call(i) : i \in ids}
  BY DEF NewCalls
<1>2. \A i : call(i).job = "create" /\ call(i).id = i /\ ~call(i).begun
  OBVIOUS
<1> HIDE DEF call
<1>3. \A r \in requests' \ requests : \E i \in ids : r = call(i)
  BY <1>1
<1>4. QED
  BY <1>2, <1>3 DEF Creates

\* Shells are created for tabs that have none.
LEMMA CreatingSettles ==
  ASSUME ShellInv, NEW id, Settled(id), NEW ids,
         shells' = shells, bulk' = bulk, Live' = Live,
         requests' = requests \cup NewCalls("create", ids),
         inbox' = inbox \/ (inbox # <<>> /\ inbox' = Tail(inbox)
                            /\ Head(inbox).job \notin {"create", "cancel", "bulk"}),
         id \in ids => NewShell(id),
         id \in Live => /\ tabs'[id].pending => tabs[id].pending
                                 \/ (id \notin Busy({"create"}) \cup shells /\ ~ClosingNow(id))
                        /\ tabs'[id].restored => tabs[id].restored
  PROVE  Settled(id)'
<1>1. SessionFrame
  BY NewCreates DEF SessionFrame
<1>2. CallsKept(id)
  BY NewCreates DEF CallsKept
<1>3. TabKept(id)
  BY DEF TabKept
<1>4. inbox' = inbox \/ TakenWell(id)
  BY DEF TakenWell, Creates
<1>5. BulkKills(id)'
  BY <1>1, BulkKillsKept DEF Settled, ShellInv, TermInv
<1>6. QED
  BY <1>1, <1>2, <1>3, <1>4, <1>5, StoreSettles DEF ShellInv, TermInv

LEMMA SettledSpawns ==
  ASSUME ShellInv, NEW id \in Ids, Settled(id), NEW other \in Ids,
         spawnPendingTerminal(other) \/ spawnRestoredTerminals
  PROVE  Settled(id)'
<1> USE DEF ShellInv, TermInv
<1>1. CASE spawnPendingTerminal(other)
  <2>1. /\ shells' = shells /\ bulk' = bulk /\ inbox' = inbox
        /\ requests' = requests \cup NewCalls("create", {other})
        /\ tabs' = Created({other}, tabs) /\ other \in Live /\ tabs[other].pending
    BY <1>1 DEF spawnPendingTerminal, Put
  <2>2. /\ Live' = Live /\ ~tabs'[other].pending
        /\ \A i \in Live : /\ tabs'[i].pending => tabs[i].pending
                           /\ tabs'[i].restored => tabs[i].restored
    <3>1. \A tab \in Tab : /\ ~[tab EXCEPT !.pending = FALSE].pending
                           /\ [tab EXCEPT !.pending = FALSE].restored = tab.restored
      BY DEF Tab
    <3>2. QED
      BY <2>1, <3>1 DEF Created, Live, termTypeOK
  <2>3. id = other => NewShell(id)
    <3>1. SUFFICES ASSUME id = other PROVE NewShell(id)
      OBVIOUS
    <3>2. id \notin Busy({"create"}) \cup shells
      BY <2>1, <3>1 DEF Settled, PendingIsNew
    <3>3. ~ClosingNow(id)
      BY <2>1, <3>1 DEF Settled, ClosingIsLast
    <3>4. QED
      BY <2>1, <2>2, <3>1, <3>2, <3>3 DEF NewShell
  <2>4. id \in {other} => NewShell(id)
    BY <2>3
  <2>5. id \in Live => /\ tabs'[id].pending => tabs[id].pending
                       /\ tabs'[id].restored => tabs[id].restored
    BY <2>2
  <2>6. QED
    BY <2>1, <2>2, <2>4, <2>5, CreatingSettles
<1>2. CASE spawnRestoredTerminals
  <2> DEFINE ids == {i \in Live : tabs[i].restored} \ Busy({"create"})
             now == IF exit = "open" THEN ids \ held.spawns ELSE {}
             starting == [i \in Live |-> IF i \in ids
                            THEN [tabs[i] EXCEPT !.status = "starting", !.pending = TRUE]
                            ELSE tabs[i]]
  <2>1. /\ shells' = shells /\ bulk' = bulk /\ inbox' = inbox
        /\ requests' = requests \cup NewCalls("create", now)
        /\ tabs' = Created(now, starting) /\ now \subseteq ids
    BY <1>2 DEF spawnRestoredTerminals, Put
  <2>2. /\ Live' = Live
        /\ \A i \in now : ~tabs'[i].pending
        /\ \A i \in Live : /\ tabs'[i].pending => tabs[i].pending \/ i \in ids
                           /\ tabs'[i].restored => tabs[i].restored
    <3>1. \A tab \in Tab :
            /\ ~[tab EXCEPT !.pending = FALSE].pending
            /\ [tab EXCEPT !.pending = FALSE].restored = tab.restored
            /\ [tab EXCEPT !.status = "starting", !.pending = TRUE].restored = tab.restored
            /\ [tab EXCEPT !.status = "starting", !.pending = TRUE] \in Tab
      BY DEF Tab
    <3>2. starting \in [Live -> Tab]
      BY <3>1 DEF termTypeOK
    <3>3. \A i \in Live : /\ starting[i].restored = tabs[i].restored
                          /\ starting[i].pending => tabs[i].pending \/ i \in ids
      BY <3>1 DEF termTypeOK
    <3> HIDE DEF starting, ids, now
    <3>4. Live' = Live /\ \A i \in Live : tabs'[i] = IF i \in now
                                            THEN [starting[i] EXCEPT !.pending = FALSE]
                                            ELSE starting[i]
      BY <2>1, <3>2 DEF Created, Live
    <3>5. now \subseteq Live
      BY <2>1 DEF ids
    <3>6. QED
      BY <3>1, <3>2, <3>3, <3>4, <3>5, ZenonT(60)
  <2>3. ASSUME id \in ids PROVE id \notin Busy({"create"}) \cup shells /\ ~ClosingNow(id)
    <3>1. id \in Live /\ tabs[id].restored /\ id \notin Busy({"create"})
      BY <2>3
    <3>2. ~HasOpened(id)
      BY <3>1 DEF HasOpened, Busy, Calls, Creates
    <3>3. id \notin shells
      BY <3>1, <3>2 DEF Settled, RestoredIsNew
    <3>4. ~ClosingNow(id)
      BY <3>1 DEF Settled, ClosedHadShell, ClosingNow, Busy, Calls
    <3>5. QED
      BY <3>1, <3>3, <3>4
  <2>4. id \in now => NewShell(id)
    BY <2>1, <2>2, <2>3 DEF NewShell
  <2>5. id \in Live => (tabs'[id].pending => tabs[id].pending
                            \/ (id \notin Busy({"create"}) \cup shells /\ ~ClosingNow(id)))
    BY <2>2, <2>3
  <2> HIDE DEF ids, now, starting
  <2>6. QED
    BY <2>1, <2>2, <2>4, <2>5, CreatingSettles
<1>3. QED
  BY <1>1, <1>2

LEMMA SettledRestarted ==
  ASSUME ShellInv, NEW id \in Ids, Settled(id), Clean(id)', Clean(id),
         NEW job \in {"restart", "shell"}, RestartAnswered(job)
  PROVE  Settled(id)'
<1> USE DEF ShellInv, TermInv
<1> PICK subject : subject = Subject
  OBVIOUS
<1> DEFINE fresh == With(subject, [tabs[subject] EXCEPT
                              !.status = "starting", !.restored = FALSE, !.pending = TRUE])
<1>1. /\ shells' = shells /\ bulk' = bulk
      /\ inbox # <<>> /\ inbox' = Tail(inbox) /\ Head(inbox).job = job
  BY DEF RestartAnswered, Receive
<1>2. PICK now \in SUBSET ({subject} \cap Live) :
        /\ tabs' = Created(now, fresh)
        /\ requests' = requests \cup NewCalls("create", now)
  BY DEF RestartAnswered
<1>3. /\ Live' = Live /\ \A i \in now : ~tabs'[i].pending
      /\ \A i \in Live : /\ tabs'[i].pending => tabs[i].pending \/ i = subject
                         /\ tabs'[i].restored => tabs[i].restored
  <2>1. \A tab \in Tab :
            /\ ~[tab EXCEPT !.pending = FALSE].pending
            /\ [tab EXCEPT !.pending = FALSE].restored = tab.restored
            /\ ~[tab EXCEPT !.status = "starting", !.restored = FALSE, !.pending = TRUE].restored
            /\ [tab EXCEPT !.status = "starting", !.restored = FALSE, !.pending = TRUE] \in Tab
    BY DEF Tab
  <2>2. fresh \in [Live -> Tab]
    BY <2>1, WithType DEF termTypeOK
  <2>3. \A i \in Live : /\ fresh[i].restored => tabs[i].restored
                        /\ i # subject => fresh[i] = tabs[i]
    BY <2>1 DEF With, termTypeOK, Live
  <2> HIDE DEF fresh
  <2>4. Live' = Live /\ \A i \in Live : tabs'[i] = IF i \in now
                                          THEN [fresh[i] EXCEPT !.pending = FALSE]
                                          ELSE fresh[i]
    BY <1>2, <2>2 DEF Created, Live
  <2>5. \A i \in now : ~tabs'[i].pending
    <3>1. SUFFICES ASSUME NEW i \in now PROVE ~tabs'[i].pending
      OBVIOUS
    <3>2. i \in Live /\ fresh[i] \in Tab
      BY <1>2, <2>2
    <3>3. tabs'[i] = [fresh[i] EXCEPT !.pending = FALSE]
      BY <2>4, <3>2
    <3>4. PICK tab \in Tab : tab = fresh[i]
      BY <3>2
    <3>5. ~[tab EXCEPT !.pending = FALSE].pending
      BY DEF Tab
    <3>6. QED
      BY <3>3, <3>4, <3>5
  <2>6. ASSUME NEW i \in Live
        PROVE  /\ tabs'[i].pending => tabs[i].pending \/ i = subject
               /\ tabs'[i].restored => tabs[i].restored
    <3>1. CASE i \in now
      BY <2>1, <2>2, <2>3, <2>4, <3>1, ZenonT(60)
    <3>2. CASE i \notin now
      BY <2>3, <2>4, <3>2
    <3>3. QED
      BY <3>1, <3>2
  <2>7. QED
    BY <2>4, <2>5, <2>6
<1>4. ASSUME id = subject
      PROVE  id \notin Busy({"create"}) \cup shells /\ ~ClosingNow(id)
  <2>1. Head(inbox) \in Told /\ Head(inbox).id = id
    BY <1>1, <1>4, InboxHead DEF Told, Subject, termTypeOK
  <2>2. id \in Busy({"restart", "shell"})
    BY <1>1, <2>1 DEF Busy, Calls
  <2>3. id \notin Busy({"create"}) \cup Busy({"close"})
    BY <2>2, NotCrossed
  <2>4. ~ClosingNow(id)
    BY <2>3 DEF ClosingNow, Busy, Calls
  <2>5. id \notin shells
    <3>1. CASE Head(inbox).result = "failed"
      BY <1>4, <3>1 DEF RestartAnswered, GiveUpIfFailed, Clean
    <3>2. CASE Head(inbox).result = "ok"
      BY <1>1, <2>1, <3>2 DEF Settled, RestartedHasNone
    <3>3. QED
      BY <3>1, <3>2 DEF RestartAnswered, Receive
  <2>6. QED
    BY <2>3, <2>4, <2>5
<1>5. id \in now => NewShell(id)
  BY <1>2, <1>3, <1>4 DEF NewShell
<1> HIDE DEF fresh
<1>6. QED
  BY <1>1, <1>2, <1>3, <1>4, <1>5, CreatingSettles

LEMMA RemovedTab ==
  ASSUME NEW other, RemoveTab(other)
  PROVE  Live' = Live \ {other} /\ \A i \in Live' : tabs'[i] = tabs[i]
BY DEF RemoveTab, Put, Restrict, Live

LEMMA FinishedBulk ==
  ASSUME NEW b, FinishBulk(b)
  PROVE  /\ Live' \subseteq Live /\ (\A i \in Live' : tabs'[i] = tabs[i]) /\ bulk' = NoBulk
         /\ shells \cap (b.failed \cup ((Live \ Live') \ b.ids)) \subseteq stray'
<1> DEFINE gone == IF b.kind = "all" THEN Live ELSE b.ids \cap Live
<1>1. /\ tabs' = Restrict(tabs, Live \ gone) /\ bulk' = NoBulk
      /\ stray' = stray \cup (shells \cap (b.failed \cup (gone \ b.ids)))
  BY DEF FinishBulk, Put
<1>2. gone \subseteq Live
  OBVIOUS
<1> HIDE DEF gone
<1>3. Live' = Live \ gone /\ \A i \in Live' : tabs'[i] = tabs[i]
  BY <1>1 DEF Restrict, Live
<1>4. QED
  BY <1>1, <1>2, <1>3

\* A session whose end is told has been opened again.
LEMMA OpenedAgain ==
  ASSUME termTypeOK, NEW id, EndIsTold(id), id \in shells,
         inbox # <<>>, inbox' = Tail(inbox), EndsTab(Head(inbox), id)
  PROVE  HasOpened(id)'
<1>1. 1 \in 1 .. Len(inbox) /\ EndsTab(inbox[1], id)
  BY InboxTaken
<1>2. PICK j \in 1 .. Len(inbox) : j > 1 /\ Creates(inbox[j], id) /\ inbox[j].result = "ok"
  BY <1>1 DEF EndIsTold
<1>3. j - 1 \in 1 .. Len(inbox') /\ inbox'[j - 1] = inbox[j]
  BY <1>2, InboxTaken
<1>4. inbox' \in Seq(Message)
  BY InboxHead DEF termTypeOK
<1>5. inbox[j] \in Told'
  BY <1>3, <1>4, LenProperties DEF Told, Range
<1>6. QED
  BY <1>2, <1>5 DEF HasOpened

\* The calls of a close.
LEMMA ClosingCalls ==
  ASSUME NEW job, job # "create", NEW ids, requests' = requests \cup NewCalls(job, Killed(ids)),
         NEW id
  PROVE  requests \subseteq requests' /\ CallsKept(id)
<1>1. \A r \in requests' \ requests : r.job = job /\ r.id \in Killed(ids) /\ ~r.begun
  BY NewCallsAre
<1>2. QED
  BY <1>1 DEF CallsKept, Creates, Killed

LEMMA SettledCloses ==
  ASSUME ShellInv, NEW id \in Ids, Settled(id), NEW other \in Ids,
         closeTerminal(other) \/ Closed
  PROVE  Settled(id)'
<1> USE DEF ShellInv, TermInv
<1>1. CASE closeTerminal(other)
  <2>1. /\ shells' = shells /\ bulk' = bulk /\ inbox' = inbox
        /\ requests' = requests \cup NewCalls("close", Killed({other}))
        /\ tabs' = tabs \/ (RemoveTab(other) /\ tabs[other].restored)
    BY <1>1 DEF closeTerminal
  <2>2. CallsKept(id) /\ SessionFrame
    BY <2>1, ClosingCalls DEF SessionFrame
  <2>3. BulkKills(id)'
    BY <2>1, <2>2, BulkKillsKept DEF Settled
  <2>4. TabKept(id)
    <3>1. CASE tabs' = tabs
      BY <3>1 DEF TabKept, Live
    <3>2. CASE RemoveTab(other) /\ tabs[other].restored
      <4>1. ASSUME id = other, id \in Live, id \in shells PROVE HasOpened(id)'
        BY <2>1, <3>2, <4>1 DEF Settled, RestoredIsNew, HasOpened, Told
      <4>2. QED
        BY <3>2, <4>1, RemovedTab DEF TabKept
    <3>3. QED
      BY <2>1, <3>1, <3>2
  <2>5. QED
    BY <2>1, <2>2, <2>3, <2>4, StoreSettles
<1>2. CASE Closed
  <2> PICK subject : subject = Subject
    OBVIOUS
  <2>1. /\ shells' = shells /\ bulk' = bulk /\ requests' = requests /\ RemoveTab(subject)
        /\ inbox # <<>> /\ inbox' = Tail(inbox)
        /\ Head(inbox).job = "close" /\ Head(inbox).result = "ok"
    BY <1>2 DEF Closed, Receive
  <2>2. CallsKept(id) /\ SessionFrame
    BY <2>1 DEF SessionFrame, CallsKept
  <2>3. BulkKills(id)'
    BY <2>1, <2>2, BulkKillsKept DEF Settled
  <2>4. ASSUME id = subject, id \in shells PROVE HasOpened(id)'
    <3>1. EndsTab(Head(inbox), id)
      BY <2>1, <2>4 DEF EndsTab, Subject
    <3>2. QED
      BY <2>1, <2>4, <3>1, OpenedAgain DEF Settled
  <2>5. TabKept(id)
    BY <2>1, <2>4, RemovedTab DEF TabKept
  <2>6. TakenWell(id)
    BY <2>1 DEF TakenWell, Creates
  <2>7. QED
    BY <2>1, <2>2, <2>3, <2>5, <2>6, StoreSettles
<1>3. QED
  BY <1>1, <1>2

LEMMA SettledBulkBegins ==
  ASSUME ShellInv, bulk = NoBulk, NEW b \in BulkClose, b.ids \subseteq Live, BeginBulk(b),
         NEW id \in Ids, Settled(id), Clean(id)'
  PROVE  Settled(id)'
<1> USE DEF ShellInv, TermInv
<1>1. /\ shells' = shells /\ inbox' = inbox
      /\ requests' = requests \cup NewCalls("bulk", Killed(b.ids))
  BY DEF BeginBulk
<1>2. CallsKept(id) /\ SessionFrame
  BY <1>1, ClosingCalls DEF SessionFrame
<1>3. b # NoBulk
  BY DEF BulkClose, NoBulk
<1>4. ASSUME id \in b.ids, id \notin Killed(b.ids), id \in shells
      PROVE  HasOpened(id)'
  <2>1. id \in Live /\ tabs[id].restored
    BY <1>4 DEF Killed
  <2>2. QED
    BY <1>1, <1>4, <2>1 DEF Settled, RestoredIsNew, HasOpened, Told
<1>5. CASE Killed(b.ids) = {}
  <2>1. FinishBulk(b)
    BY <1>5 DEF BeginBulk
  <2>2. BulkKills(id)'
    BY <2>1, FinishedBulk DEF BulkKills, InBulk
  <2>3. id \in Live \ Live' => (id \in shells => HasOpened(id)')
    BY <1>4, <1>5, <2>1, FinishedBulk DEF Clean
  <2>4. TabKept(id)
    BY <2>1, <2>3, FinishedBulk DEF TabKept
  <2>5. QED
    BY <1>1, <1>2, <2>2, <2>4, StoreSettles
<1>6. CASE Killed(b.ids) # {}
  <2>1. bulk' = b /\ tabs' = tabs
    BY <1>6 DEF BeginBulk
  <2>2. TabKept(id)
    BY <2>1 DEF TabKept, Live
  <2>3. BulkKills(id)'
    <3>1. SUFFICES ASSUME id \in b.ids, id \in shells PROVE Unkilled("bulk", id)'
      BY <1>1, <2>1 DEF BulkKills, InBulk
    <3>2. id \in Killed(b.ids)
      <4>1. SUFFICES ASSUME id \notin Killed(b.ids) PROVE FALSE
        OBVIOUS
      <4>2. id \in Busy({"create"})'
        BY <1>4, <3>1, <4>1 DEF HasOpened, Busy, Calls, Creates
      <4>3. bulk' # NoBulk /\ id \in bulk'.ids
        BY <1>3, <2>1, <3>1
      <4>4. QED
        BY <4>2, <4>3 DEF Clean, CrossedSoFar
    <3>3. \E r \in NewCalls("bulk", Killed(b.ids)) : r.id = id
      BY <3>2, CallFor
    <3>4. QED
      BY <1>1, <3>3, NewCallsAre DEF Unkilled
  <2>4. QED
    BY <1>1, <1>2, <2>2, <2>3, StoreSettles
<1>7. QED
  BY <1>5, <1>6

LEMMA SettledBulkAnswered ==
  ASSUME ShellInv, BulkAnswered, NEW id \in Ids, Settled(id), Clean(id)'
  PROVE  Settled(id)'
<1> USE DEF ShellInv, TermInv
<1>1. /\ shells' = shells /\ requests' = requests
      /\ inbox # <<>> /\ inbox' = Tail(inbox) /\ Head(inbox).job = "bulk"
  BY DEF BulkAnswered, Receive
<1> PICK subject : subject = Subject
  OBVIOUS
<1>2. bulk \in BulkClose /\ subject \in bulk.ids
  <2>1. Head(inbox) \in Calls
    BY <1>1, InboxHead DEF Calls, Told, termTypeOK
  <2>2. InBulk(subject)
    BY <1>1, <2>1 DEF Quieter, BulkIsOfItsTabs, Subject
  <2>3. QED
    BY <2>2 DEF InBulk, termTypeOK
<1> DEFINE b == [bulk EXCEPT !.failed = @ \cup IF Head(inbox).result = "failed"
                                              THEN {Subject} ELSE {}]
           others == {r \in requests : r.job = "bulk"} \cup {m \in Range(inbox') : m.job = "bulk"}
<1>3. /\ b.ids = bulk.ids /\ b # NoBulk /\ bulk # NoBulk /\ bulk.failed \subseteq b.failed
      /\ Head(inbox).result = "failed" => subject \in b.failed
  BY <1>2 DEF BulkClose, NoBulk
<1>4. IF others = {} THEN FinishBulk(b) ELSE bulk' = b /\ tabs' = tabs
  BY DEF BulkAnswered
<1> HIDE DEF b
<1>5. CallsKept(id) /\ SessionFrame /\ TakenWell(id)
  BY <1>1 DEF SessionFrame, CallsKept, TakenWell, Creates
\* The kill of id has not been answered, or has failed.
<1>6. ASSUME id \in bulk.ids, id \in shells
      PROVE  id \in b.failed \/ (Unkilled("bulk", id)' /\ others # {})
  <2>1. id \in bulk.failed \/ Unkilled("bulk", id)
    BY <1>3, <1>6 DEF Settled, BulkKills, InBulk
  <2>2. CASE \E r \in requests : r.id = id /\ r.job = "bulk" /\ ~r.begun
    BY <1>1, <2>2 DEF Unkilled
  <2>3. ASSUME NEW m \in Told, m.id = id, m.job = "bulk", m.result = "failed"
        PROVE  id \in b.failed \/ (Unkilled("bulk", id)' /\ others # {})
    <3>1. CASE m = Head(inbox)
      BY <1>3, <2>3, <3>1 DEF Subject
    <3>2. CASE m \in Told'
      BY <2>3, <3>2 DEF Unkilled, Told
    <3>3. QED
      BY <1>1, <3>1, <3>2, InboxTaken
  <2>4. QED
    BY <1>3, <2>1, <2>2, <2>3 DEF Unkilled
<1>7. CASE others = {}
  <2>1. FinishBulk(b)
    BY <1>4, <1>7
  <2>2. BulkKills(id)'
    BY <2>1, FinishedBulk DEF BulkKills, InBulk
  <2>3. id \in Live \ Live' => id \notin shells
    BY <1>3, <1>6, <1>7, <2>1, FinishedBulk DEF Clean
  <2>4. TabKept(id)
    BY <2>1, <2>3, FinishedBulk DEF TabKept
  <2>5. QED
    BY <1>1, <1>5, <2>2, <2>4, StoreSettles
<1>8. CASE others # {}
  <2>1. bulk' = b /\ tabs' = tabs
    BY <1>4, <1>8
  <2>2. TabKept(id)
    BY <2>1 DEF TabKept, Live
  <2>3. BulkKills(id)'
    BY <1>1, <1>3, <1>6, <2>1 DEF BulkKills, InBulk
  <2>4. QED
    BY <1>1, <1>5, <2>2, <2>3, StoreSettles
<1>9. QED
  BY <1>7, <1>8

LEMMA MessageAdded ==
  ASSUME termTypeOK, NEW m \in Message, inbox' = Append(inbox, m)
  PROVE  /\ Len(inbox) \in Nat /\ Len(inbox') = Len(inbox) + 1
         /\ \A i \in 1 .. Len(inbox) : inbox'[i] = inbox[i]
         /\ inbox'[Len(inbox) + 1] = m
         /\ Told' = Told \cup {m} /\ inbox' \in Seq(Message)
BY InboxGrows, InboxAppend DEF Told, termTypeOK

\* A message that tells of no creation of id, and of its end only when it has no session.
TellsEnd(m, id) == ~Creates(m, id) /\ (EndsTab(m, id) => id \notin shells')

\* What a step of the backend does that creates no session of id.
BackendFrame(id) ==
  /\ tabs' = tabs /\ bulk' = bulk /\ (id \in shells' => id \in shells)
  /\ \A c : Creates(c, id) => (c \in requests' <=> c \in requests)
  /\ id \in Busy({"close"})' => id \in Busy({"close"})
  /\ inbox' = inbox \/ \E m \in Message : inbox' = Append(inbox, m) /\ TellsEnd(m, id)

LEMMA BackendSettles ==
  ASSUME termTypeOK, NEW id, Settled(id), BackendFrame(id),
         RestartedHasNone(id)', ClosingIsLast(id)',
         \A job \in {"bulk", "cancel"} : id \in shells' /\ Unkilled(job, id) => Unkilled(job, id)'
  PROVE  Settled(id)'
<1> USE DEF Settled
<1>1. /\ Len(inbox) \in Nat
      /\ \A i \in 1 .. Len(inbox) : i \in 1 .. Len(inbox') /\ inbox'[i] = inbox[i]
      /\ \A i \in 1 .. Len(inbox') : i \in 1 .. Len(inbox) \/ TellsEnd(inbox'[i], id)
      /\ Told \subseteq Told' /\ \A m \in Told' : m \in Told \/ ~Creates(m, id)
  <2>1. CASE inbox' = inbox
    BY <2>1, LenProperties DEF Told, termTypeOK
  <2>2. ASSUME NEW m \in Message, inbox' = Append(inbox, m), TellsEnd(m, id)
        PROVE  <1>1!:
    BY <2>2, MessageAdded DEF TellsEnd
  <2>3. QED
    BY <2>1, <2>2 DEF BackendFrame
<1>2. /\ Live' = Live /\ (HasOpened(id) => HasOpened(id)')
      /\ id \in Busy({"create"})' => id \in Busy({"create"})
  <2>1. HasOpened(id) => HasOpened(id)'
    BY <1>1 DEF HasOpened
  <2>2. ASSUME id \in Busy({"create"})' PROVE id \in Busy({"create"})
    <3>1. PICK c \in Calls' : Creates(c, id)
      BY <2>2 DEF Busy, Creates
    <3>2. c \in Calls
      BY <1>1, <3>1 DEF Calls, BackendFrame
    <3>3. QED
      BY <3>1, <3>2 DEF Busy, Creates
  <2>3. QED
    BY <2>1, <2>2 DEF Live, BackendFrame
<1>3. OneCreate(id)'
  <2>1. \A c \in requests' : Creates(c, id) => c \in requests
    BY DEF BackendFrame
  <2>2. \A m \in Told' : Creates(m, id) => m \in Told
    BY <1>1
  <2>3. ASSUME NEW i \in 1 .. Len(inbox'), Creates(inbox'[i], id)
        PROVE  i \in 1 .. Len(inbox) /\ Creates(inbox[i], id)
    BY <1>1, <2>3 DEF TellsEnd
  <2>4. QED
    BY <2>1, <2>2, <2>3 DEF OneCreate
<1>4. PendingIsNew(id)' /\ RestoredIsNew(id)' /\ CreatingHasNone(id)'
  BY <1>2 DEF PendingIsNew, RestoredIsNew, CreatingHasNone, BackendFrame
<1>5. EndIsTold(id)'
  <2>1. SUFFICES ASSUME NEW i \in 1 .. Len(inbox'), EndsTab(inbox'[i], id), id \in shells'
                 PROVE  \E j \in 1 .. Len(inbox') :
                          j > i /\ Creates(inbox'[j], id) /\ inbox'[j].result = "ok"
    BY DEF EndIsTold
  <2>2. i \in 1 .. Len(inbox) /\ inbox'[i] = inbox[i] /\ id \in shells
    BY <1>1, <2>1 DEF TellsEnd, BackendFrame
  <2>3. PICK j \in 1 .. Len(inbox) : j > i /\ Creates(inbox[j], id) /\ inbox[j].result = "ok"
    BY <2>1, <2>2 DEF EndIsTold
  <2>4. QED
    BY <1>1, <2>3
<1>6. BulkKills(id)'
  BY DEF BulkKills, InBulk, BackendFrame
<1>7. Swept(id)'
  BY <1>2 DEF Swept, BackendFrame
<1>8. ClosedHadShell(id)'
  BY <1>2 DEF ClosedHadShell, BackendFrame
<1>9. QED
  BY <1>3, <1>4, <1>5, <1>6, <1>7, <1>8

\* The answer to a call that creates no session of id.
LEMMA SettledAnswered ==
  ASSUME ShellInv, NEW id, Settled(id), NEW r \in requests, NEW result \in Results,
         ~Creates(r, id), tabs' = tabs, bulk' = bulk, id \in shells' => id \in shells,
         requests' = requests \ {r}, inbox' = Append(inbox, Answer(r, result)),
         r.id = id /\ result = "ok" /\ r.job \in {"restart", "shell", "close"} =>
           id \notin shells',
         r.id = id /\ r.job \in {"bulk", "cancel"} /\ ~r.begun =>
           result = "failed" \/ id \notin shells'
  PROVE  Settled(id)'
<1> USE DEF ShellInv, TermInv
<1> DEFINE m == Answer(r, result)
<1>1. m \in Message /\ m.job = r.job /\ m.id = r.id /\ m.result = result /\ r.job # "exited"
  BY DEF termTypeOK, Request, Message, Answer, Jobs
<1> HIDE DEF m
<1>2. inbox' = Append(inbox, m)
  BY DEF m
<1>3. Told' = Told \cup {m}
  BY <1>1, <1>2, MessageAdded
<1>4. BackendFrame(id)
  <2>1. TellsEnd(m, id)
    BY <1>1 DEF TellsEnd, EndsTab, Creates
  <2>2. id \in Busy({"close"})' => id \in Busy({"close"})
    BY <1>1, <1>3 DEF Busy, Calls
  <2>3. QED
    BY <1>1, <1>2, <2>1, <2>2 DEF BackendFrame
<1>5. RestartedHasNone(id)'
  BY <1>1, <1>3 DEF RestartedHasNone, Settled
<1>6. ClosingIsLast(id)'
  BY DEF ClosingIsLast, ClosingNow, Settled, Live
<1>7. ASSUME NEW job \in {"bulk", "cancel"}, id \in shells', Unkilled(job, id)
      PROVE  Unkilled(job, id)'
  <2>1. CASE r.id = id /\ r.job = job /\ ~r.begun
    BY <1>1, <1>3, <1>7, <2>1 DEF Unkilled
  <2>2. CASE ~(r.id = id /\ r.job = job /\ ~r.begun)
    BY <1>3, <1>7, <2>2 DEF Unkilled
  <2>3. QED
    BY <2>1, <2>2
<1>8. QED
  BY <1>4, <1>5, <1>6, <1>7, BackendSettles

\* The answer to the creation of a session of id, of which there was none.
LEMMA SettledCreated ==
  ASSUME ShellInv, NEW id, Settled(id), Clean(id), NEW r \in requests, Creates(r, id),
         tabs' = tabs, bulk' = bulk, NEW result \in {"ok", "failed"},
         requests' = requests \ {r}, inbox' = Append(inbox, Answer(r, result)),
         IF result = "ok" THEN shells' = shells \cup {id} ELSE shells' = shells
  PROVE  Settled(id)'
<1> USE DEF ShellInv, TermInv, Settled
<1> DEFINE m == Answer(r, result)
<1>1. m \in Message /\ Creates(m, id) /\ m.result = result
  BY DEF termTypeOK, Request, Message, Answer, Jobs, Creates, Results
<1> HIDE DEF m
<1>2. /\ Len(inbox) \in Nat /\ Len(inbox') = Len(inbox) + 1
      /\ \A i \in 1 .. Len(inbox) : inbox'[i] = inbox[i]
      /\ inbox'[Len(inbox) + 1] = m /\ Told' = Told \cup {m}
  BY <1>1, MessageAdded DEF m
<1>3. id \in Busy({"create"}) /\ \A c \in Told : ~Creates(c, id)
  BY DEF Busy, Calls, Creates, OneCreate
<1>4. id \notin shells
  BY <1>3 DEF CreatingHasNone, HasOpened
<1>5. id \in shells' => HasOpened(id)'
  BY <1>1, <1>2, <1>4 DEF HasOpened
<1>6. \A i \in 1 .. Len(inbox) : ~Creates(inbox[i], id)
  BY <1>3, MessageAt DEF termTypeOK
<1>7. OneCreate(id)'
  <2>1. \A q \in requests' : ~Creates(q, id)
    BY DEF OneCreate
  <2>2. ASSUME NEW i \in 1 .. Len(inbox'), Creates(inbox'[i], id) PROVE i = Len(inbox) + 1
    BY <1>2, <1>6, <2>2
  <2>3. QED
    BY <2>1, <2>2 DEF OneCreate
<1>8. PendingIsNew(id)' /\ RestoredIsNew(id)' /\ CreatingHasNone(id)' /\ Swept(id)'
  BY <1>3, <1>5 DEF PendingIsNew, RestoredIsNew, CreatingHasNone, Swept, Live
<1>9. RestartedHasNone(id)'
  <2>1. id \notin Busy({"restart", "shell"})
    BY <1>3, NotCrossed
  <2>2. \A c \in Calls' : c.id = id => c.job \notin {"restart", "shell"}
    BY <1>1, <1>2, <2>1 DEF Busy, Calls, Creates
  <2>3. QED
    BY <2>2 DEF RestartedHasNone, Calls
<1>10. ClosingIsLast(id)'
  BY DEF ClosingIsLast, ClosingNow
<1>11. EndIsTold(id)'
  <2>1. SUFFICES ASSUME NEW i \in 1 .. Len(inbox'), EndsTab(inbox'[i], id), id \in shells'
                 PROVE  \E j \in 1 .. Len(inbox') :
                          j > i /\ Creates(inbox'[j], id) /\ inbox'[j].result = "ok"
    BY DEF EndIsTold
  <2>2. i # Len(inbox) + 1
    BY <1>1, <1>2, <2>1 DEF EndsTab, Creates
  <2>3. Len(inbox) + 1 \in 1 .. Len(inbox') /\ Len(inbox) + 1 > i
    BY <1>2, <2>2
  <2>4. QED
    BY <1>1, <1>2, <1>4, <2>1, <2>3
<1>12. BulkKills(id)'
  BY <1>3, NotCrossed DEF BulkKills, InBulk
<1>13. ClosedHadShell(id)'
  <2>1. id \in Busy({"close"})' => id \in Busy({"close"})
    BY <1>1, <1>2 DEF Busy, Calls, Creates
  <2>2. QED
    BY <2>1 DEF ClosedHadShell, Live
<1>14. QED
  BY <1>7, <1>8, <1>9, <1>10, <1>11, <1>12, <1>13

LEMMA SettledKillBegins ==
  ASSUME ShellInv, NEW id, Settled(id), NEW r \in requests, KillBegins(r)
  PROVE  Settled(id)'
<1> USE DEF ShellInv, TermInv
<1> PICK q : q = [r EXCEPT !.begun = TRUE]
  OBVIOUS
<1>1. q.job = r.job /\ q.id = r.id /\ q.begun /\ r.job # "create" /\ r.id \in shells
  BY DEF KillBegins, KillJobs, termTypeOK, Request
<1>2. /\ requests' = (requests \ {r}) \cup {q} /\ shells' = shells \ {r.id} /\ inbox' = inbox
      /\ tabs' = tabs /\ bulk' = bulk
  BY DEF KillBegins, backendFrame, storeVars
<1>3. BackendFrame(id)
  <2>1. id \in Busy({"close"})' => id \in Busy({"close"})
    BY <1>1, <1>2 DEF Busy, Calls, Told
  <2>2. QED
    BY <1>1, <1>2, <2>1 DEF BackendFrame, Creates
<1>4. RestartedHasNone(id)'
  BY <1>1, <1>2 DEF RestartedHasNone, Settled, Told
<1>5. ClosingIsLast(id)'
  <2>1. CASE id = r.id
    <3>1. \A c \in requests : ~Creates(c, id)
      <4>1. SUFFICES ASSUME NEW c \in requests, Creates(c, id) PROVE FALSE
        OBVIOUS
      <4>2. id \in Busy({"create"})
        BY <4>1 DEF Busy, Calls, Creates
      <4>3. HasOpened(id)
        BY <1>1, <2>1, <4>2 DEF Settled, CreatingHasNone
      <4>4. QED
        BY <4>1, <4>3 DEF Settled, OneCreate, HasOpened
    <3>2. id \in Live => ~tabs[id].pending
      BY <1>1, <2>1 DEF Settled, PendingIsNew
    <3>3. QED
      BY <1>1, <1>2, <2>1, <3>1, <3>2 DEF ClosingIsLast, Creates, Live
  <2>2. CASE id # r.id
    <3>1. ClosingNow(id)' => ClosingNow(id)
      BY <1>1, <1>2, <2>2 DEF ClosingNow
    <3>2. QED
      BY <1>1, <1>2, <3>1 DEF ClosingIsLast, Creates, Live, Settled
  <2>3. QED
    BY <2>1, <2>2
<1>6. ASSUME NEW job \in {"bulk", "cancel"}, id \in shells', Unkilled(job, id)
      PROVE  Unkilled(job, id)'
  BY <1>2, <1>6 DEF Unkilled, Told
<1>7. QED
  BY <1>3, <1>4, <1>5, <1>6, BackendSettles

LEMMA SettledShellEnds ==
  ASSUME ShellInv, NEW id, Settled(id), NEW other \in Ids, NEW how \in {"ended", "cut"},
         ShellEnds(other, how)
  PROVE  Settled(id)'
<1> USE DEF ShellInv, TermInv
<1> PICK m : m = [job |-> "exited", id |-> other, n |-> 1, result |-> how]
  OBVIOUS
<1>1. m \in Message /\ m.job = "exited" /\ m.id = other
  BY TerminalConstants DEF Message, Results
<1>2. /\ requests' = requests /\ shells' = shells \ {other} /\ inbox' = Append(inbox, m)
      /\ tabs' = tabs /\ bulk' = bulk
  BY DEF ShellEnds, backendFrame, storeVars
<1>3. Told' = Told \cup {m}
  BY <1>1, <1>2, MessageAdded
<1>4. BackendFrame(id)
  <2>1. TellsEnd(m, id)
    BY <1>1, <1>2 DEF TellsEnd, Creates, EndsTab
  <2>2. id \in Busy({"close"})' => id \in Busy({"close"})
    BY <1>1, <1>2, <1>3 DEF Busy, Calls
  <2>3. QED
    BY <1>1, <1>2, <2>1, <2>2 DEF BackendFrame
<1>5. RestartedHasNone(id)' /\ ClosingIsLast(id)'
  BY <1>1, <1>2, <1>3 DEF RestartedHasNone, ClosingIsLast, ClosingNow, Settled, Live
<1>6. \A job \in {"bulk", "cancel"} : Unkilled(job, id) => Unkilled(job, id)'
  BY <1>2, <1>3 DEF Unkilled
<1>7. QED
  BY <1>4, <1>5, <1>6, BackendSettles

LEMMA SettledBackend ==
  ASSUME ShellInv, NEW id, Settled(id), Clean(id), Backend
  PROVE  Settled(id)'
<1> USE DEF ShellInv, TermInv
<1>1. ASSUME NEW r \in requests, CreateServed(r) \/ CreateRefused(r)
      PROVE  Settled(id)'
  <2>1. /\ r.job = "create" /\ requests' = requests \ {r} /\ tabs' = tabs /\ bulk' = bulk
    BY <1>1 DEF CreateServed, CreateRefused, backendFrame, storeVars
  <2>2. PICK result \in {"ok", "failed"} :
          /\ inbox' = Append(inbox, Answer(r, result))
          /\ IF result = "ok" THEN shells' = shells \cup {r.id} ELSE shells' = shells
    BY <1>1 DEF CreateServed, CreateRefused
  <2>3. CASE r.id = id
    <3>1. Creates(r, id)
      BY <2>1, <2>3 DEF Creates
    <3>2. QED
      BY <2>1, <2>2, <2>3, <3>1, SettledCreated
  <2>4. CASE r.id # id
    <3>1. ~Creates(r, id) /\ result \in Results /\ (id \in shells' => id \in shells)
      BY <2>2, <2>4 DEF Creates, Results
    <3>2. QED
      BY <2>1, <2>2, <2>4, <3>1, SettledAnswered
  <2>5. QED
    BY <2>3, <2>4
<1>2. ASSUME NEW r \in requests,
             \/ KillServed(r) \/ KillEnds(r) \/ CloseOfSessionFails(r) \/ KillRefused(r)
             \/ KillGraceful(r) \/ terminal_session_open(r) \/ CheckFails(r)
      PROVE  Settled(id)'
  <2>1. /\ requests' = requests \ {r} /\ tabs' = tabs /\ bulk' = bulk /\ r.job # "create"
        /\ shells' \subseteq shells
    BY <1>2 DEF KillServed, KillEnds, CloseOfSessionFails, KillRefused, KillGraceful,
                terminal_session_open, CheckFails, backendFrame, storeVars, KillJobs, Quieter,
                BegunAreKills
  <2>2. PICK result \in Results :
          /\ inbox' = Append(inbox, Answer(r, result))
          /\ \/ result = "failed" \/ r.job = "check" \/ (r.id = id => id \notin shells')
             \/ r.begun /\ result = "ok" /\ shells' = shells
    <3>1. r.id = id /\ r.astray => id \notin shells
      BY NotMisrouted
    <3>2. QED
      BY <1>2, <3>1 DEF KillServed, KillEnds, CloseOfSessionFails, KillRefused, KillGraceful,
                        terminal_session_open, CheckFails, Results
  <2>3. r.id = id /\ result = "ok" /\ r.job \in {"restart", "shell", "close"} => id \notin shells'
    BY <2>1, <2>2 DEF Settled, RestartedHasNone, ClosingIsLast, ClosingNow
  <2>4. r.id = id /\ r.job \in {"bulk", "cancel"} /\ ~r.begun =>
          result = "failed" \/ id \notin shells'
    BY <2>2
  <2>5. ~Creates(r, id)
    BY <2>1 DEF Creates
  <2>6. QED
    BY <2>1, <2>2, <2>3, <2>4, <2>5, SettledAnswered
<1>3. ASSUME NEW other \in Ids, ForcedToEnd(other)
      PROVE  Settled(id)'
  <2>1. /\ tabs' = tabs /\ bulk' = bulk /\ requests' = requests /\ inbox' = inbox
        /\ shells' = shells
    BY <1>3 DEF ForcedToEnd, storeVars
  <2>2. OldTabs /\ SessionFrame
    BY <2>1, SameOldTabs DEF SessionFrame
  <2>3. QED
    BY <2>1, <2>2, QuietSettles
<1>4. QED
  BY <1>1, <1>2, <1>3, SettledKillBegins, SettledShellEnds DEF Backend

LEMMA SettledStore ==
  ASSUME ShellInv, NEW id \in Ids, Settled(id), Clean(id), Clean(id)', Store
  PROVE  Settled(id)'
<1>1. CASE \/ \E other \in Ids : \E task \in BOOLEAN : addScriptTerminal(other, task)
           \/ \E other \in Ids : ProfileTrusted(other)
  BY <1>1, SettledNewTabs
<1>2. CASE \/ spawnRestoredTerminals \/ \E other \in Ids : spawnPendingTerminal(other)
           \/ Spawned \/ SpawnCancelled \/ SpawnFailed \/ CancelAnswered
  BY <1>2, SettledSpawns, SettledSpawned
<1>3. CASE (\E other \in Ids : closeTerminal(other)) \/ Closed
  BY <1>3, SettledCloses
<1>4. CASE closeAllProjectTerminals
  <2> DEFINE b == [kind |-> "all", ids |-> Live, keep |-> None, pane |-> Primary, failed |-> {}]
  <2>1. b \in BulkClose /\ b.ids \subseteq Live
    BY TerminalConstants DEF BulkClose, ShellInv, TermInv, termTypeOK
  <2>2. bulk = NoBulk /\ BeginBulk(b)
    BY <1>4 DEF closeAllProjectTerminals
  <2> HIDE DEF b
  <2>3. QED
    BY <2>1, <2>2, SettledBulkBegins
<1>5. ASSUME NEW other \in Ids, closeOtherTerminals(other)
      PROVE  Settled(id)'
  <2> DEFINE pane == tabs[other].pane
             b == [kind |-> "others", ids |-> Owned(pane) \ {other}, keep |-> other,
                   pane |-> pane, failed |-> {}]
  <2>1. pane \in Panes
    BY <1>5 DEF closeOtherTerminals, ShellInv, TermInv, termTypeOK, Tab
  <2>2. b \in BulkClose /\ b.ids \subseteq Live
    BY <2>1 DEF BulkClose, Owned, ShellInv, TermInv, termTypeOK
  <2>3. bulk = NoBulk /\ BeginBulk(b)
    BY <1>5 DEF closeOtherTerminals
  <2> HIDE DEF b
  <2>4. QED
    BY <2>2, <2>3, SettledBulkBegins
<1>6. CASE BulkAnswered
  BY <1>6, SettledBulkAnswered
<1>7. CASE \E job \in {"restart", "shell"} : RestartAnswered(job)
  BY <1>7, SettledRestarted
<1>8. CASE \/ addTerminal \/ ProfileRefused \/ CloseFailed \/ activateProject
           \/ ExitExpected \/ ExitCuts \/ \E quick \in BOOLEAN : ExitEnds(quick)
           \/ CheckFindsTask \/ CheckFindsNothing \/ CheckDropped
           \/ \E other \in Ids : restartTerminal(other) \/ reopenTerminalShell(other)
                                 \/ enterShellAfterTask(other) \/ setActiveTerminal(other)
           \/ \E pane \in Panes : setTerminalFocusPane(pane)
  BY <1>8, SettledQuiet, TerminalConstants
<1>9. QED
  BY <1>1, <1>2, <1>3, <1>4, <1>5, <1>6, <1>7, <1>8 DEF Store

LEMMA NextSettled ==
  ASSUME ShellInv, NEW id \in Ids, Settled(id), [Next]_vars, Clean(id)'
  PROVE  Settled(id)'
<1>1. Clean(id)
  BY CleanBefore
<1>2. CASE UNCHANGED vars
  <2>1. /\ tabs' = tabs /\ bulk' = bulk /\ requests' = requests /\ inbox' = inbox
        /\ shells' = shells
    BY <1>2 DEF vars, storeVars
  <2>2. OldTabs /\ SessionFrame
    BY <2>1, SameOldTabs DEF SessionFrame
  <2>3. QED
    BY <2>1, <2>2, QuietSettles DEF ShellInv, TermInv
<1>3. CASE Next
  BY <1>1, <1>3, SettledStore, SettledExit, SettledBackend DEF Next
<1>4. QED
  BY <1>2, <1>3

LEMMA SettledInductive == ShellInv /\ SettledInv /\ [Next]_vars => SettledInv'
<1>1. SUFFICES ASSUME ShellInv, SettledInv, [Next]_vars, NEW id \in Ids, Clean(id)'
               PROVE  Settled(id)'
  BY DEF SettledInv
<1>2. Settled(id)
  BY <1>1, CleanBefore DEF SettledInv
<1>3. QED
  BY <1>1, <1>2, NextSettled

\* A shell without a tab is about to be killed: a close while the shell is being created is
\* followed by a kill however the answers of the two cross.
THEOREM NoShellIsStray == Spec => []NoStrayShell
<1>1. ASSUME ShellInv, SettledInv PROVE NoStrayShell
  <2>1. SUFFICES ASSUME NEW id \in shells
                                    \ (Live \cup stray \cup CrossedSoFar \cup MisroutedSoFar)
                 PROVE  WillBeKilled(id)
    BY DEF NoStrayShell
  <2>2. id \in Ids /\ Clean(id)
    BY <1>1, <2>1 DEF ShellInv, TermInv, termTypeOK, Clean
  <2>3. HasOpened(id) \/ Unkilled("cancel", id)
    BY <1>1, <2>1, <2>2 DEF SettledInv, Settled, Swept
  <2>4. \A r \in requests : r.id = id => ~r.astray
    BY <2>1, <2>2, NotMisrouted
  <2>5. QED
    BY <2>3, <2>4 DEF WillBeKilled, HasOpened, Creates, Unkilled, KillJobs, Jobs
<1>2. QED
  BY <1>1, InitShellInv, NextShellInv, InitSettled, SettledInductive, PTL DEF Spec

----------------------------------------------------------------------------
(* An exit ends every shell.  What is said here is said of a terminal      *)
(* that ExitLeavesNothing does not leave out.                              *)

\* Not left out by ExitLeavesNothing.
Counted(id) == Clean(id) /\ id \notin left

\* The exit has not taken its list.
Early == exit \in {"open", "pausing"}

\* Until then a creation that is overtaken is not waited for.
Fair(id) == Counted(id) /\ (Early => id \notin OvertakenSoFar)

\* A kill of the exit has left no session.
KilledByExit(id) ==
  /\ \A r \in requests : r.id = id /\ r.begun /\ r.job = "exit" => id \notin shells
  /\ \A m \in Told : m.id = id /\ m.job = "exit" /\ m.result = "ok" => id \notin shells

\* A tab that has exited has a session only if its opening is still to be told.
ExitedHasNone(id) ==
  id \in Live \cap shells /\ tabs[id].status = "exited" => HasOpened(id)

\* What the exit waits for, and then ends.
Ends(id) ==
  /\ id \in Busy({"create"}) => id \in held.spawns /\ Early
  /\ id \notin Busy({"cancel"})
  /\ KilledByExit(id)
  /\ exit \in {"paused", "closing"} /\ id \in shells => id \in leaving
  /\ exit = "gone" => id \notin shells

Leaves(id) == ExitedHasNone(id) /\ (Fair(id) => Ends(id))

ExitIsAsked == Busy({"exit"}) # {} => exit \in {"closing", "gone"}

LeavingInv == ExitIsAsked /\ \A id \in Ids : Counted(id) => Leaves(id)

LEMMA InitLeaving == Init => LeavingInv
<1>1. SUFFICES ASSUME Init PROVE LeavingInv
  OBVIOUS
<1>2. Calls = {} /\ Told = {} /\ requests = {} /\ exit = "open"
  BY <1>1 DEF Init, Calls, Told, Range
<1>3. \A id \in Live \cap shells : tabs[id].status # "exited"
  BY <1>1, InitTabs
<1>4. QED
  BY <1>2, <1>3 DEF LeavingInv, ExitIsAsked, Leaves, Ends, KilledByExit, ExitedHasNone, Busy

\* The creation of a fair terminal has not been overtaken.
LEMMA NotOvertaken ==
  ASSUME NEW id \in Ids, Fair(id), Early, id \in Busy({"create"})
  PROVE  id \in Live /\ id \notin Busy({"close", "bulk", "restart", "shell"})
BY DEF Fair, OvertakenSoFar

\* Nothing moves after the window is gone.
LEMMA GoneIsOver == Next => exit # "gone"
<1>1. SUFFICES ASSUME Next PROVE exit # "gone"
  OBVIOUS
<1>2. \A kind : Move(kind) \/ UserMove(kind) \/ System => exit # "gone"
  BY DEF Move, UserMove, System
<1>3. CASE Backend
  BY <1>2, <1>3
  DEF Backend, CreateServed, CreateRefused, KillServed, KillBegins, KillEnds, CloseOfSessionFails,
      KillRefused, KillGraceful, terminal_session_open, CheckFails, ShellEnds,
      ForcedToEnd
<1>4. CASE Exit
  BY <1>2, <1>4
  DEF Exit, pauseTerminalSpawnsForExit, Paused, PauseGivenUp, resumeTerminalSpawnsAfterExit,
      EndLeaving, ExitKilled, ExitKillFailed, ExitAllTheSame
<1>5. CASE Store
  <2>1. CASE \/ \E id \in Ids : \E task \in BOOLEAN : addScriptTerminal(id, task)
             \/ addTerminal \/ ProfileRefused \/ spawnRestoredTerminals
             \/ \E id \in Ids : ProfileTrusted(id) \/ spawnPendingTerminal(id)
             \/ Spawned \/ SpawnCancelled \/ SpawnFailed \/ CancelAnswered
    BY <1>2, <2>1 DEF addScriptTerminal, addTerminal, ProfileRefused, spawnRestoredTerminals,
                ProfileTrusted, spawnPendingTerminal, Spawned, SpawnCancelled, SpawnFailed,
                CancelAnswered
  <2>2. CASE \/ \E id \in Ids : closeTerminal(id) \/ restartTerminal(id)
                                \/ reopenTerminalShell(id) \/ enterShellAfterTask(id)
                                \/ setActiveTerminal(id) \/ closeOtherTerminals(id)
             \/ Closed \/ CloseFailed \/ CheckFindsTask \/ CheckFindsNothing \/ CheckDropped
             \/ closeAllProjectTerminals \/ BulkAnswered
             \/ \E job \in {"restart", "shell"} : RestartAnswered(job)
             \/ ExitExpected \/ ExitCuts \/ \E quick \in BOOLEAN : ExitEnds(quick)
             \/ \E pane \in Panes : setTerminalFocusPane(pane)
             \/ activateProject
    BY <1>2, <2>2 DEF closeTerminal, restartTerminal, reopenTerminalShell, enterShellAfterTask,
                setActiveTerminal, closeOtherTerminals, Closed, CloseFailed, CheckFindsTask,
                CheckFindsNothing, CheckDropped, closeAllProjectTerminals, BulkAnswered,
                RestartAnswered, ExitExpected, ExitCuts, ExitEnds, setTerminalFocusPane,
                activateProject
  <2>3. QED
    BY <1>5, <2>1, <2>2 DEF Store
<1>6. QED
  BY <1>1, <1>3, <1>4, <1>5 DEF Next

\* A step of the store that does not move the exit.
LeavingFrame(id) ==
  /\ SessionFrame /\ exit' = exit /\ leaving' = leaving
  /\ \A r \in requests' \ requests :
       ~r.begun /\ r.job # "exit" /\ (Fair(id)' /\ r.job = "cancel" => r.id # id)
  /\ Fair(id)' /\ id \in Busy({"create"})' =>
       \/ id \in Busy({"create"}) /\ (id \in held.spawns => id \in held'.spawns)
       \/ id \in held'.spawns /\ exit = "open"
  /\ id \in Live' \cap shells /\ tabs'[id].status = "exited" => HasOpened(id)'

LEMMA StoreLeaves ==
  ASSUME termTypeOK, NEW id, Leaves(id), LeavingFrame(id), Fair(id)' => Fair(id)
  PROVE  Leaves(id)'
<1>1. Told' \subseteq Told /\ shells' = shells /\ exit' = exit /\ leaving' = leaving
  BY SessionFacts DEF LeavingFrame, SessionFrame
<1>2. ExitedHasNone(id)'
  BY <1>1 DEF ExitedHasNone, LeavingFrame
<1>3. ASSUME Fair(id)' PROVE Ends(id)'
  <2>1. Ends(id)
    BY <1>3 DEF Leaves
  <2>2. id \in Busy({"create"})' => id \in held'.spawns /\ Early'
    BY <1>1, <1>3, <2>1 DEF LeavingFrame, Ends, Early
  <2>3. id \notin Busy({"cancel"})'
    BY <1>1, <1>3, <2>1 DEF LeavingFrame, Ends, Busy, Calls
  <2>4. KilledByExit(id)'
    BY <1>1, <2>1 DEF KilledByExit, LeavingFrame, Ends
  <2>5. QED
    BY <1>1, <2>1, <2>2, <2>3, <2>4 DEF Ends
<1>4. QED
  BY <1>2, <1>3 DEF Leaves

\* A tab that has exited has done so before.
StatusKept(id) ==
  id \in Live' /\ tabs'[id].status = "exited" => id \in Live /\ tabs[id].status = "exited"

\* A step that takes no answer of a creation.
LEMMA QuietLeaves ==
  ASSUME termTypeOK, NEW id, Leaves(id), SessionFrame, exit' = exit, leaving' = leaving,
         \A r \in requests' \ requests : r.job \notin {"create", "cancel", "exit"} /\ ~r.begun,
         inbox' = inbox \/ Head(inbox).job # "create",
         Early /\ id \in Busy({"create"}) /\ id \in held.spawns /\ id \notin held'.spawns
           => ~Fair(id)',
         Fair(id)' => Fair(id), StatusKept(id)
  PROVE  Leaves(id)'
<1>1. HasOpened(id) => HasOpened(id)'
  BY OpenedKept DEF Creates
<1>2. id \in Live' \cap shells /\ tabs'[id].status = "exited" => HasOpened(id)'
  BY <1>1 DEF Leaves, ExitedHasNone, StatusKept
<1>3. id \in Busy({"create"})' => id \in Busy({"create"})
  BY SessionFacts DEF Busy, Calls
<1>4. LeavingFrame(id)
  BY <1>2, <1>3 DEF LeavingFrame, Leaves, Ends
<1>5. QED
  BY <1>4, StoreLeaves

LEMMA StatusOfTabs ==
  ASSUME termTypeOK, NEW id,
         \/ tabs' = tabs
         \/ \E other : tabs' = [tabs EXCEPT ![other].status = "running"]
         \/ \E other : \E value : tabs' = [tabs EXCEPT ![other].task = value]
         \/ Live' \subseteq Live /\ \A i \in Live' : tabs'[i] = tabs[i]
         \/ \E other, task : NewTab(other, task)
  PROVE  StatusKept(id)
<1>1. \A tab \in Tab : \A value : /\ [tab EXCEPT !.status = "running"].status = "running"
                                  /\ [tab EXCEPT !.task = value].status = tab.status
  BY DEF Tab
<1>2. CASE tabs' = tabs \/ (Live' \subseteq Live /\ \A i \in Live' : tabs'[i] = tabs[i])
  BY <1>2 DEF StatusKept, Live
<1>3. ASSUME NEW other, tabs' = [tabs EXCEPT ![other].status = "running"]
      PROVE  StatusKept(id)
  BY <1>1, <1>3 DEF StatusKept, Live, termTypeOK
<1>4. ASSUME NEW other, NEW value, tabs' = [tabs EXCEPT ![other].task = value]
      PROVE  StatusKept(id)
  BY <1>1, <1>4 DEF StatusKept, Live, termTypeOK
<1>5. ASSUME NEW other, NEW task, NewTab(other, task) PROVE StatusKept(id)
  <2>1. /\ Live' = Live \cup {other} /\ tabs'[other].status = "starting"
        /\ \A i \in Live : i # other => tabs'[i] = tabs[i]
    BY <1>5 DEF NewTab, Put, Live
  <2>2. QED
    BY <2>1 DEF StatusKept
<1>6. QED
  BY <1>2, <1>3, <1>4, <1>5

\* A terminal closed or restarted while it is being created is left out from now on.
LEMMA OvertakenNow ==
  ASSUME NEW id \in Ids, Early', id \in Busy({"create"})',
         id \notin Live' \/ id \in Busy({"close", "bulk", "restart", "shell"})'
  PROVE  ~Fair(id)'
BY DEF Fair, OvertakenSoFar

LEMMA CreatesKept ==
  ASSUME termTypeOK, SessionFrame, inbox' = inbox \/ Head(inbox).job # "create", NEW id,
         id \in Busy({"create"})
  PROVE  id \in Busy({"create"})'
<1>1. PICK c \in Calls : c.job = "create" /\ c.id = id
  BY DEF Busy
<1>2. c \in Calls'
  <2>1. CASE c \in requests
    BY <2>1 DEF SessionFrame, Calls
  <2>2. CASE c \in Told
    BY <1>1, <2>2, SessionFacts DEF Calls
  <2>3. QED
    BY <2>1, <2>2 DEF Calls
<1>3. QED
  BY <1>1, <1>2 DEF Busy

LEMMA LeavesQuiet ==
  ASSUME ShellInv, NEW id \in Ids, Leaves(id), Fair(id)' => Fair(id), NEW other \in Ids,
         NEW pane \in Panes,
         NEW task \in BOOLEAN,
         \/ addTerminal \/ ProfileRefused \/ addScriptTerminal(other, task) \/ ProfileTrusted(other)
         \/ setTerminalFocusPane(pane) \/ setActiveTerminal(other) \/ activateProject
         \/ ExitExpected \/ CloseFailed \/ CheckFindsTask \/ CheckDropped
         \/ enterShellAfterTask(other) \/ Closed
  PROVE  Leaves(id)'
<1> USE DEF ShellInv, TermInv
<1>1. /\ shells' = shells /\ exit' = exit /\ leaving' = leaving /\ held'.spawns = held.spawns
      /\ requests' = requests \/ requests' = requests \cup NewCalls("check", {other})
  BY DEF addTerminal, ProfileRefused, addScriptTerminal, ProfileTrusted, setTerminalFocusPane,
         setActiveTerminal, activateProject, ExitExpected, CloseFailed, CheckFindsTask,
         CheckDropped, enterShellAfterTask, Closed, exitVars, termTypeOK
<1>2. inbox' = inbox \/ (/\ inbox # <<>> /\ inbox' = Tail(inbox)
                         /\ Head(inbox).job \in {"exited", "close", "check"})
  BY DEF addTerminal, ProfileRefused, addScriptTerminal, ProfileTrusted, setTerminalFocusPane,
         setActiveTerminal, activateProject, ExitExpected, CloseFailed, CheckFindsTask,
         CheckDropped, enterShellAfterTask, Closed, Receive
<1>3. StatusKept(id)
  <2>1. CASE \/ addTerminal \/ ProfileRefused \/ setTerminalFocusPane(pane)
             \/ setActiveTerminal(other) \/ activateProject \/ ExitExpected \/ CloseFailed
             \/ CheckDropped \/ enterShellAfterTask(other)
    <3>1. tabs' = tabs
      BY <2>1 DEF addTerminal, ProfileRefused, setTerminalFocusPane, setActiveTerminal,
                  activateProject, ExitExpected, CloseFailed, CheckDropped, enterShellAfterTask
    <3>2. QED
      BY <3>1, StatusOfTabs
  <2>2. CASE addScriptTerminal(other, task) \/ ProfileTrusted(other)
    <3>1. tabs' = tabs \/ NewTab(other, task) \/ NewTab(other, FALSE)
      BY <2>2 DEF addScriptTerminal, ProfileTrusted
    <3>2. QED
      BY <3>1, StatusOfTabs
  <2>3. CASE CheckFindsTask \/ Closed
    <3> PICK subject : subject = Subject
      OBVIOUS
    <3>1. tabs' = [tabs EXCEPT ![subject].status = "running"] \/ RemoveTab(subject)
      BY <2>3 DEF CheckFindsTask, Closed
    <3>2. QED
      BY <3>1, RemovedTab, StatusOfTabs
  <2>4. QED
    BY <2>1, <2>2, <2>3
<1>4. SessionFrame /\ \A r \in requests' \ requests : r.job = "check" /\ ~r.begun
  BY <1>1, <1>2, NewCallsAre DEF SessionFrame
<1>5. QED
  BY <1>1, <1>2, <1>3, <1>4, QuietLeaves

\* A close, or the begin of a restart, is noticed by the properties.
LEMMA LeavesClaimed ==
  ASSUME ShellInv, NEW id \in Ids, Leaves(id), Fair(id)' => Fair(id), NEW ids, NEW job,
         job \in {"close", "bulk", "restart", "shell"},
         shells' = shells, exit' = exit, leaving' = leaving,
         requests' = requests \cup NewCalls(job, ids),
         inbox' = inbox \/ (inbox # <<>> /\ inbox' = Tail(inbox) /\ Head(inbox).job # "create"),
         StatusKept(id),
         \A i \in held.spawns \ held'.spawns : i \in ids \/ i \notin Live'
  PROVE  Leaves(id)'
<1> USE DEF ShellInv, TermInv
<1>1. SessionFrame /\ \A r \in requests' \ requests : r.job = job /\ ~r.begun
  BY NewCallsAre DEF SessionFrame
<1>2. ASSUME Early, id \in Busy({"create"}), id \in held.spawns, id \notin held'.spawns
      PROVE  ~Fair(id)'
  <2>1. id \in Busy({"create"})' /\ Early'
    BY <1>1, <1>2, CreatesKept DEF Early
  <2>2. id \in ids => id \in Busy({"close", "bulk", "restart", "shell"})'
    <3>1. SUFFICES ASSUME id \in ids PROVE id \in Busy({"close", "bulk", "restart", "shell"})'
      OBVIOUS
    <3>2. \E r \in NewCalls(job, ids) : r.id = id /\ r.job = job /\ ~r.begun
      BY <3>1, CallFor, Zenon
    <3>3. QED
      BY <3>2 DEF Busy, Calls
  <2>3. QED
    BY <1>2, <2>1, <2>2, OvertakenNow
<1>3. QED
  BY <1>1, <1>2, QuietLeaves

LEMMA LeavesCloses ==
  ASSUME ShellInv, NEW id \in Ids, Leaves(id), Fair(id)' => Fair(id), NEW other \in Ids,
         closeTerminal(other)
  PROVE  Leaves(id)'
<1> USE DEF ShellInv, TermInv
<1>1. /\ shells' = shells /\ exit' = exit /\ leaving' = leaving /\ inbox' = inbox
      /\ requests' = requests \cup NewCalls("close", Killed({other}))
      /\ held'.spawns = held.spawns \ {other}
      /\ IF tabs[other].restored THEN RemoveTab(other) ELSE tabs' = tabs
  BY DEF closeTerminal, Claim, exitVars, termTypeOK
<1>2. StatusKept(id)
  BY <1>1, RemovedTab, StatusOfTabs
<1>3. other \in Killed({other}) \/ other \notin Live'
  BY <1>1, RemovedTab DEF Killed
<1>4. QED
  BY <1>1, <1>2, <1>3, LeavesClaimed

LEMMA LeavesBulkBegins ==
  ASSUME ShellInv, NEW b \in BulkClose, b.ids \subseteq Live, BeginBulk(b),
         NEW id \in Ids, Leaves(id), Fair(id)' => Fair(id)
  PROVE  Leaves(id)'
<1> USE DEF ShellInv, TermInv
<1>1. /\ shells' = shells /\ exit' = exit /\ leaving' = leaving /\ inbox' = inbox
      /\ requests' = requests \cup NewCalls("bulk", Killed(b.ids))
      /\ held'.spawns = held.spawns \ b.ids
      /\ IF Killed(b.ids) = {} THEN FinishBulk(b) ELSE bulk' = b /\ tabs' = tabs
  BY DEF BeginBulk, Claim, exitVars, termTypeOK
<1>2. StatusKept(id)
  BY <1>1, FinishedBulk, StatusOfTabs
<1>3. SessionFrame /\ \A r \in requests' \ requests : r.job = "bulk" /\ ~r.begun
  BY <1>1, NewCallsAre DEF SessionFrame
<1>4. ASSUME Early, id \in Busy({"create"}), id \in b.ids PROVE ~Fair(id)'
  <2>1. id \in Busy({"create"})' /\ Early'
    BY <1>1, <1>3, <1>4, CreatesKept DEF Early
  <2>2. CASE Killed(b.ids) = {}
    <3>1. id \notin Live'
      BY <1>1, <1>4, <2>2, FinishedTabs
    <3>2. QED
      BY <2>1, <3>1, OvertakenNow
  <2>3. CASE Killed(b.ids) # {}
    <3>1. bulk' # NoBulk /\ id \in bulk'.ids
      BY <1>1, <1>4, <2>3 DEF BulkClose, NoBulk
    <3>2. QED
      BY <2>1, <3>1 DEF Fair, Counted, Clean, CrossedSoFar
  <2>4. QED
    BY <2>2, <2>3
<1>5. QED
  BY <1>1, <1>2, <1>3, <1>4, QuietLeaves

LEMMA LeavesBulkAnswered ==
  ASSUME ShellInv, BulkAnswered, NEW id \in Ids, Leaves(id), Fair(id)' => Fair(id)
  PROVE  Leaves(id)'
<1> USE DEF ShellInv, TermInv
<1>1. /\ shells' = shells /\ exit' = exit /\ leaving' = leaving /\ requests' = requests
      /\ held' = held /\ inbox # <<>> /\ inbox' = Tail(inbox) /\ Head(inbox).job = "bulk"
  BY DEF BulkAnswered, Receive, exitVars
<1>2. tabs' = tabs \/ \E b : FinishBulk(b)
  BY DEF BulkAnswered
<1>3. StatusKept(id)
  BY <1>2, FinishedBulk, StatusOfTabs
<1>4. SessionFrame
  BY <1>1 DEF SessionFrame
<1>5. QED
  BY <1>1, <1>3, <1>4, QuietLeaves

LEMMA LeavesRestarts ==
  ASSUME ShellInv, NEW id \in Ids, Leaves(id), Fair(id)' => Fair(id), NEW other \in Ids,
         restartTerminal(other) \/ reopenTerminalShell(other) \/ CheckFindsNothing
  PROVE  Leaves(id)'
<1> USE DEF ShellInv, TermInv
<1>1. /\ shells' = shells /\ exit' = exit /\ leaving' = leaving
      /\ inbox' = inbox \/ (inbox # <<>> /\ inbox' = Tail(inbox) /\ Head(inbox).job = "check")
  BY DEF restartTerminal, reopenTerminalShell, CheckFindsNothing, Receive, exitVars
<1>2. ASSUME NEW subject, NEW job \in {"restart", "shell"},
             tabs' = tabs \/ tabs' = [tabs EXCEPT ![subject].task = FALSE],
             \/ held'.spawns = held.spawns /\ requests' = requests
             \/ /\ held'.spawns = held.spawns \ {subject}
                /\ requests' = requests \cup NewCalls(job, {subject})
      PROVE  Leaves(id)'
  <2>1. StatusKept(id)
    BY <1>2, StatusOfTabs
  <2>2. CASE held'.spawns = held.spawns /\ requests' = requests
    <3>1. SessionFrame
      BY <1>1, <2>2 DEF SessionFrame
    <3>2. QED
      BY <1>1, <2>1, <2>2, <3>1, QuietLeaves
  <2>3. CASE /\ held'.spawns = held.spawns \ {subject}
             /\ requests' = requests \cup NewCalls(job, {subject})
    BY <1>1, <2>1, <2>3, LeavesClaimed
  <2>4. QED
    BY <1>2, <2>2, <2>3
<1>3. CASE restartTerminal(other) \/ reopenTerminalShell(other)
  <2>1. /\ tabs' = tabs \/ tabs' = [tabs EXCEPT ![other].task = FALSE]
        /\ \/ held'.spawns = held.spawns /\ requests' = requests
           \/ /\ held'.spawns = held.spawns \ {other}
              /\ requests' = requests \cup NewCalls("restart", {other})
    BY <1>3 DEF restartTerminal, reopenTerminalShell, BeginRestart, Put, termTypeOK
  <2>2. QED
    BY <1>2, <2>1
<1>4. CASE CheckFindsNothing
  <2> PICK it : it = Subject
    OBVIOUS
  <2>1. /\ tabs' = [tabs EXCEPT ![it].task = FALSE]
        /\ \/ held'.spawns = held.spawns /\ requests' = requests
           \/ /\ held'.spawns = held.spawns \ {it}
              /\ requests' = requests \cup NewCalls("shell", {it})
    BY <1>4 DEF CheckFindsNothing, BeginRestart, termTypeOK
  <2>2. QED
    BY <1>2, <2>1
<1>5. QED
  BY <1>3, <1>4

\* A message about another terminal is taken.
LEMMA OthersLeave ==
  ASSUME termTypeOK, NEW id, Leaves(id), shells' = shells, exit' = exit, leaving' = leaving,
         inbox # <<>>, inbox' = Tail(inbox), NEW subject, subject = Subject, subject # id,
         requests' = requests \/ requests' = requests \cup NewCalls("cancel", {subject}),
         held.spawns \subseteq held'.spawns \cup {subject}, StatusKept(id),
         Fair(id)' => Fair(id)
  PROVE  Leaves(id)'
<1>1. SessionFrame
  BY DEF SessionFrame
<1>2. \A r \in requests' \ requests : r.job = "cancel" /\ r.id = subject /\ ~r.begun
  BY NewCallsAre
<1>3. id \in Busy({"create"})' => id \in Busy({"create"})
  BY <1>1, <1>2, SessionFacts DEF Busy, Calls
<1>4. HasOpened(id) => HasOpened(id)'
  BY <1>1, OpenedKept DEF Creates, Subject
<1>5. id \in Live' \cap shells /\ tabs'[id].status = "exited" => HasOpened(id)'
  BY <1>4 DEF Leaves, ExitedHasNone, StatusKept
<1>6. LeavingFrame(id)
  BY <1>1, <1>2, <1>3, <1>5 DEF LeavingFrame
<1>7. QED
  BY <1>6, StoreLeaves

LEMMA EndedStatus ==
  ASSUME termTypeOK, NEW other, tabs' = Ended(other), NEW id, id # other
  PROVE  StatusKept(id)
BY DEF Ended, With, StatusKept, Live, termTypeOK

LEMMA LeavesSpawned ==
  ASSUME ShellInv, NEW id \in Ids, Settled(id), Leaves(id), Fair(id)' => Fair(id),
         Spawned \/ SpawnFailed \/ SpawnCancelled \/ CancelAnswered
  PROVE  Leaves(id)'
<1> USE DEF ShellInv, TermInv
<1> PICK subject : subject = Subject
  OBVIOUS
<1>1. /\ shells' = shells /\ exit' = exit /\ leaving' = leaving
      /\ requests' = requests \/ requests' = requests \cup NewCalls("cancel", {subject})
      /\ inbox # <<>> /\ inbox' = Tail(inbox) /\ Head(inbox).job \in {"create", "cancel"}
      /\ Head(inbox).id = subject /\ Head(inbox) \in Told
      /\ held.spawns \subseteq held'.spawns \cup {subject}
  <2>1. /\ shells' = shells /\ exit' = exit /\ leaving' = leaving
        /\ requests' = requests \/ requests' = requests \cup NewCalls("cancel", {subject})
        /\ inbox # <<>> /\ inbox' = Tail(inbox) /\ Head(inbox).job \in {"create", "cancel"}
    BY DEF Spawned, SpawnFailed, SpawnCancelled, CancelAnswered, Receive, storeVars, exitVars
  <2>2. held' = held \/ held' = [held EXCEPT !.spawns = @ \ {subject}]
    BY DEF Spawned, SpawnFailed, SpawnCancelled, CancelAnswered, storeVars
  <2>3. held.spawns \subseteq held'.spawns \cup {subject}
    BY <2>2 DEF termTypeOK
  <2>4. Head(inbox).id = subject /\ Head(inbox) \in Told
    BY <2>1, InboxHead DEF Told, Subject, termTypeOK
  <2>5. QED
    BY <2>1, <2>3, <2>4
<1>2. CASE subject # id
  <2>1. CASE SpawnCancelled \/ CancelAnswered
    <3>1. tabs' = tabs
      BY <2>1 DEF SpawnCancelled, CancelAnswered, storeVars
    <3>2. StatusKept(id)
      BY <3>1, StatusOfTabs
    <3>3. QED
      BY <1>1, <1>2, <3>2, OthersLeave
  <2>2. CASE SpawnFailed
    <3>1. tabs' = Ended(subject)
      BY <2>2 DEF SpawnFailed, Put
    <3>2. StatusKept(id)
      BY <1>2, <3>1, EndedStatus
    <3>3. QED
      BY <1>1, <1>2, <3>2, OthersLeave
  <2>3. CASE Spawned
    <3>1. tabs' = [tabs EXCEPT ![subject] = [@ EXCEPT !.status = "running",
                                                      !.restored = FALSE, !.pending = FALSE]]
      BY <2>3 DEF Spawned, Put
    <3>2. StatusKept(id)
      BY <1>2, <3>1 DEF StatusKept, Live, termTypeOK
    <3>3. QED
      BY <1>1, <1>2, <3>2, OthersLeave
  <2>4. QED
    BY <2>1, <2>2, <2>3
<1>3. CASE subject = id
  <2>1. SessionFrame
    BY <1>1 DEF SessionFrame
  <2>2. ASSUME id \in Live' \cap shells, tabs'[id].status = "exited" PROVE HasOpened(id)'
    <3>1. CASE Spawned
      <4>1. id \in Live /\ tabs' = [tabs EXCEPT ![subject] =
                     [@ EXCEPT !.status = "running", !.restored = FALSE, !.pending = FALSE]]
        BY <1>3, <3>1 DEF Spawned, Put
      <4>2. \A tab \in Tab : [tab EXCEPT !.status = "running", !.restored = FALSE,
                                         !.pending = FALSE].status = "running"
        BY DEF Tab
      <4>3. QED
        BY <1>3, <2>2, <4>1, <4>2 DEF Live, termTypeOK
    <3>2. CASE SpawnFailed
      <4>1. Head(inbox).result = "failed" /\ Creates(Head(inbox), id)
        BY <1>1, <1>3, <3>2 DEF SpawnFailed, Receive, Creates
      <4>2. ~HasOpened(id)
        <5>1. SUFFICES ASSUME NEW m \in Told, Creates(m, id), m.result = "ok" PROVE FALSE
          BY DEF HasOpened
        <5>2. PICK i \in 1 .. Len(inbox) : inbox[i] = m
          BY MessageAt DEF termTypeOK
        <5>3. PICK j \in 1 .. Len(inbox) : inbox[j] = Head(inbox)
          BY <1>1, MessageAt DEF termTypeOK
        <5>4. i = j
          BY <4>1, <5>1, <5>2, <5>3 DEF Settled, OneCreate
        <5>5. QED
          BY <4>1, <5>1, <5>2, <5>3, <5>4
      <4>3. id \in Busy({"create"})
        BY <1>1, <4>1 DEF Creates, Busy, Calls
      <4>4. QED
        BY <2>2, <4>2, <4>3 DEF Settled, CreatingHasNone
    <3>3. CASE SpawnCancelled
      BY <1>3, <2>2, <3>3 DEF SpawnCancelled, storeVars, Live
    <3>4. CASE CancelAnswered
      <4>1. tabs' = tabs /\ Head(inbox).job = "cancel"
        BY <1>1, <3>4 DEF CancelAnswered, Receive
      <4>2. HasOpened(id)
        BY <2>2, <4>1 DEF Leaves, ExitedHasNone, Live
      <4>3. QED
        BY <1>1, <2>1, <4>1, <4>2, OpenedKept DEF Creates
    <3>5. QED
      BY <3>1, <3>2, <3>3, <3>4
  <2>3. ASSUME Fair(id)' PROVE requests' = requests /\ id \notin Busy({"create"})'
    <3>1. Ends(id)
      BY <2>3 DEF Leaves
    <3>2. Creates(Head(inbox), id) /\ id \in Busy({"create"})
      <4>1. Head(inbox).job # "cancel"
        BY <1>1, <1>3, <3>1 DEF Ends, Busy, Calls
      <4>2. QED
        BY <1>1, <1>3, <4>1 DEF Creates, Busy, Calls
    <3>3. id \in Live
      BY <2>3, <3>1, <3>2, NotOvertaken DEF Ends
    <3>4. ~SpawnCancelled /\ ~CancelAnswered
      BY <1>3, <3>2, <3>3 DEF SpawnCancelled, CancelAnswered, Receive, Creates
    <3>5. requests' = requests
      BY <3>4 DEF Spawned, SpawnFailed
    <3>6. CallsKept(id) /\ inbox' # inbox
      <4>1. Len(inbox) \in Nat /\ Len(inbox') = Len(inbox) - 1
        BY <1>1, InboxTaken
      <4>2. inbox' # inbox
        BY <4>1
      <4>3. QED
        BY <3>5, <4>2 DEF CallsKept
    <3>7. QED
      BY <2>1, <3>2, <3>5, <3>6, CreateTaken DEF Settled
  <2>4. \A r \in requests' \ requests : r.job = "cancel" /\ ~r.begun
    BY <1>1, NewCallsAre
  <2>5. LeavingFrame(id)
    BY <1>1, <2>1, <2>2, <2>3, <2>4 DEF LeavingFrame
  <2>6. QED
    BY <2>5, StoreLeaves
<1>4. QED
  BY <1>2, <1>3

\* The shell of a tab has ended: it has one again only if another has been opened.
LEMMA LeavesExits ==
  ASSUME ShellInv, NEW id \in Ids, Settled(id), Leaves(id), Fair(id)' => Fair(id),
         NEW quick \in BOOLEAN,
         ExitEnds(quick) \/ ExitCuts
  PROVE  Leaves(id)'
<1> USE DEF ShellInv, TermInv
<1> PICK subject : subject = Subject
  OBVIOUS
<1>1. /\ shells' = shells /\ exit' = exit /\ leaving' = leaving /\ requests' = requests
      /\ held' = held /\ inbox # <<>> /\ inbox' = Tail(inbox) /\ Head(inbox).job = "exited"
      /\ Head(inbox).id = subject
  BY DEF ExitEnds, ExitCuts, Receive, exitVars, Subject
<1>2. CASE subject # id
  <2>1. tabs' = Ended(subject) \/ tabs' = [tabs EXCEPT ![subject].status = "exited"]
    BY DEF ExitEnds, ExitCuts, Put
  <2>2. tabs' = [tabs EXCEPT ![subject].status = "exited"] => StatusKept(id)
    BY <1>2 DEF StatusKept, Live, termTypeOK
  <2>3. StatusKept(id)
    BY <1>2, <2>1, <2>2, EndedStatus
  <2>4. QED
    BY <1>1, <1>2, <2>3, OthersLeave
<1>3. CASE subject = id
  <2>1. id \in shells => HasOpened(id)'
    BY <1>1, <1>3, OpenedAgain DEF Settled, EndsTab
  <2>2. SessionFrame
    BY <1>1 DEF SessionFrame
  <2>3. id \in Busy({"create"})' => id \in Busy({"create"})
    BY <1>1, <2>2, SessionFacts DEF Busy, Calls
  <2>4. LeavingFrame(id)
    BY <1>1, <2>1, <2>2, <2>3 DEF LeavingFrame
  <2>5. QED
    BY <2>4, StoreLeaves
<1>4. QED
  BY <1>2, <1>3

LEMMA LeavesCreates ==
  ASSUME termTypeOK, NEW id, Leaves(id), Fair(id)' => Fair(id),
         shells' = shells, exit' = exit, leaving' = leaving,
         inbox' = inbox \/ (inbox # <<>> /\ inbox' = Tail(inbox) /\ Head(inbox).job # "create"),
         NEW now, requests' = requests \cup NewCalls("create", now), now # {} => exit = "open",
         held'.spawns = held.spawns \cup now, StatusKept(id)
  PROVE  Leaves(id)'
<1>1. SessionFrame /\ \A r \in requests' \ requests : r.job = "create" /\ r.id \in now /\ ~r.begun
  BY NewCallsAre DEF SessionFrame
<1>2. id \in Busy({"create"})' => id \in Busy({"create"}) \/ id \in now
  BY <1>1, SessionFacts DEF Busy, Calls
<1>3. HasOpened(id) => HasOpened(id)'
  BY <1>1, OpenedKept DEF Creates
<1>4. id \in Live' \cap shells /\ tabs'[id].status = "exited" => HasOpened(id)'
  BY <1>3 DEF Leaves, ExitedHasNone, StatusKept
<1>5. LeavingFrame(id)
  BY <1>1, <1>2, <1>4 DEF LeavingFrame
<1>6. QED
  BY <1>5, StoreLeaves

LEMMA LeavesSpawns ==
  ASSUME ShellInv, NEW id \in Ids, Leaves(id), Fair(id)' => Fair(id), NEW other \in Ids,
         spawnPendingTerminal(other) \/ spawnRestoredTerminals
  PROVE  Leaves(id)'
<1> USE DEF ShellInv, TermInv
<1>1. CASE spawnPendingTerminal(other)
  <2>1. /\ shells' = shells /\ exit' = exit /\ leaving' = leaving /\ inbox' = inbox
        /\ requests' = requests \cup NewCalls("create", {other}) /\ exit = "open"
        /\ held'.spawns = held.spawns \cup {other} /\ tabs' = Created({other}, tabs)
    BY <1>1 DEF spawnPendingTerminal, Put, exitVars, termTypeOK
  <2>2. StatusKept(id)
    BY <2>1, CreatedTabs DEF StatusKept, termTypeOK
  <2>3. QED
    BY <2>1, <2>2, LeavesCreates
<1>2. CASE spawnRestoredTerminals
  <2> DEFINE ids == {i \in Live : tabs[i].restored} \ Busy({"create"})
             now == IF exit = "open" THEN ids \ held.spawns ELSE {}
             starting == [i \in Live |-> IF i \in ids
                            THEN [tabs[i] EXCEPT !.status = "starting", !.pending = TRUE]
                            ELSE tabs[i]]
  <2>1. /\ shells' = shells /\ exit' = exit /\ leaving' = leaving /\ inbox' = inbox
        /\ requests' = requests \cup NewCalls("create", now) /\ (now # {} => exit = "open")
        /\ held'.spawns = held.spawns \cup now /\ tabs' = Created(now, starting)
    BY <1>2 DEF spawnRestoredTerminals, Put, exitVars, termTypeOK
  <2>2. /\ starting \in [Live -> Tab]
        /\ \A i \in Live : starting[i].status = "exited" => tabs[i].status = "exited"
    <3>1. \A tab \in Tab :
            /\ [tab EXCEPT !.status = "starting", !.pending = TRUE].status = "starting"
            /\ [tab EXCEPT !.status = "starting", !.pending = TRUE] \in Tab
      BY DEF Tab
    <3>2. QED
      BY <3>1 DEF termTypeOK
  <2> HIDE DEF ids, now, starting
  <2>3. StatusKept(id)
    BY <2>1, <2>2, CreatedTabs DEF StatusKept
  <2>4. QED
    BY <2>1, <2>3, LeavesCreates
<1>3. QED
  BY <1>1, <1>2

LEMMA LeavesRestarted ==
  ASSUME ShellInv, NEW id \in Ids, Leaves(id), Fair(id)' => Fair(id),
         NEW job \in {"restart", "shell"},
         RestartAnswered(job)
  PROVE  Leaves(id)'
<1> USE DEF ShellInv, TermInv
<1> PICK subject : subject = Subject
  OBVIOUS
<1> DEFINE fresh == With(subject, [tabs[subject] EXCEPT
                              !.status = "starting", !.restored = FALSE, !.pending = TRUE])
<1>1. /\ shells' = shells /\ exit' = exit /\ leaving' = leaving
      /\ inbox # <<>> /\ inbox' = Tail(inbox) /\ Head(inbox).job = job
  BY DEF RestartAnswered, Receive, exitVars
<1>2. PICK now \in SUBSET ({subject} \cap Live) :
        /\ now # {} => exit = "open"
        /\ tabs' = Created(now, fresh) /\ held'.spawns = held.spawns \cup now
        /\ requests' = requests \cup NewCalls("create", now)
  BY DEF RestartAnswered, termTypeOK
<1>3. /\ fresh \in [Live -> Tab]
      /\ \A i \in Live : fresh[i].status = "exited" => tabs[i].status = "exited"
  <2>1. \A tab \in Tab :
          LET new == [tab EXCEPT !.status = "starting", !.restored = FALSE, !.pending = TRUE]
          IN  new.status = "starting" /\ new \in Tab
    BY DEF Tab
  <2>2. QED
    BY <2>1, WithType DEF With, Live, termTypeOK
<1> HIDE DEF fresh
<1>4. StatusKept(id)
  BY <1>2, <1>3, CreatedTabs DEF StatusKept
<1>5. QED
  BY <1>1, <1>2, <1>4, LeavesCreates

LEMMA LeavesStore ==
  ASSUME ShellInv, NEW id \in Ids, Settled(id), Leaves(id), Fair(id)' => Fair(id), Store
  PROVE  Leaves(id)'
<1>1. CASE \/ spawnRestoredTerminals \/ \E other \in Ids : spawnPendingTerminal(other)
           \/ Spawned \/ SpawnCancelled \/ SpawnFailed \/ CancelAnswered
  BY <1>1, LeavesSpawns, LeavesSpawned
<1>2. CASE \E other \in Ids : closeTerminal(other)
  BY <1>2, LeavesCloses
<1>3. CASE closeAllProjectTerminals
  <2> DEFINE b == [kind |-> "all", ids |-> Live, keep |-> None, pane |-> Primary, failed |-> {}]
  <2>1. b \in BulkClose /\ b.ids \subseteq Live
    BY TerminalConstants DEF BulkClose, ShellInv, TermInv, termTypeOK
  <2>2. BeginBulk(b)
    BY <1>3 DEF closeAllProjectTerminals
  <2> HIDE DEF b
  <2>3. QED
    BY <2>1, <2>2, LeavesBulkBegins
<1>4. ASSUME NEW other \in Ids, closeOtherTerminals(other)
      PROVE  Leaves(id)'
  <2> DEFINE pane == tabs[other].pane
             b == [kind |-> "others", ids |-> Owned(pane) \ {other}, keep |-> other,
                   pane |-> pane, failed |-> {}]
  <2>1. pane \in Panes
    BY <1>4 DEF closeOtherTerminals, ShellInv, TermInv, termTypeOK, Tab
  <2>2. b \in BulkClose /\ b.ids \subseteq Live
    BY <2>1 DEF BulkClose, Owned, ShellInv, TermInv, termTypeOK
  <2>3. BeginBulk(b)
    BY <1>4 DEF closeOtherTerminals
  <2> HIDE DEF b
  <2>4. QED
    BY <2>2, <2>3, LeavesBulkBegins
<1>5. CASE BulkAnswered
  BY <1>5, LeavesBulkAnswered
<1>6. CASE \/ \E other \in Ids : restartTerminal(other) \/ reopenTerminalShell(other)
           \/ CheckFindsNothing \/ \E job \in {"restart", "shell"} : RestartAnswered(job)
  BY <1>6, LeavesRestarts, LeavesRestarted, TerminalConstants
<1>7. CASE ExitCuts \/ \E quick \in BOOLEAN : ExitEnds(quick)
  BY <1>7, LeavesExits
<1>8. CASE \/ \E other \in Ids : \E task \in BOOLEAN : addScriptTerminal(other, task)
           \/ \E other \in Ids : ProfileTrusted(other) \/ enterShellAfterTask(other)
                                 \/ setActiveTerminal(other)
           \/ addTerminal \/ ProfileRefused \/ Closed \/ CloseFailed \/ CheckFindsTask
           \/ CheckDropped \/ ExitExpected \/ activateProject
           \/ \E pane \in Panes : setTerminalFocusPane(pane)
  BY <1>8, LeavesQuiet, TerminalConstants
<1>9. QED
  BY <1>1, <1>2, <1>3, <1>4, <1>5, <1>6, <1>7, <1>8 DEF Store

\* What a step of the backend leaves of the calls.
BackendCalls ==
  /\ tabs' = tabs /\ held' = held /\ exit' = exit /\ leaving' = leaving /\ left' = left
  /\ Told \subseteq Told'
  /\ \A c \in Calls' : c.job = "exited" \/ \E d \in Calls : d.job = c.job /\ d.id = c.id

LEMMA BackendLeaves ==
  ASSUME NEW id, Leaves(id), Fair(id)' => Fair(id), BackendCalls, exit # "gone",
         id \in shells' => id \in shells \/ (HasOpened(id)' /\ id \in Busy({"create"})),
         Fair(id)' => KilledByExit(id)'
  PROVE  Leaves(id)'
<1>1. \A job \in {"create", "cancel"} : id \in Busy({job})' => id \in Busy({job})
  BY DEF Busy, BackendCalls
<1>2. HasOpened(id) => HasOpened(id)'
  BY DEF HasOpened, BackendCalls
<1>3. ExitedHasNone(id)'
  BY <1>2 DEF ExitedHasNone, Leaves, BackendCalls, Live
<1>4. ASSUME Fair(id)' PROVE Ends(id)'
  <2>1. Ends(id)
    BY <1>4 DEF Leaves
  <2>2. exit' = exit /\ leaving' = leaving /\ held' = held /\ (Early' <=> Early)
    BY DEF BackendCalls, Early
  <2>3. exit \in {"paused", "closing"} => id \notin Busy({"create"})
    BY <2>1 DEF Ends, Early
  <2>4. QED
    BY <1>1, <1>4, <2>1, <2>2, <2>3 DEF Ends
<1>5. QED
  BY <1>3, <1>4 DEF Leaves

LEMMA AnsweredCalls ==
  ASSUME termTypeOK, NEW r \in requests, NEW result \in Results,
         tabs' = tabs, held' = held, exit' = exit, leaving' = leaving, left' = left,
         requests' = requests \ {r}, inbox' = Append(inbox, Answer(r, result)),
         NEW m, m = Answer(r, result)
  PROVE  /\ m \in Message /\ m.job = r.job /\ m.id = r.id /\ m.result = result
         /\ Told' = Told \cup {m} /\ BackendCalls
<1>1. m \in Message /\ m.job = r.job /\ m.id = r.id /\ m.result = result
  BY DEF termTypeOK, Request, Message, Answer, Jobs
<1>2. Told' = Told \cup {m}
  BY <1>1, MessageAdded
<1>3. QED
  BY <1>1, <1>2 DEF BackendCalls, Calls

LEMMA BackendAsks == ShellInv /\ Backend => BackendCalls
<1>1. SUFFICES ASSUME ShellInv, Backend PROVE BackendCalls
  OBVIOUS
<1> USE DEF ShellInv, TermInv
<1>2. tabs' = tabs /\ held' = held /\ exit' = exit /\ leaving' = leaving /\ left' = left
  BY <1>1 DEF Backend, CreateServed, CreateRefused, KillServed, KillBegins, KillEnds,
      CloseOfSessionFails, KillRefused, KillGraceful, terminal_session_open, CheckFails,
      ShellEnds, ForcedToEnd, backendFrame, storeVars, exitVars
<1>3. ASSUME NEW r \in requests,
             \/ CreateServed(r) \/ CreateRefused(r) \/ KillServed(r) \/ KillEnds(r)
             \/ CloseOfSessionFails(r) \/ KillRefused(r) \/ KillGraceful(r)
             \/ terminal_session_open(r) \/ CheckFails(r)
      PROVE  BackendCalls
  <2>1. requests' = requests \ {r}
    BY <1>3 DEF CreateServed, CreateRefused, KillServed, KillEnds, CloseOfSessionFails,
                KillRefused, KillGraceful, terminal_session_open, CheckFails
  <2>2. PICK result \in Results : inbox' = Append(inbox, Answer(r, result))
    BY <1>3 DEF CreateServed, CreateRefused, KillServed, KillEnds, CloseOfSessionFails,
                KillRefused, KillGraceful, terminal_session_open, CheckFails, Results
  <2>3. QED
    BY <1>1, <1>2, <2>1, <2>2, AnsweredCalls
<1>4. ASSUME NEW r \in requests, KillBegins(r) PROVE BackendCalls
  <2> PICK q : q = [r EXCEPT !.begun = TRUE]
    OBVIOUS
  <2>1. q.job = r.job /\ q.id = r.id
    BY <1>1 DEF termTypeOK, Request
  <2>2. requests' = (requests \ {r}) \cup {q} /\ inbox' = inbox
    BY <1>4 DEF KillBegins
  <2>3. QED
    BY <1>2, <2>1, <2>2 DEF BackendCalls, Calls, Told
<1>5. ASSUME NEW other \in Ids, NEW how \in {"ended", "cut"}, ShellEnds(other, how)
      PROVE  BackendCalls
  <2> PICK m : m = [job |-> "exited", id |-> other, n |-> 1, result |-> how]
    OBVIOUS
  <2>1. m \in Message /\ m.job = "exited"
    BY TerminalConstants DEF Message, Results
  <2>2. requests' = requests /\ inbox' = Append(inbox, m)
    BY <1>5 DEF ShellEnds
  <2>3. Told' = Told \cup {m}
    BY <1>1, <2>1, <2>2, MessageAdded
  <2>4. QED
    BY <1>2, <2>1, <2>2, <2>3 DEF BackendCalls, Calls
<1>6. ASSUME NEW other \in Ids, ForcedToEnd(other) PROVE BackendCalls
  <2>1. requests' = requests /\ inbox' = inbox
    BY <1>6 DEF ForcedToEnd
  <2>2. QED
    BY <1>2, <2>1 DEF BackendCalls, Calls, Told
<1>7. QED
  BY <1>1, <1>3, <1>4, <1>5, <1>6 DEF Backend

LEMMA LeavesBackend ==
  ASSUME ShellInv, ExitIsAsked, NEW id \in Ids, Clean(id), Settled(id), Leaves(id),
         Fair(id)' => Fair(id), Backend
  PROVE  Leaves(id)'
<1> USE DEF ShellInv, TermInv
<1>1. BackendCalls /\ exit # "gone"
  BY BackendAsks, GoneIsOver DEF Next
<1>2. tabs' = tabs /\ held' = held /\ exit' = exit /\ leaving' = leaving /\ left' = left
  BY <1>1 DEF BackendCalls
<1>3. ASSUME NEW r \in requests, CreateServed(r)
      PROVE  Leaves(id)'
  <2> PICK m : m = Answer(r, "ok")
    OBVIOUS
  <2>1. /\ r.job = "create" /\ requests' = requests \ {r} /\ shells' = shells \cup {r.id}
        /\ inbox' = Append(inbox, Answer(r, "ok"))
    BY <1>3 DEF CreateServed
  <2>2. /\ m.job = "create" /\ m.id = r.id /\ m.result = "ok" /\ Told' = Told \cup {m}
    BY <1>2, <2>1, AnsweredCalls DEF Results
  <2>3. r.id = id => HasOpened(id)' /\ id \in Busy({"create"})
    BY <2>1, <2>2 DEF HasOpened, Creates, Busy, Calls
  <2>4. ASSUME Fair(id)' PROVE KilledByExit(id)'
    <3> Ends(id)
      BY <2>4 DEF Leaves
    <3>1. CASE r.id # id
      BY <2>1, <2>2, <3>1 DEF Ends, KilledByExit
    <3>2. CASE r.id = id
      <4>1. Busy({"exit"}) = {}
        BY <2>3, <3>2 DEF Ends, Early, ExitIsAsked
      <4>2. QED
        BY <2>1, <2>2, <4>1 DEF KilledByExit, Busy, Calls
    <3>3. QED
      BY <3>1, <3>2
  <2>5. QED
    BY <1>1, <2>1, <2>3, <2>4, BackendLeaves
<1>4. ASSUME NEW r \in requests,
             \/ CreateRefused(r) \/ KillServed(r) \/ KillEnds(r)
             \/ CloseOfSessionFails(r) \/ KillRefused(r) \/ KillGraceful(r)
             \/ terminal_session_open(r) \/ CheckFails(r)
      PROVE  Leaves(id)'
  <2>1. requests' = requests \ {r} /\ shells' \subseteq shells
    BY <1>4 DEF CreateRefused, KillServed, KillEnds, CloseOfSessionFails, KillRefused,
                KillGraceful, terminal_session_open, CheckFails, backendFrame
  <2>2. PICK result \in Results :
          /\ inbox' = Append(inbox, Answer(r, result))
          /\ \/ result # "ok" \/ r.job \in {"check", "create"} \/ r.id \notin shells'
             \/ r.begun \/ r.astray
    BY <1>4 DEF CreateRefused, KillServed, KillEnds, CloseOfSessionFails,
                KillRefused, KillGraceful, terminal_session_open, CheckFails, Results
  <2> PICK m : m = Answer(r, result)
    OBVIOUS
  <2>3. m.job = r.job /\ m.id = r.id /\ m.result = result /\ Told' = Told \cup {m}
    BY <1>2, <2>1, <2>2, AnsweredCalls
  <2>4. r.id = id /\ r.astray => id \notin shells'
    BY <2>1, NotMisrouted
  <2>5. ASSUME Fair(id)' PROVE KilledByExit(id)'
    <3>1. KilledByExit(id)
      BY <2>5 DEF Leaves, Ends
    <3>2. QED
      BY <2>1, <2>2, <2>3, <2>4, <3>1 DEF KilledByExit
  <2>6. QED
    BY <1>1, <2>1, <2>5, BackendLeaves
<1>5. ASSUME NEW r \in requests, KillBegins(r) PROVE Leaves(id)'
  <2> PICK q : q = [r EXCEPT !.begun = TRUE]
    OBVIOUS
  <2>1. q.job = r.job /\ q.id = r.id
    BY DEF termTypeOK, Request
  <2>2. requests' = (requests \ {r}) \cup {q} /\ inbox' = inbox /\ shells' = shells \ {r.id}
    BY <1>5 DEF KillBegins
  <2>3. Fair(id)' => KilledByExit(id)'
    BY <2>1, <2>2 DEF Leaves, Ends, KilledByExit, Told
  <2>4. QED
    BY <1>1, <2>2, <2>3, BackendLeaves
<1>6. ASSUME NEW other \in Ids, NEW how \in {"ended", "cut"}, ShellEnds(other, how)
      PROVE  Leaves(id)'
  <2> PICK m : m = [job |-> "exited", id |-> other, n |-> 1, result |-> how]
    OBVIOUS
  <2>1. m \in Message /\ m.job = "exited"
    BY TerminalConstants DEF Message, Results
  <2>2. requests' = requests /\ inbox' = Append(inbox, m) /\ shells' \subseteq shells
    BY <1>6 DEF ShellEnds
  <2>3. Told' = Told \cup {m}
    BY <2>1, <2>2, MessageAdded
  <2>4. Fair(id)' => KilledByExit(id)'
    BY <2>1, <2>2, <2>3 DEF Leaves, Ends, KilledByExit
  <2>5. QED
    BY <1>1, <2>2, <2>4, BackendLeaves
<1>7. ASSUME NEW other \in Ids, ForcedToEnd(other) PROVE Leaves(id)'
  <2>1. requests' = requests /\ inbox' = inbox /\ shells' = shells
    BY <1>7 DEF ForcedToEnd
  <2>2. Fair(id)' => KilledByExit(id)'
    BY <2>1 DEF Leaves, Ends, KilledByExit, Told
  <2>3. QED
    BY <1>1, <2>1, <2>2, BackendLeaves
<1>8. QED
  BY <1>3, <1>4, <1>5, <1>6, <1>7 DEF Backend

\* A step of the exit that takes no answer.
LEMMA ExitMoves ==
  ASSUME NEW id, Leaves(id), tabs' = tabs, held' = held, inbox' = inbox, shells' = shells,
         \/ requests' = requests
         \/ \E ids : requests' = requests \cup NewCalls("exit", ids),
         Fair(id)' => /\ Fair(id) /\ (id \in Busy({"create"}) => Early')
                      /\ exit' \in {"paused", "closing"} /\ id \in shells => id \in leaving'
                      /\ exit' = "gone" => id \notin shells
  PROVE  Leaves(id)'
<1>1. Told' = Told /\ Live' = Live
  BY DEF Told, Live
<1>2. \A r \in requests' \ requests : r.job = "exit" /\ ~r.begun
  BY NewCallsAre
<1>3. \A job \in {"create", "cancel"} : id \in Busy({job})' => id \in Busy({job})
  BY <1>1, <1>2 DEF Busy, Calls
<1>4. ExitedHasNone(id)'
  BY <1>1 DEF Leaves, ExitedHasNone, HasOpened
<1>5. ASSUME Fair(id)' PROVE Ends(id)'
  <2>1. Ends(id)
    BY <1>5 DEF Leaves
  <2>2. KilledByExit(id)'
    BY <1>1, <1>2, <2>1 DEF Ends, KilledByExit
  <2>3. QED
    BY <1>3, <1>5, <2>1, <2>2 DEF Ends
<1>6. QED
  BY <1>4, <1>5 DEF Leaves

\* The list the exit takes holds every tab with a shell.
LEMMA LeavesPaused ==
  ASSUME ShellInv, ExitIsAsked, NEW id \in Ids, Settled(id), Leaves(id), Counted(id)',
         Clean(id), Paused
  PROVE  Leaves(id)'
<1>1. /\ tabs' = tabs /\ held' = held /\ inbox' = inbox /\ shells' = shells
      /\ requests' = requests /\ exit = "pausing" /\ exit' = "paused" /\ held.spawns = {}
      /\ leaving' = {i \in Live : tabs[i].status # "exited" /\ ~tabs[i].pending}
      /\ left' = left \cup (Busy({"create", "cancel"}) \cap OvertakenSoFar)
  BY DEF Paused, Quiet, exitFrame, storeVars
<1>2. id \notin Busy({"create"}) /\ id \notin Busy({"cancel"})
  <2>1. CASE id \in OvertakenSoFar
    <3>1. id \notin Busy({"create", "cancel"})
      BY <1>1, <2>1 DEF Counted
    <3>2. QED
      BY <3>1 DEF Busy
  <2>2. CASE id \notin OvertakenSoFar
    <3>1. Fair(id)
      BY <1>1, <2>2 DEF Fair, Counted
    <3>2. QED
      BY <1>1, <3>1 DEF Leaves, Ends
  <2>3. QED
    BY <2>1, <2>2
<1>3. ~HasOpened(id)
  BY <1>2 DEF HasOpened, Busy, Calls, Creates
<1>4. ASSUME id \in shells PROVE id \in leaving'
  <2>1. id \in Live
    BY <1>2, <1>3, <1>4 DEF Settled, Swept, Unkilled, Busy, Calls
  <2>2. tabs[id].status # "exited"
    BY <1>3, <1>4, <2>1 DEF Leaves, ExitedHasNone
  <2>3. ~tabs[id].pending
    BY <1>4, <2>1 DEF Settled, PendingIsNew
  <2>4. QED
    BY <1>1, <2>1, <2>2, <2>3
<1>5. /\ Told' = Told /\ Live' = Live /\ Calls' = Calls
      /\ \A jobs : Busy(jobs)' = Busy(jobs)
  BY <1>1 DEF Told, Live, Calls, Busy
<1>6. KilledByExit(id)'
  <2>1. Busy({"exit"}) = {}
    BY <1>1 DEF ExitIsAsked
  <2>2. QED
    BY <1>1, <1>5, <2>1 DEF KilledByExit, Busy, Calls
<1>7. ExitedHasNone(id)'
  BY <1>1, <1>5 DEF Leaves, ExitedHasNone, HasOpened
<1>8. QED
  BY <1>1, <1>2, <1>4, <1>5, <1>6, <1>7 DEF Leaves, Ends

LEMMA LeavesExitKilled ==
  ASSUME ShellInv, ExitIsAsked, NEW id \in Ids, Counted(id), Leaves(id), ExitKilled
  PROVE  Leaves(id)'
<1> USE DEF ShellInv, TermInv
<1> PICK subject : subject = Subject
  OBVIOUS
<1>1. /\ shells' = shells /\ requests' = requests /\ leaving' = leaving \ {subject}
      /\ exit' = IF leaving' = {} THEN "gone" ELSE exit
      /\ inbox # <<>> /\ inbox' = Tail(inbox) /\ exit # "gone"
      /\ Head(inbox).job = "exit" /\ Head(inbox).result = "ok" /\ Head(inbox).id = subject
      /\ tabs' = Ended(subject)
  BY DEF ExitKilled, Receive, Put, System, Subject
<1>2. Head(inbox) \in Told /\ SessionFrame
  BY <1>1, InboxHead DEF Told, termTypeOK, SessionFrame
<1>3. exit = "closing" /\ Ends(id)
  <2>1. exit = "closing"
    BY <1>1, <1>2 DEF ExitIsAsked, Busy, Calls
  <2>2. Fair(id)
    BY <2>1 DEF Fair, Early
  <2>3. QED
    BY <2>1, <2>2 DEF Leaves
<1>4. subject = id => id \notin shells
  BY <1>1, <1>2, <1>3 DEF Ends, KilledByExit
<1>5. Told' \subseteq Told
  BY <1>2, SessionFacts
<1>6. \A job \in {"create", "cancel"} : id \in Busy({job})' => id \in Busy({job})
  BY <1>1, <1>5 DEF Busy, Calls
<1>7. KilledByExit(id)'
  BY <1>1, <1>3, <1>5 DEF Ends, KilledByExit
<1>8. ExitedHasNone(id)'
  <2>1. SUFFICES ASSUME id \in Live' \cap shells, tabs'[id].status = "exited" PROVE HasOpened(id)'
    BY <1>1 DEF ExitedHasNone
  <2>2. StatusKept(id)
    BY <1>1, <1>4, <2>1, EndedStatus
  <2>3. HasOpened(id)
    BY <2>1, <2>2 DEF StatusKept, Leaves, ExitedHasNone
  <2>4. QED
    BY <1>1, <1>2, <2>3, OpenedKept DEF Creates
<1>9. id \notin Busy({"create"})' /\ id \notin Busy({"cancel"})'
  BY <1>3, <1>6 DEF Ends, Early
<1>10. QED
  BY <1>1, <1>3, <1>4, <1>7, <1>8, <1>9 DEF Leaves, Ends

LEMMA LeavesExit ==
  ASSUME ShellInv, ExitIsAsked, NEW id \in Ids, Settled(id), Leaves(id), Counted(id)',
         Counted(id), Fair(id)' => Fair(id) \/ Paused, Exit
  PROVE  Leaves(id)'
<1> USE DEF ShellInv, TermInv
<1>1. CASE pauseTerminalSpawnsForExit \/ PauseGivenUp \/ resumeTerminalSpawnsAfterExit
  <2>1. /\ tabs' = tabs /\ held' = held /\ inbox' = inbox /\ shells' = shells
        /\ requests' = requests /\ exit' \in {"open", "pausing"}
    BY <1>1 DEF pauseTerminalSpawnsForExit, PauseGivenUp, resumeTerminalSpawnsAfterExit,
                exitFrame, storeVars
  <2>2. Early' /\ ~Paused
    BY <2>1 DEF Early, Paused
  <2>3. QED
    BY <2>1, <2>2, ExitMoves
<1>2. CASE EndLeaving
  <2>1. /\ tabs' = tabs /\ held' = held /\ inbox' = inbox /\ shells' = shells
        /\ requests' = requests \cup NewCalls("exit", leaving) /\ leaving' = leaving
        /\ exit \in {"paused", "closing"}
        /\ exit' = IF leaving = {} THEN "gone" ELSE "closing"
    BY <1>2 DEF EndLeaving, exitFrame, storeVars
  <2>2. Fair(id)
    BY <2>1 DEF Fair, Early
  <2>3. id \notin Busy({"create"}) /\ (id \in shells => id \in leaving)
    BY <2>1, <2>2 DEF Leaves, Ends, Early
  <2>4. QED
    BY <2>1, <2>2, <2>3, ExitMoves
<1>3. CASE ExitAllTheSame
  <2>1. /\ tabs' = tabs /\ held' = held /\ inbox' = inbox /\ shells' = shells
        /\ requests' = requests /\ leaving' = leaving /\ exit = "closing" /\ exit' = "gone"
        /\ leaving \cap shells \subseteq stray'
    BY <1>3 DEF ExitAllTheSame, exitFrame, storeVars
  <2>2. Fair(id)
    BY <2>1 DEF Fair, Early
  <2>3. id \notin Busy({"create"}) /\ id \notin shells
    BY <2>1, <2>2 DEF Leaves, Ends, Early, Counted, Clean
  <2>4. QED
    BY <2>1, <2>2, <2>3, ExitMoves
<1>4. CASE ExitKillFailed
  <2>1. /\ tabs' = tabs /\ held' = held /\ shells' = shells /\ requests' = requests
        /\ exit' = exit /\ leaving' = leaving
        /\ inbox # <<>> /\ inbox' = Tail(inbox) /\ Head(inbox).job = "exit"
    BY <1>4 DEF ExitKillFailed, Receive, storeVars, exitVars
  <2>2. StatusKept(id) /\ SessionFrame
    BY <2>1, StatusOfTabs DEF SessionFrame
  <2>3. Fair(id)' => Fair(id)
    BY <2>1 DEF Paused
  <2>4. QED
    BY <2>1, <2>2, <2>3, QuietLeaves
<1>5. CASE Paused
  BY <1>5, LeavesPaused DEF Counted
<1>6. QED
  BY <1>1, <1>2, <1>3, <1>4, <1>5, LeavesExitKilled DEF Exit

\* Only an exit asks for the kills of an exit.
LEMMA StoreAsks ==
  ASSUME Store
  PROVE  /\ exit' = exit /\ left' = left
         /\ inbox' = inbox \/ (inbox # <<>> /\ inbox' = Tail(inbox))
         /\ \A r \in requests' : r \in requests \/ r.job # "exit"
<1>1. CASE \/ \E id \in Ids : \E task \in BOOLEAN : addScriptTerminal(id, task)
           \/ addTerminal \/ ProfileRefused \/ spawnRestoredTerminals
           \/ \E id \in Ids : ProfileTrusted(id) \/ spawnPendingTerminal(id)
           \/ Spawned \/ SpawnCancelled \/ SpawnFailed \/ CancelAnswered
  <2>1. exit' = exit /\ left' = left
    BY <1>1 DEF addScriptTerminal, addTerminal, ProfileRefused, spawnRestoredTerminals,
                ProfileTrusted, spawnPendingTerminal, Spawned, SpawnCancelled, SpawnFailed,
                CancelAnswered, exitVars
  <2>2. inbox' = inbox \/ (inbox # <<>> /\ inbox' = Tail(inbox))
    BY <1>1 DEF addScriptTerminal, addTerminal, ProfileRefused, spawnRestoredTerminals,
                ProfileTrusted, spawnPendingTerminal, Spawned, SpawnCancelled, SpawnFailed,
                CancelAnswered, Receive
  <2>3. \A r \in requests' : r \in requests \/ r.job # "exit"
    <3>1. CASE \/ \E id \in Ids : \E task \in BOOLEAN : addScriptTerminal(id, task)
               \/ addTerminal \/ ProfileRefused \/ \E id \in Ids : ProfileTrusted(id)
               \/ Spawned \/ SpawnFailed \/ CancelAnswered
      BY <3>1 DEF addScriptTerminal, addTerminal, ProfileRefused, ProfileTrusted, Spawned,
                  SpawnFailed, CancelAnswered
    <3>2. ASSUME NEW id \in Ids, spawnPendingTerminal(id)
          PROVE  \A r \in requests' : r \in requests \/ r.job # "exit"
      <4>1. requests' = requests \cup NewCalls("create", {id})
        BY <3>2 DEF spawnPendingTerminal
      <4>2. QED
        BY <4>1, NewCallsAre
    <3>3. CASE spawnRestoredTerminals
      <4>1. PICK now : requests' = requests \cup NewCalls("create", now)
        BY <3>3 DEF spawnRestoredTerminals
      <4>2. QED
        BY <4>1, NewCallsAre
    <3>4. CASE SpawnCancelled
      <4>1. PICK ids : requests' = requests \cup NewCalls("cancel", ids)
        BY <3>4 DEF SpawnCancelled
      <4>2. QED
        BY <4>1, NewCallsAre
    <3>5. QED
      BY <1>1, <3>1, <3>2, <3>3, <3>4
  <2>4. QED
    BY <2>1, <2>2, <2>3
<1>2. CASE \/ \E id \in Ids : closeTerminal(id) \/ restartTerminal(id)
                              \/ reopenTerminalShell(id) \/ enterShellAfterTask(id)
                              \/ setActiveTerminal(id) \/ closeOtherTerminals(id)
           \/ Closed \/ CloseFailed \/ closeAllProjectTerminals \/ BulkAnswered
           \/ \E pane \in Panes : setTerminalFocusPane(pane)
           \/ activateProject
  <2>1. exit' = exit /\ left' = left
    BY <1>2 DEF closeTerminal, restartTerminal, reopenTerminalShell, enterShellAfterTask,
                setActiveTerminal, closeOtherTerminals, Closed, CloseFailed,
                closeAllProjectTerminals, BulkAnswered, setTerminalFocusPane, activateProject,
                BeginBulk, exitVars
  <2>2. inbox' = inbox \/ (inbox # <<>> /\ inbox' = Tail(inbox))
    BY <1>2 DEF closeTerminal, restartTerminal, reopenTerminalShell, enterShellAfterTask,
                setActiveTerminal, closeOtherTerminals, Closed, CloseFailed,
                closeAllProjectTerminals, BulkAnswered, setTerminalFocusPane, activateProject,
                BeginBulk, Receive
  <2>3. \A r \in requests' : r \in requests \/ r.job # "exit"
    <3>1. CASE \/ Closed \/ CloseFailed \/ BulkAnswered \/ activateProject
               \/ \E pane \in Panes : setTerminalFocusPane(pane)
               \/ \E id \in Ids : setActiveTerminal(id)
      BY <3>1 DEF Closed, CloseFailed, BulkAnswered, activateProject, setTerminalFocusPane,
                  setActiveTerminal
    <3>2. ASSUME NEW id \in Ids, restartTerminal(id) \/ reopenTerminalShell(id)
          PROVE  \A r \in requests' : r \in requests \/ r.job # "exit"
      <4>1. requests' = requests \/ requests' = requests \cup NewCalls("restart", {id})
        BY <3>2 DEF restartTerminal, reopenTerminalShell, BeginRestart
      <4>2. QED
        BY <4>1, NewCallsAre
    <3>3. ASSUME NEW id \in Ids, closeTerminal(id) \/ enterShellAfterTask(id)
          PROVE  \A r \in requests' : r \in requests \/ r.job # "exit"
      <4>1. \/ requests' = requests \cup NewCalls("close", Killed({id}))
            \/ requests' = requests \cup NewCalls("check", {id})
        BY <3>3 DEF closeTerminal, enterShellAfterTask
      <4>2. QED
        BY <4>1, NewCallsAre
    <3>4. ASSUME NEW b, BeginBulk(b)
          PROVE  \A r \in requests' : r \in requests \/ r.job # "exit"
      <4>1. requests' = requests \cup NewCalls("bulk", Killed(b.ids))
        BY <3>4 DEF BeginBulk
      <4>2. QED
        BY <4>1, NewCallsAre
    <3>5. ASSUME NEW id \in Ids, closeOtherTerminals(id) \/ closeAllProjectTerminals
          PROVE  \A r \in requests' : r \in requests \/ r.job # "exit"
      BY <3>4, <3>5 DEF closeOtherTerminals, closeAllProjectTerminals
    <3>6. QED
      BY <1>2, <3>1, <3>2, <3>3, <3>5, TerminalConstants
  <2>4. QED
    BY <2>1, <2>2, <2>3
<1>3. CASE \/ CheckFindsTask \/ CheckFindsNothing \/ CheckDropped
           \/ \E job \in {"restart", "shell"} : RestartAnswered(job)
           \/ ExitExpected \/ ExitCuts \/ \E quick \in BOOLEAN : ExitEnds(quick)
  <2>1. exit' = exit /\ left' = left
    BY <1>3 DEF CheckFindsTask, CheckFindsNothing, CheckDropped, RestartAnswered, ExitExpected,
                ExitCuts, ExitEnds, exitVars
  <2>2. inbox' = inbox \/ (inbox # <<>> /\ inbox' = Tail(inbox))
    BY <1>3 DEF CheckFindsTask, CheckFindsNothing, CheckDropped, RestartAnswered, ExitExpected,
                ExitCuts, ExitEnds, Receive
  <2>3. \A r \in requests' : r \in requests \/ r.job # "exit"
    <3>1. CASE \/ CheckFindsTask \/ CheckDropped \/ ExitExpected \/ ExitCuts
               \/ \E quick \in BOOLEAN : ExitEnds(quick)
      BY <3>1 DEF CheckFindsTask, CheckDropped, ExitExpected, ExitCuts, ExitEnds
    <3>2. CASE CheckFindsNothing
      <4> PICK it : it = Subject
        OBVIOUS
      <4>1. requests' = requests \/ requests' = requests \cup NewCalls("shell", {it})
        BY <3>2 DEF CheckFindsNothing, BeginRestart
      <4>2. QED
        BY <4>1, NewCallsAre
    <3>3. ASSUME NEW job, RestartAnswered(job)
          PROVE  \A r \in requests' : r \in requests \/ r.job # "exit"
      <4>1. PICK now : requests' = requests \cup NewCalls("create", now)
        BY <3>3 DEF RestartAnswered
      <4>2. QED
        BY <4>1, NewCallsAre
    <3>4. QED
      BY <1>3, <3>1, <3>2, <3>3
  <2>4. QED
    BY <2>1, <2>2, <2>3
<1>4. QED
  BY <1>1, <1>2, <1>3 DEF Store

LEMMA NextAsks == ShellInv /\ ExitIsAsked /\ Next => ExitIsAsked'
<1>1. SUFFICES ASSUME ShellInv, ExitIsAsked, Next PROVE ExitIsAsked'
  OBVIOUS
<1> USE DEF ShellInv, TermInv
<1>2. CASE Store
  <2>1. Told' \subseteq Told
    BY <1>1, <1>2, StoreAsks, InboxTaken DEF Told
  <2>2. Busy({"exit"})' \subseteq Busy({"exit"})
    BY <1>2, <2>1, StoreAsks DEF Busy, Calls
  <2>3. QED
    BY <1>1, <1>2, <2>2, StoreAsks DEF ExitIsAsked
<1>3. CASE Backend
  <2>1. BackendCalls
    BY <1>1, <1>3, BackendAsks
  <2>2. Busy({"exit"})' \subseteq Busy({"exit"})
    BY <2>1 DEF Busy, BackendCalls
  <2>3. QED
    BY <1>1, <2>1, <2>2 DEF ExitIsAsked, BackendCalls
<1>4. CASE \/ pauseTerminalSpawnsForExit \/ Paused \/ PauseGivenUp
           \/ resumeTerminalSpawnsAfterExit \/ ExitAllTheSame
  <2>1. requests' = requests /\ inbox' = inbox
    BY <1>4 DEF pauseTerminalSpawnsForExit, Paused, PauseGivenUp, resumeTerminalSpawnsAfterExit,
                ExitAllTheSame, exitFrame
  <2>2. Busy({"exit"})' = Busy({"exit"})
    BY <2>1 DEF Busy, Calls, Told
  <2>3. QED
    BY <1>1, <1>4, <2>2 DEF ExitIsAsked, pauseTerminalSpawnsForExit, Paused, PauseGivenUp,
                resumeTerminalSpawnsAfterExit, ExitAllTheSame, AllAnswered
<1>5. CASE EndLeaving
  BY <1>5 DEF ExitIsAsked, EndLeaving
<1>6. CASE ExitKilled \/ ExitKillFailed
  <2>1. /\ requests' = requests /\ inbox # <<>> /\ inbox' = Tail(inbox)
        /\ exit' \in {exit, "gone"}
    BY <1>6 DEF ExitKilled, ExitKillFailed, Receive, exitVars
  <2>2. Told' \subseteq Told
    BY <1>1, <2>1, InboxTaken
  <2>3. Busy({"exit"})' \subseteq Busy({"exit"})
    BY <2>1, <2>2 DEF Busy, Calls
  <2>4. QED
    BY <1>1, <2>1, <2>3 DEF ExitIsAsked
<1>7. QED
  BY <1>1, <1>2, <1>3, <1>4, <1>5, <1>6 DEF Next, Exit

\* A terminal that is fair after a step was so before, but for the step that takes the list.
LEMMA FairBefore ==
  ASSUME ShellInv, ExitIsAsked, [Next]_vars, NEW id, Counted(id)'
  PROVE  Counted(id) /\ (Fair(id)' => Fair(id) \/ Paused)
<1>1. Clean(id)
  BY CleanBefore DEF Counted
<1>2. CASE UNCHANGED vars
  <2>1. OvertakenSoFar' = OvertakenSoFar /\ left' = left /\ exit' = exit
    BY <1>2 DEF vars, memory, OvertakenSoFar, Busy, Calls, Told, storeVars, exitVars, Live
  <2>2. QED
    BY <1>1, <2>1 DEF Fair, Counted, Early
<1>3. CASE Next
  <2>1. OvertakenSoFar \subseteq OvertakenSoFar'
    BY <1>3, NextRemembers DEF Remember, OvertakenSoFar
  <2>2. CASE Store \/ Backend
    <3>1. left' = left /\ exit' = exit
      BY <2>2, StoreAsks, BackendAsks DEF BackendCalls
    <3>2. QED
      BY <1>1, <2>1, <3>1 DEF Fair, Counted, Early
  <2>3. CASE Exit
    <3>1. left \subseteq left' /\ (Early => Early' \/ Paused)
      <4>1. CASE pauseTerminalSpawnsForExit \/ PauseGivenUp \/ resumeTerminalSpawnsAfterExit
        BY <4>1 DEF pauseTerminalSpawnsForExit, PauseGivenUp, resumeTerminalSpawnsAfterExit,
                    Early
      <4>2. CASE EndLeaving \/ ExitAllTheSame
        BY <4>2 DEF EndLeaving, ExitAllTheSame, Early
      <4>3. CASE Paused
        BY <4>3 DEF Paused
      <4>4. CASE ExitKillFailed
        BY <4>4 DEF ExitKillFailed, exitVars, Early
      <4>5. CASE ExitKilled
        <5>1. left' = left /\ inbox # <<>> /\ Head(inbox).job = "exit"
          BY <4>5 DEF ExitKilled, Receive
        <5>2. Head(inbox) \in Told
          BY <5>1, InboxHead DEF Told, ShellInv, TermInv, termTypeOK
        <5>3. ~Early
          BY <5>1, <5>2 DEF ExitIsAsked, Busy, Calls, Early
        <5>4. QED
          BY <5>1, <5>3
      <4>6. QED
        BY <2>3, <4>1, <4>2, <4>3, <4>4, <4>5 DEF Exit
    <3>2. QED
      BY <1>1, <2>1, <3>1 DEF Fair, Counted
  <2>4. QED
    BY <1>3, <2>2, <2>3 DEF Next
<1>4. QED
  BY <1>2, <1>3

LEMMA LeavingInductive ==
  ShellInv /\ SettledInv /\ LeavingInv /\ [Next]_vars => LeavingInv'
<1>1. SUFFICES ASSUME ShellInv, SettledInv, LeavingInv, [Next]_vars PROVE LeavingInv'
  OBVIOUS
<1>2. ASSUME NEW id \in Ids, Counted(id)'
      PROVE  /\ Counted(id) /\ Leaves(id) /\ Settled(id)
             /\ Fair(id)' => Fair(id) \/ Paused
  <2>1. Counted(id) /\ (Fair(id)' => Fair(id) \/ Paused)
    BY <1>1, <1>2, FairBefore DEF LeavingInv
  <2>2. QED
    BY <1>1, <2>1 DEF LeavingInv, SettledInv, Counted
<1>3. CASE UNCHANGED vars
  <2>1. /\ tabs' = tabs /\ held' = held /\ requests' = requests /\ inbox' = inbox
        /\ shells' = shells /\ exit' = exit /\ leaving' = leaving
    BY <1>3 DEF vars, storeVars, exitVars
  <2>2. ExitIsAsked'
    BY <1>1, <2>1 DEF LeavingInv, ExitIsAsked, Busy, Calls, Told
  <2>3. ASSUME NEW id \in Ids, Counted(id)' PROVE Leaves(id)'
    <3>1. Leaves(id) /\ (Fair(id)' => Fair(id))
      BY <1>2, <2>1, <2>3 DEF Paused
    <3>2. QED
      BY <2>1, <3>1, ExitMoves DEF Leaves, Ends, Early
  <2>4. QED
    BY <2>2, <2>3 DEF LeavingInv
<1>4. CASE Next
  <2>1. ExitIsAsked'
    BY <1>1, <1>4, NextAsks DEF LeavingInv
  <2>2. ASSUME NEW id \in Ids, Counted(id)' PROVE Leaves(id)'
    <3>1. CASE Store \/ Backend
      <4>1. exit' = exit
        BY <1>1, <3>1, StoreAsks, BackendAsks DEF BackendCalls
      <4>2. Fair(id)' => Fair(id)
        BY <1>2, <2>2, <4>1 DEF Paused
      <4>3. Clean(id) /\ Settled(id) /\ Leaves(id)
        BY <1>2, <2>2 DEF Counted
      <4>4. QED
        BY <1>1, <3>1, <4>2, <4>3, LeavesStore, LeavesBackend DEF LeavingInv
    <3>2. CASE Exit
      BY <1>1, <1>2, <2>2, <3>2, LeavesExit DEF LeavingInv
    <3>3. QED
      BY <1>4, <3>1, <3>2 DEF Next
  <2>3. QED
    BY <2>1, <2>2 DEF LeavingInv
<1>5. QED
  BY <1>1, <1>3, <1>4

\* When the window is destroyed no shell stays behind and none is still to be created: but for
\* kills that failed or went to the wrong table, terminals restarted or swept while they were
\* being created, and overtaken creations that were under way when an exit took its list.
THEOREM ExitLeavesNoShell == Spec => []ExitLeavesNothing
<1>1. ASSUME ShellInv, LeavingInv PROVE ExitLeavesNothing
  <2>1. SUFFICES ASSUME exit = "gone",
                        NEW id \in shells \cup {r.id : r \in {q \in requests : q.job = "create"}},
                        id \notin stray \cup CrossedSoFar \cup MisroutedSoFar \cup left
                 PROVE  FALSE
    BY DEF ExitLeavesNothing
  <2>2. id \in shells \cup Busy({"create"})
    BY DEF Busy, Calls
  <2>3. id \in Ids
    BY <1>1 DEF ShellInv, TermInv, termTypeOK, Request
  <2>4. Fair(id) /\ Leaves(id)
    BY <1>1, <2>1, <2>3 DEF LeavingInv, Fair, Counted, Clean, Early
  <2>5. QED
    BY <2>1, <2>2, <2>4 DEF Leaves, Ends, Early
<1>2. QED
  BY <1>1, InitShellInv, NextShellInv, InitSettled, SettledInductive, InitLeaving,
     LeavingInductive, PTL DEF Spec
=============================================================================
