----------------------------- MODULE HostRuntime_proofs -----------------------------
(***************************************************************************)
(* Proofs about HostRuntime, for any number of acquirers, sessions and     *)
(* concurrent invalidations: nothing from before an invalidation is cached *)
(* or returned after it, and a host is prepared again only for a cause.    *)
(***************************************************************************)
EXTENDS HostRuntime, TLAPS

\* What is cached is no older than any invalidation that has cleared it, and
\* an empty cache is a cause to prepare.
Cache ==
    /\ forgotten <= generation
    /\ ready # NoReady => ready.access # 0 /\ ready.asOf >= forgotten
    /\ ready = NoReady => cause
    /\ \A i \in Invalidators :
        /\ inv[i].gen <= generation
        /\ inv[i].at = "failure" /\ ready # NoReady => ready.asOf >= inv[i].gen

\* An acquirer at work: its session, its copy and the generations it knows.
Work ==
    \A c \in Callers :
        /\ pc[c] # "idle" => sess[c] \in Sessions /\ answer[c] = NoAnswer
        /\ floor[c] <= forgotten
        /\ pc[c] \in Inside => floor[c] <= seen[c] /\ seen[c] <= generation
        /\ pc[c] \in {"digest", "probe", "store"} => copy[c].asOf >= floor[c]
        /\ pc[c] \in {"store", "verify", "publish"} => copy[c].access # 0
        /\ pc[c] = "clear" => cause

IInv == TypeOK /\ Cache /\ Work /\ AnswerIsCurrent

-------------------------------------------------------------------------------
\* The empty cache and the empty answer are of their types.
LEMMA NothingTypes ==
    /\ NoReady \in ReadyType
    /\ NoAnswer \in [access : Access, asOf : Generation]
    /\ 0 \in Generation
  BY RuntimeAssumption DEF NoReady, Ready, ReadyType, NoAnswer, Access, Generation

\* The initial state satisfies the invariant.
LEMMA InitIInv == Init => IInv
<1> SUFFICES ASSUME Init PROVE IInv
  OBVIOUS
<1>1. TypeOK
  <2>1. /\ pc \in [Callers -> Inside \cup {"idle", "wait"}]
        /\ \A c \in Callers : pc[c] \in Inside <=> gate = c
    BY RuntimeAssumption DEF Init, Inside
  <2>2. copy \in [Callers -> ReadyType]
    BY NothingTypes DEF Init
  <2>3. answer \in [Callers -> [access : Access, asOf : Generation]]
    BY NothingTypes DEF Init
  <2>4. inv \in [Invalidators -> [at : {"idle", "ready", "failure"}, gen : Generation]]
    BY NothingTypes DEF Init
  <2>5. gate \in Callers \cup {Nobody} /\ sess \in [Callers -> Sessions \cup {Nobody}]
    BY DEF Init
  <2>6. /\ seen \in [Callers -> Generation] /\ floor \in [Callers -> Generation]
        /\ generation \in Generation /\ forgotten \in Generation
    BY NothingTypes DEF Init
  <2>7. ready \in ReadyType /\ failure \in BOOLEAN /\ cause \in BOOLEAN
    BY NothingTypes DEF Init
  <2>8. daemon \in 1..MaxDaemon
    BY RuntimeAssumption DEF Init
  <2>9. QED
    BY <2>1, <2>2, <2>3, <2>4, <2>5, <2>6, <2>7, <2>8 DEF TypeOK
<1>2. Cache
  BY DEF Init, Cache, NoReady, Ready
<1>3. Work /\ AnswerIsCurrent
  BY DEF Init, Work, AnswerIsCurrent, Inside
<1>4. QED
  BY <1>1, <1>2, <1>3 DEF IInv

\* An acquirer that ends leaves its locals empty and the gate to nobody.
LEMMA DropTypes ==
    ASSUME TypeOK, NEW c \in Callers, pc[c] \in Inside, Drop(c)
    PROVE  /\ gate' \in Callers \cup {Nobody}
           /\ pc' \in [Callers -> Inside \cup {"idle", "wait"}]
           /\ \A d \in Callers : pc'[d] \in Inside <=> gate' = d
           /\ sess' \in [Callers -> Sessions \cup {Nobody}]
           /\ seen' \in [Callers -> Generation]
           /\ copy' \in [Callers -> ReadyType]
  BY NothingTypes, RuntimeAssumption DEF TypeOK, Drop, Goto, Inside

\* An acquirer that goes on inside keeps the gate.
LEMMA GotoTypes ==
    ASSUME TypeOK, NEW c \in Callers, pc[c] \in Inside,
           NEW l \in Inside, Goto(c, l), gate' = gate
    PROVE  /\ gate' \in Callers \cup {Nobody}
           /\ pc' \in [Callers -> Inside \cup {"idle", "wait"}]
           /\ \A d \in Callers : pc'[d] \in Inside <=> gate' = d
  BY DEF TypeOK, Goto

\* An answer of its type is returned.
LEMMA ReturnTypes ==
    ASSUME TypeOK, NEW c \in Callers,
           NEW a \in [access : Access, asOf : Generation], Return(c, a)
    PROVE  answer' \in [Callers -> [access : Access, asOf : Generation]]
  BY DEF TypeOK, Return

\* A step that ends acquire keeps the types.
LEMMA EndTypes ==
    ASSUME TypeOK, NEW c \in Callers, pc[c] \in Inside,
           NEW a \in [access : Access, asOf : Generation], Return(c, a),
           ready' \in ReadyType, failure' \in BOOLEAN, cause' \in BOOLEAN,
           UNCHANGED <<generation, floor, inv, daemon, forgotten>>
    PROVE  TypeOK'
<1>1. Drop(c)
  BY DEF Return
<1>2. answer' \in [Callers -> [access : Access, asOf : Generation]]
  BY ReturnTypes
<1>3. QED
  BY <1>1, <1>2, DropTypes DEF TypeOK

\* A step that stays inside acquire keeps the types.
LEMMA StayTypes ==
    ASSUME TypeOK, NEW c \in Callers, pc[c] \in Inside,
           NEW l \in Inside, Goto(c, l),
           ready' \in ReadyType, failure' \in BOOLEAN, cause' \in BOOLEAN,
           copy' \in [Callers -> ReadyType],
           UNCHANGED <<gate, sess, seen, answer,
                       generation, floor, inv, daemon, forgotten>>
    PROVE  TypeOK'
  BY GotoTypes DEF TypeOK

\* What is published is of its type, and so is the answer.
LEMMA PublishTypes ==
    ASSUME TypeOK, NEW c \in Callers, sess[c] \in Sessions
    PROVE  /\ Ready(copy[c].access, copy[c].sessions \cup {sess[c]}, seen[c])
                 \in ReadyType
           /\ [access |-> copy[c].access, asOf |-> seen[c]]
                 \in [access : Access, asOf : Generation]
           /\ Ready(daemon, {}, seen[c]) \in ReadyType
<1>1. /\ copy[c].access \in Access /\ copy[c].sessions \subseteq Sessions
      /\ seen[c] \in Generation
  BY DEF TypeOK, ReadyType
<1>2. daemon \in Access
  BY RuntimeAssumption DEF TypeOK, Access
<1>3. QED
  BY <1>1, <1>2 DEF Ready, ReadyType

-------------------------------------------------------------------------------

-------------------------------------------------------------------------------
(* The steps *)

\* A new call knows nothing yet and has no answer.
LEMMA CallStep ==
    ASSUME IInv, NEW c \in Callers, NEW s \in Sessions, Call(c, s)
    PROVE  IInv'
<1>1. TypeOK'
  BY NothingTypes, RuntimeAssumption DEF IInv, TypeOK, Inside, cells, Goto, Call
<1>2. Cache'
  BY DEF IInv, Cache, cells, Goto, Call
<1>3. Work'
  BY DEF IInv, TypeOK, Work, Inside, NoAnswer, cells, Goto, Call
<1>4. AnswerIsCurrent'
  BY DEF IInv, TypeOK, Work, AnswerIsCurrent, Inside, NoAnswer, cells, Goto, Call
<1>5. QED
  BY <1>1, <1>2, <1>3, <1>4 DEF IInv

\* At the gate, what is finished is no newer than the generation loaded.
LEMMA EnterStep ==
    ASSUME IInv, NEW c \in Callers, Enter(c)
    PROVE  IInv'
<1>1. TypeOK'
  BY RuntimeAssumption DEF IInv, TypeOK, Inside, Goto, Enter
<1>2. Cache'
  BY DEF IInv, TypeOK, Cache, Generation, NoReady, Goto, Enter
<1>3. Work'
  BY DEF IInv, TypeOK, Cache, Work, Inside, Generation, Goto, Enter
<1>4. AnswerIsCurrent'
  BY DEF IInv, TypeOK, Work, AnswerIsCurrent, Inside, Goto, Enter
<1>5. QED
  BY <1>1, <1>2, <1>3, <1>4 DEF IInv

\* The clone is as current as the cache it is taken from.
LEMMA CloneStep ==
    ASSUME IInv, NEW c \in Callers, Clone(c)
    PROVE  IInv'
<1>1. TypeOK'
  BY NothingTypes DEF IInv, TypeOK, Inside, cells, Goto, Clone
<1>2. Cache'
  BY DEF IInv, TypeOK, Cache, Work, cells, Goto, Clone
<1>3. Work'
  BY RuntimeAssumption DEF IInv, TypeOK, Cache, Work, Inside, ReadyType,
      Generation, Ready, NoReady, cells, Goto, Clone
<1>4. AnswerIsCurrent'
  BY DEF IInv, TypeOK, Work, AnswerIsCurrent, Inside, cells, Goto, Clone
<1>5. QED
  BY <1>1, <1>2, <1>3, <1>4 DEF IInv

\* A clone this session knows is as current as its floor.
LEMMA DigestStep ==
    ASSUME IInv, NEW c \in Callers, Digest(c)
    PROVE  IInv'
<1>1. TypeOK'
  <2>1. CASE Fail(c) /\ UNCHANGED cause
    BY <2>1, NothingTypes, EndTypes DEF IInv, Digest, Fail, Inside, TypeOK
  <2>2. CASE Goto(c, "clear") /\ cause' = TRUE /\ UNCHANGED held
    BY <2>2, StayTypes DEF IInv, Digest, held, locals, Inside, TypeOK
  <2>3. CASE Goto(c, "probe") /\ UNCHANGED <<held, cause>>
    BY <2>3, StayTypes DEF IInv, Digest, held, locals, Inside, TypeOK
  <2>4. CASE /\ Return(c, [access |-> copy[c].access, asOf |-> copy[c].asOf])
             /\ UNCHANGED cause
    BY <2>4, EndTypes DEF IInv, Digest, Inside, TypeOK, ReadyType
  <2>5. QED
    BY <2>1, <2>2, <2>3, <2>4 DEF Digest
<1>2. Cache'
  BY DEF IInv, TypeOK, Cache, Generation, NoReady, held, locals, Goto, Drop,
      Return, Fail, Digest
<1>3. Work'
  BY DEF IInv, TypeOK, Work, Inside, NoAnswer, held, locals, Goto, Drop, Return,
      Fail, Digest
<1>4. AnswerIsCurrent'
  BY DEF IInv, TypeOK, Work, AnswerIsCurrent, Inside, NoAnswer, held, locals,
      Goto, Drop, Return, Fail, Digest
<1>5. QED
  BY <1>1, <1>2, <1>3, <1>4 DEF IInv

\* A probed clone is the access of the running daemon.
LEMMA ProbeStep ==
    ASSUME IInv, NEW c \in Callers, Probe(c)
    PROVE  IInv'
<1>1. TypeOK'
  BY DEF IInv, TypeOK, Inside, cells, Goto, Probe
<1>2. Cache'
  BY DEF IInv, TypeOK, Cache, Work, cells, Goto, Probe
<1>3. Work'
  BY RuntimeAssumption DEF IInv, TypeOK, Work, Inside, Ready, cells, Goto, Probe
<1>4. AnswerIsCurrent'
  BY DEF IInv, TypeOK, Work, AnswerIsCurrent, Inside, cells, Goto, Probe
<1>5. QED
  BY <1>1, <1>2, <1>3, <1>4 DEF IInv

\* A probed clone is stored only for the generation it was loaded in.
LEMMA StoreStep ==
    ASSUME IInv, NEW c \in Callers, Store(c)
    PROVE  IInv'
<1>1. TypeOK'
  <2>1. CASE generation = seen[c]
    BY <2>1, PublishTypes, EndTypes DEF IInv, Work, Store, Publish, Inside, TypeOK
  <2>2. CASE generation # seen[c]
    BY <2>2, NothingTypes, EndTypes DEF IInv, Store, Publish, Fail, Inside, TypeOK
  <2>3. QED
    BY <2>1, <2>2 DEF Store
<1>2. Cache'
  BY DEF IInv, TypeOK, Cache, Work, Inside, ReadyType, Generation, Ready,
      NoReady, Goto, Drop, Return, Fail, Publish, Store
<1>3. Work'
  BY DEF IInv, TypeOK, Work, Inside, NoAnswer, Goto, Drop, Return, Fail, Publish,
      Store
<1>4. AnswerIsCurrent'
  BY DEF IInv, TypeOK, Work, AnswerIsCurrent, Inside, NoAnswer, Goto, Drop,
      Return, Fail, Publish, Store
<1>5. QED
  BY <1>1, <1>2, <1>3, <1>4 DEF IInv

\* An emptied cache leaves its cause behind.
LEMMA ClearStep ==
    ASSUME IInv, NEW c \in Callers, Clear(c)
    PROVE  IInv'
<1>1. TypeOK'
  <2>1. CASE failure /\ Fail(c)
    BY <2>1, NothingTypes, EndTypes DEF IInv, Clear, Fail, Inside, TypeOK
  <2>2. CASE Goto(c, "prepare") /\ UNCHANGED held
    BY <2>2, NothingTypes, StayTypes DEF IInv, Clear, held, locals, Inside, TypeOK
  <2>3. QED
    BY <2>1, <2>2 DEF Clear
<1>2. Cache'
  BY DEF IInv, TypeOK, Cache, Work, Generation, NoReady, held, locals, Goto,
      Drop, Return, Fail, Clear
<1>3. Work'
  BY DEF IInv, TypeOK, Work, Inside, NoAnswer, held, locals, Goto, Drop, Return,
      Fail, Clear
<1>4. AnswerIsCurrent'
  BY DEF IInv, TypeOK, Work, AnswerIsCurrent, Inside, NoAnswer, held, locals,
      Goto, Drop, Return, Fail, Clear
<1>5. QED
  BY <1>1, <1>2, <1>3, <1>4 DEF IInv

\* What is prepared is the access of the running daemon.
LEMMA PrepareStep ==
    ASSUME IInv, NEW c \in Callers, Prepare(c)
    PROVE  IInv'
<1>1. TypeOK'
  <2>1. CASE Goto(c, "verify") /\ copy' = [copy EXCEPT ![c] = Ready(daemon, {}, seen[c])]
    BY <2>1, PublishTypes, StayTypes
    DEF IInv, Work, Prepare, held, locals, cells, Inside, TypeOK, Ready, ReadyType
  <2>2. CASE Goto(c, "failed") /\ UNCHANGED copy
    BY <2>2, StayTypes DEF IInv, Prepare, held, locals, cells, Inside, TypeOK
  <2>3. QED
    BY <2>1, <2>2 DEF Prepare
<1>2. Cache'
  BY DEF IInv, Cache, cells, Goto, Prepare
<1>3. Work'
  BY RuntimeAssumption DEF IInv, TypeOK, Work, Inside, Ready, cells, Goto, Prepare
<1>4. AnswerIsCurrent'
  BY DEF IInv, TypeOK, Work, AnswerIsCurrent, Inside, cells, Goto, Prepare
<1>5. QED
  BY <1>1, <1>2, <1>3, <1>4 DEF IInv

\* An error changes nothing that is cached.
LEMMA CheckFailedStep ==
    ASSUME IInv, NEW c \in Callers, CheckFailed(c)
    PROVE  IInv'
<1>1. TypeOK'
  <2>1. CASE generation = seen[c]
    BY <2>1, StayTypes DEF IInv, CheckFailed, held, locals, Inside, TypeOK
  <2>2. CASE generation # seen[c]
    BY <2>2, NothingTypes, EndTypes DEF IInv, CheckFailed, Fail, Inside, TypeOK
  <2>3. QED
    BY <2>1, <2>2 DEF CheckFailed
<1>2. Cache'
  BY DEF IInv, TypeOK, Cache, Generation, NoReady, held, locals, Goto, Drop,
      Return, Fail, CheckFailed
<1>3. Work'
  BY DEF IInv, TypeOK, Work, Inside, NoAnswer, held, locals, Goto, Drop, Return,
      Fail, CheckFailed
<1>4. AnswerIsCurrent'
  BY DEF IInv, TypeOK, Work, AnswerIsCurrent, Inside, NoAnswer, held, locals,
      Goto, Drop, Return, Fail, CheckFailed
<1>5. QED
  BY <1>1, <1>2, <1>3, <1>4 DEF IInv

\* A recorded failure changes nothing that is ready.
LEMMA RecordFailureStep ==
    ASSUME IInv, NEW c \in Callers, RecordFailure(c)
    PROVE  IInv'
<1>1. TypeOK'
  BY NothingTypes, RuntimeAssumption DEF IInv, TypeOK, Inside, Goto, Drop,
      Return, Fail, RecordFailure
<1>2. Cache'
  BY DEF IInv, TypeOK, Cache, Generation, NoReady, Goto, Drop, Return, Fail,
      RecordFailure
<1>3. Work'
  BY DEF IInv, TypeOK, Work, Inside, NoAnswer, Goto, Drop, Return, Fail,
      RecordFailure
<1>4. AnswerIsCurrent'
  BY DEF IInv, TypeOK, Work, AnswerIsCurrent, Inside, NoAnswer, Goto, Drop,
      Return, Fail, RecordFailure
<1>5. QED
  BY <1>1, <1>2, <1>3, <1>4 DEF IInv

\* Verifying the binary changes nothing that is cached.
LEMMA VerifyStep ==
    ASSUME IInv, NEW c \in Callers, Verify(c)
    PROVE  IInv'
<1>1. TypeOK'
  <2>1. CASE Fail(c)
    BY <2>1, NothingTypes, EndTypes DEF IInv, Verify, Fail, Inside, TypeOK
  <2>2. CASE Goto(c, "publish") /\ UNCHANGED held
    BY <2>2, StayTypes DEF IInv, Verify, held, locals, Inside, TypeOK
  <2>3. QED
    BY <2>1, <2>2 DEF Verify
<1>2. Cache'
  BY DEF IInv, TypeOK, Cache, Generation, NoReady, held, locals, Goto, Drop,
      Return, Fail, Verify
<1>3. Work'
  BY DEF IInv, TypeOK, Work, Inside, NoAnswer, held, locals, Goto, Drop, Return,
      Fail, Verify
<1>4. AnswerIsCurrent'
  BY DEF IInv, TypeOK, Work, AnswerIsCurrent, Inside, NoAnswer, held, locals,
      Goto, Drop, Return, Fail, Verify
<1>5. QED
  BY <1>1, <1>2, <1>3, <1>4 DEF IInv

\* What was prepared is published only for the generation it was begun in.
LEMMA PublishPreparedStep ==
    ASSUME IInv, NEW c \in Callers, PublishPrepared(c)
    PROVE  IInv'
<1>1. TypeOK'
  <2>1. CASE generation = seen[c]
    BY <2>1, PublishTypes, EndTypes
    DEF IInv, Work, PublishPrepared, Publish, Inside, TypeOK
  <2>2. CASE generation # seen[c]
    BY <2>2, NothingTypes, EndTypes
    DEF IInv, PublishPrepared, Publish, Fail, Inside, TypeOK
  <2>3. QED
    BY <2>1, <2>2 DEF PublishPrepared
<1>2. Cache'
  BY DEF IInv, TypeOK, Cache, Work, Inside, ReadyType, Generation, Ready,
      NoReady, Goto, Drop, Return, Fail, Publish, PublishPrepared
<1>3. Work'
  BY DEF IInv, TypeOK, Work, Inside, NoAnswer, Goto, Drop, Return, Fail, Publish,
      PublishPrepared
<1>4. AnswerIsCurrent'
  BY DEF IInv, TypeOK, Work, AnswerIsCurrent, Inside, PublishPrepared, Publish,
      Fail, Return, Drop
<1>5. QED
  BY <1>1, <1>2, <1>3, <1>4 DEF IInv

\* A dropped future takes its locals along and leaves the cache alone.
LEMMA CancelStep ==
    ASSUME IInv, NEW c \in Callers, Cancel(c)
    PROVE  IInv'
<1>1. TypeOK'
  BY NothingTypes, RuntimeAssumption DEF IInv, TypeOK, Inside, Goto, Drop, Cancel
<1>2. Cache'
  BY DEF IInv, TypeOK, Cache, Generation, NoReady, Goto, Drop, Cancel
<1>3. Work'
  BY DEF IInv, TypeOK, Work, Inside, Goto, Drop, Cancel
<1>4. AnswerIsCurrent'
  BY DEF IInv, TypeOK, Work, AnswerIsCurrent, Inside, Goto, Drop, Cancel
<1>5. QED
  BY <1>1, <1>2, <1>3, <1>4 DEF IInv

\* An invalidation begins with a generation nobody has seen.
LEMMA BumpStep ==
    ASSUME IInv, NEW i \in Invalidators, Bump(i)
    PROVE  IInv'
<1>1. TypeOK'
  BY RuntimeAssumption DEF IInv, TypeOK, Inside, Generation, locals, acquirer,
      InvTo, Bump
<1>2. Cache'
  BY DEF IInv, TypeOK, Cache, Generation, NoReady, locals, acquirer, InvTo, Bump
<1>3. Work'
  BY DEF IInv, TypeOK, Cache, Work, Inside, Generation, locals, acquirer, InvTo,
      Bump
<1>4. AnswerIsCurrent'
  BY DEF IInv, TypeOK, Work, AnswerIsCurrent, Inside, locals, acquirer, InvTo,
      Bump
<1>5. QED
  BY <1>1, <1>2, <1>3, <1>4 DEF IInv

\* Nothing older than the invalidation stays cached.
LEMMA ForgetReadyStep ==
    ASSUME IInv, NEW i \in Invalidators, ForgetReady(i)
    PROVE  IInv'
<1>1. TypeOK'
  BY NothingTypes DEF IInv, TypeOK, Inside, locals, acquirer, InvTo, ForgetReady
<1>2. Cache'
  BY DEF IInv, TypeOK, Cache, Generation, NoReady, locals, acquirer, InvTo,
      ForgetReady
<1>3. Work'
  BY DEF IInv, TypeOK, Work, Inside, locals, acquirer, InvTo, ForgetReady
<1>4. AnswerIsCurrent'
  BY DEF IInv, TypeOK, Work, AnswerIsCurrent, Inside, locals, acquirer, InvTo,
      ForgetReady
<1>5. QED
  BY <1>1, <1>2, <1>3, <1>4 DEF IInv

\* An invalidation ends; whatever is cached came after its generation.
LEMMA ForgetFailureStep ==
    ASSUME IInv, NEW i \in Invalidators, ForgetFailure(i)
    PROVE  IInv'
<1>1. TypeOK'
  <2>1. inv' \in [Invalidators -> [at : {"idle", "ready", "failure"}, gen : Generation]]
    BY NothingTypes DEF IInv, TypeOK, ForgetFailure, InvTo
  <2>2. forgotten' \in Generation
    BY DEF IInv, TypeOK, ForgetFailure, Larger
  <2>3. QED
    BY <2>1, <2>2 DEF IInv, TypeOK, ForgetFailure, acquirer, locals
<1>2. Cache'
  BY DEF IInv, TypeOK, Cache, Generation, NoReady, locals, acquirer, Larger,
      InvTo, ForgetFailure
<1>3. Work'
  BY DEF IInv, TypeOK, Cache, Work, Inside, Generation, locals, acquirer, Larger,
      InvTo, ForgetFailure
<1>4. AnswerIsCurrent'
  BY DEF IInv, TypeOK, Work, AnswerIsCurrent, Inside, locals, acquirer, Larger,
      InvTo, ForgetFailure
<1>5. QED
  BY <1>1, <1>2, <1>3, <1>4 DEF IInv

\* The conditional invalidation empties the cache in one step.
LEMMA InvalidateIfCurrentStep ==
    ASSUME IInv, NEW a, InvalidateIfCurrent(a)
    PROVE  IInv'
<1>1. TypeOK'
  <2>1. generation' \in Generation /\ forgotten' \in Generation
    BY RuntimeAssumption DEF IInv, TypeOK, InvalidateIfCurrent, Generation
  <2>2. QED
    BY <2>1, NothingTypes DEF IInv, TypeOK, InvalidateIfCurrent, acquirer, locals
<1>2. Cache'
  BY DEF IInv, TypeOK, Cache, Generation, NoReady, locals, acquirer,
      InvalidateIfCurrent
<1>3. Work'
  BY DEF IInv, TypeOK, Cache, Work, Inside, Generation, locals, acquirer,
      InvalidateIfCurrent
<1>4. AnswerIsCurrent'
  BY DEF IInv, TypeOK, Work, AnswerIsCurrent, Inside, locals, acquirer,
      InvalidateIfCurrent
<1>5. QED
  BY <1>1, <1>2, <1>3, <1>4 DEF IInv

\* A restart of the daemon touches no cell.
LEMMA DaemonRestartsStep ==
    ASSUME IInv, DaemonRestarts
    PROVE  IInv'
<1>1. TypeOK'
  BY RuntimeAssumption DEF IInv, TypeOK, Inside, cells, locals, acquirer,
      DaemonRestarts
<1>2. Cache'
  BY DEF IInv, Cache, cells, locals, acquirer, DaemonRestarts
<1>3. Work'
  BY DEF IInv, TypeOK, Work, Inside, cells, locals, acquirer, DaemonRestarts
<1>4. AnswerIsCurrent'
  BY DEF IInv, TypeOK, Work, AnswerIsCurrent, Inside, cells, locals, acquirer,
      DaemonRestarts
<1>5. QED
  BY <1>1, <1>2, <1>3, <1>4 DEF IInv

\* A stuttering step.
LEMMA StutterStep == ASSUME IInv, UNCHANGED vars PROVE IInv'
<1>1. TypeOK'
  BY DEF IInv, TypeOK, vars, cells, acquirer, locals
<1>2. Cache' /\ AnswerIsCurrent'
  BY DEF IInv, Cache, AnswerIsCurrent, vars, cells, acquirer, locals
<1>3. Work'
  BY DEF IInv, Work, vars, cells, acquirer, locals
<1>4. QED
  BY <1>1, <1>2, <1>3 DEF IInv

-------------------------------------------------------------------------------
\* Every step preserves the invariant.
LEMMA NextStep == IInv /\ [Next]_vars => IInv'
<1> SUFFICES ASSUME IInv, [Next]_vars PROVE IInv'
  OBVIOUS
<1>1. ASSUME NEW c \in Callers, NEW s \in Sessions, Call(c, s) PROVE IInv'
  BY <1>1, CallStep
<1>2. ASSUME NEW c \in Callers, Enter(c) PROVE IInv'
  BY <1>2, EnterStep
<1>3. ASSUME NEW c \in Callers, Acquire(c) PROVE IInv'
  BY <1>3, CloneStep, DigestStep, ProbeStep, StoreStep, ClearStep, PrepareStep,
     CheckFailedStep, RecordFailureStep, VerifyStep, PublishPreparedStep
  DEF Acquire
<1>4. ASSUME NEW c \in Callers, Cancel(c) PROVE IInv'
  BY <1>4, CancelStep
<1>5. ASSUME NEW a, InvalidateIfCurrent(a) PROVE IInv'
  BY <1>5, InvalidateIfCurrentStep
<1>6. ASSUME NEW i \in Invalidators, Invalidate(i) PROVE IInv'
  BY <1>6, BumpStep, ForgetReadyStep, ForgetFailureStep DEF Invalidate
<1>7. CASE DaemonRestarts
  BY <1>7, DaemonRestartsStep
<1>8. CASE UNCHANGED vars
  BY <1>8, StutterStep
<1>9. QED
  BY <1>1, <1>2, <1>3, <1>4, <1>5, <1>6, <1>7, <1>8 DEF Next

\* The invariant holds in every behaviour: types, what the cache is worth and
\* what each acquirer knows.
THEOREM RuntimeInvariant == Spec => []IInv
<1>1. QED
  BY InitIInv, NextStep, PTL DEF Spec

\* Whatever the number of acquirers and of concurrent invalidations, nothing
\* from before a finished invalidation is cached.
THEOREM ReadyCurrent == Spec => []ReadyIsCurrent
<1>1. IInv => ReadyIsCurrent
  BY DEF IInv, Cache, ReadyIsCurrent
<1>2. QED
  BY <1>1, RuntimeInvariant, PTL

\* ... and nothing from before it is returned to an acquirer that began after.
THEOREM AnswerCurrent == Spec => []AnswerIsCurrent
<1>1. IInv => AnswerIsCurrent
  BY DEF IInv
<1>2. QED
  BY <1>1, RuntimeInvariant, PTL

\* The host is prepared again only for a cause, by whomever.
THEOREM PrepareNeedsCause == Spec => PreparedForCause
<1>1. ASSUME IInv, [Next]_vars, NEW c \in Callers,
             pc[c] # "prepare", pc'[c] = "prepare"
      PROVE  cause
  <2> USE DEF IInv, TypeOK, Goto
  <2>1. ASSUME NEW d \in Callers, NEW t \in Sessions, Call(d, t) PROVE FALSE
    BY <1>1, <2>1 DEF Call
  <2>2. ASSUME NEW d \in Callers, Enter(d) \/ Cancel(d) PROVE FALSE
    BY <1>1, <2>2 DEF Enter, Cancel, Drop
  <2>3. ASSUME NEW d \in Callers, Acquire(d) PROVE d = c /\ Clear(c)
    <3>1. CASE Clear(d)
      BY <1>1, <3>1 DEF Clear, Fail, Return, Drop
    <3>2. CASE Clone(d) \/ Probe(d) \/ Prepare(d)
      BY <1>1, <3>2 DEF Clone, Probe, Prepare
    <3>3. CASE Digest(d) \/ Verify(d)
      BY <1>1, <3>3 DEF Digest, Verify, Fail, Return, Drop
    <3>4. CASE CheckFailed(d) \/ RecordFailure(d)
      BY <1>1, <3>4 DEF CheckFailed, RecordFailure, Fail, Return, Drop
    <3>5. CASE Store(d) \/ PublishPrepared(d)
      BY <1>1, <3>5 DEF Store, PublishPrepared, Publish, Fail, Return, Drop
    <3>6. QED
      BY <2>3, <3>1, <3>2, <3>3, <3>4, <3>5 DEF Acquire
  <2>4. ASSUME NEW a, InvalidateIfCurrent(a) PROVE FALSE
    BY <1>1, <2>4 DEF InvalidateIfCurrent, acquirer
  <2>5. ASSUME NEW i \in Invalidators, Invalidate(i) PROVE FALSE
    BY <1>1, <2>5 DEF Invalidate, Bump, ForgetReady, ForgetFailure, acquirer
  <2>6. ~DaemonRestarts /\ ~UNCHANGED vars
    BY <1>1 DEF DaemonRestarts, vars, acquirer
  <2>7. Clear(c)
    BY <1>1, <2>1, <2>2, <2>3, <2>4, <2>5, <2>6 DEF Next
  <2>8. QED
    BY <1>1, <2>7 DEF Clear, Work
<1>2. IInv /\ [Next]_vars
        => [\A c \in Callers : pc[c] # "prepare" /\ pc'[c] = "prepare" => cause]_vars
  BY <1>1
<1>3. QED
  BY <1>2, RuntimeInvariant, PTL DEF Spec, PreparedForCause

===============================================================================
