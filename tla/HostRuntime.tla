--------------------------------- MODULE HostRuntime ---------------------------------
(***************************************************************************)
(* The client's cache of the shared daemon of one host: RuntimeEntry of    *)
(* remote_ssh/server/host_runtime.rs.  Every project, file operation and   *)
(* terminal of the host acquires the daemon's access here; the first one   *)
(* prepares it (install, start, HELLO) and the others share the result.    *)
(*                                                                         *)
(* Acquirers take turns at the gate, invalidations do not: generation,     *)
(* ready and failure are three cells with three locks, and an invalidation *)
(* visits them one after the other while an acquirer is at work.           *)
(***************************************************************************)
EXTENDS Naturals

CONSTANTS
    Callers,         \* tasks that acquire the daemon
    Sessions,        \* SSH incarnations they do it for
    Invalidators,    \* tasks that call invalidate()
    MaxGeneration,   \* bound: invalidations in a behaviour
    MaxDaemon,       \* bound: starts of the remote daemon
    Nobody

ASSUME RuntimeAssumption ==
    /\ MaxGeneration \in Nat /\ MaxDaemon \in Nat \ {0}
    /\ Nobody \notin Callers

VARIABLES
    gate,          \* RuntimeEntry.gate: the acquirer that holds it
    generation,    \* RuntimeEntry.generation
    ready,         \* RuntimeEntry.ready
    failure,       \* RuntimeEntry.failure; how old it is is left open
    pc,            \* where each acquirer is
    sess,          \* ... the session it acquires for
    seen,          \* ... the generation it has loaded
    copy,          \* ... its clone of ready, or what it has prepared
    answer,        \* ... what it returned last: an access or an error
    inv,           \* how far each invalidate() has come
    daemon,        \* the running daemon; its token changes with every start
    floor,         \* ghost: `forgotten` when the acquirer loaded generation
    forgotten,     \* ghost: the latest generation a finished invalidation began
    cause          \* ghost: there is a reason to prepare the daemon again

cells == <<gate, generation, ready, failure>>
locals == <<sess, seen, copy>>
held == <<gate, locals, answer>>
acquirer == <<pc, locals, answer, floor>>
vars == <<cells, acquirer, inv, daemon, forgotten, cause>>

\* ReadyDaemon; asOf is a ghost, the generation it was prepared or probed in.
Ready(access, sessions, asOf) ==
    [access |-> access, sessions |-> sessions, asOf |-> asOf]
NoReady == Ready(0, {}, 0)
NoAnswer == [access |-> 0, asOf |-> 0]
Larger(a, b) == IF a > b THEN a ELSE b

Init ==
    /\ gate = Nobody /\ generation = 0 /\ ready = NoReady /\ failure = FALSE
    /\ pc = [c \in Callers |-> "idle"]
    /\ sess = [c \in Callers |-> Nobody]
    /\ seen = [c \in Callers |-> 0] /\ copy = [c \in Callers |-> NoReady]
    /\ answer = [c \in Callers |-> NoAnswer] /\ floor = [c \in Callers |-> 0]
    /\ inv = [i \in Invalidators |-> [at |-> "idle", gen |-> 0]]
    /\ daemon = 1 /\ forgotten = 0 /\ cause = TRUE

-------------------------------------------------------------------------------
(* acquire *)

Goto(c, l) == pc' = [pc EXCEPT ![c] = l]

\* The future ends, by returning or by being dropped: its locals go and so does
\* its guard.
Drop(c) ==
    /\ Goto(c, "idle")
    /\ gate' = IF gate = c THEN Nobody ELSE gate
    /\ sess' = [sess EXCEPT ![c] = Nobody]
    /\ seen' = [seen EXCEPT ![c] = 0]
    /\ copy' = [copy EXCEPT ![c] = NoReady]

Return(c, a) == Drop(c) /\ answer' = [answer EXCEPT ![c] = a]

Fail(c) == Return(c, NoAnswer)

Call(c, s) ==
    /\ pc[c] = "idle"
    /\ Goto(c, "wait")
    /\ sess' = [sess EXCEPT ![c] = s]
    /\ answer' = [answer EXCEPT ![c] = NoAnswer]
    /\ UNCHANGED <<cells, seen, copy, floor, inv, daemon, forgotten, cause>>

\* The gate is free; the generation is loaded behind it.
Enter(c) ==
    /\ pc[c] = "wait" /\ gate = Nobody
    /\ gate' = c
    /\ seen' = [seen EXCEPT ![c] = generation]
    /\ floor' = [floor EXCEPT ![c] = forgotten]
    /\ Goto(c, "clone")
    /\ UNCHANGED <<generation, ready, failure, sess, copy, answer,
                   inv, daemon, forgotten, cause>>

\* ready is cloned; a local binary that has changed makes it worthless.
Clone(c) ==
    /\ pc[c] = "clone"
    /\ copy' = [copy EXCEPT ![c] = ready]
    /\ \/ ready # NoReady /\ Goto(c, "digest") /\ UNCHANGED cause
       \/ ready = NoReady /\ Goto(c, "clear") /\ UNCHANGED cause
       \/ Goto(c, "clear") /\ cause' = TRUE
    /\ UNCHANGED <<cells, sess, seen, answer, floor, inv, daemon, forgotten>>

\* Mutant: an unknown session or an expired TTL prepares again without a probe.
Digest_noProbe(c) ==
    /\ pc[c] = "digest"
    /\ \/ Goto(c, "clear") /\ UNCHANGED held
       \/ /\ sess[c] \in copy[c].sessions
          /\ Return(c, [access |-> copy[c].access, asOf |-> copy[c].asOf])
    /\ UNCHANGED <<generation, ready, failure, floor, inv, daemon, forgotten, cause>>

\* The binary's digest is computed.  A copy this session has used before is
\* good until HEALTH_TTL is over, any other one is probed first.
Digest(c) ==
    /\ pc[c] = "digest"
    /\ \/ Fail(c) /\ UNCHANGED cause
       \/ Goto(c, "clear") /\ cause' = TRUE /\ UNCHANGED held
       \/ Goto(c, "probe") /\ UNCHANGED <<held, cause>>
       \/ /\ sess[c] \in copy[c].sessions
          /\ IF generation = seen[c]
               THEN Return(c, [access |-> copy[c].access, asOf |-> copy[c].asOf])
               ELSE Fail(c)
          /\ UNCHANGED cause
    /\ UNCHANGED <<generation, ready, failure, floor,
                   inv, daemon, forgotten>>

\* HELLO with the cached token: only the daemon that issued it answers.
Probe(c) ==
    /\ pc[c] = "probe"
    /\ \/ copy[c].access = daemon /\ Goto(c, "store") /\ UNCHANGED cause
       \/ Goto(c, "clear") /\ cause' = TRUE
    /\ UNCHANGED <<cells, sess, seen, copy, answer, floor, inv, daemon, forgotten>>

\* Mutant: the generation is not compared again.
Publish_unchecked(c) ==
    /\ ready' = Ready(copy[c].access, copy[c].sessions \cup {sess[c]}, seen[c])
    /\ Return(c, [access |-> copy[c].access, asOf |-> seen[c]])

\* Under the lock of ready: unless there was an invalidation, publish.
Publish(c) ==
    IF generation = seen[c]
      THEN /\ ready' = Ready(copy[c].access, copy[c].sessions \cup {sess[c]}, seen[c])
           /\ Return(c, [access |-> copy[c].access, asOf |-> seen[c]])
      ELSE Fail(c) /\ UNCHANGED ready

\* The probed copy is stored again, now known to this session.
Store(c) ==
    /\ pc[c] = "store"
    /\ Publish(c)
    /\ UNCHANGED <<generation, failure, floor,
                   inv, daemon, forgotten, cause>>

\* Nothing usable is cached: back off after a recent failure or prepare.
Clear(c) ==
    /\ pc[c] = "clear"
    /\ ready' = NoReady
    /\ \/ failure /\ Fail(c)
       \/ Goto(c, "prepare") /\ UNCHANGED held
    /\ UNCHANGED <<generation, failure, floor,
                   inv, daemon, forgotten, cause>>

\* initialize(): prepare_shared_daemon finds or starts the daemon, or fails.
Prepare(c) ==
    /\ pc[c] = "prepare"
    /\ \/ Goto(c, "verify") /\ copy' = [copy EXCEPT ![c] = Ready(daemon, {}, seen[c])]
       \/ Goto(c, "failed") /\ UNCHANGED copy
    /\ UNCHANGED <<cells, sess, seen, answer, floor, inv, daemon, forgotten, cause>>

\* The error is cached, unless there was an invalidation: the check ...
CheckFailed(c) ==
    /\ pc[c] = "failed"
    /\ IF generation = seen[c]
         THEN Goto(c, "record") /\ UNCHANGED held
         ELSE Fail(c)
    /\ UNCHANGED <<generation, ready, failure, floor,
                   inv, daemon, forgotten, cause>>

\* ... and, with no lock held in between, the record.
RecordFailure(c) ==
    /\ pc[c] = "record"
    /\ failure' = TRUE
    /\ Fail(c)
    /\ UNCHANGED <<generation, ready, floor,
                   inv, daemon, forgotten, cause>>

\* The local binary is hashed again before what was prepared is published.
Verify(c) ==
    /\ pc[c] = "verify"
    /\ \/ Fail(c)
       \/ Goto(c, "publish") /\ UNCHANGED held
    /\ UNCHANGED <<generation, ready, failure, floor,
                   inv, daemon, forgotten, cause>>

PublishPrepared(c) ==
    /\ pc[c] = "publish"
    /\ Publish(c)
    /\ IF generation = seen[c]
         THEN failure' = FALSE /\ cause' = FALSE
         ELSE UNCHANGED <<failure, cause>>
    /\ UNCHANGED <<generation, floor, inv, daemon, forgotten>>

\* Mutant: dropping the future does not drop the guard.
Cancel_keepsGate(c) ==
    /\ pc[c] \in {"wait", "digest", "probe", "prepare", "verify"}
    /\ Goto(c, "idle")
    /\ UNCHANGED <<cells, locals, answer, floor, inv, daemon, forgotten, cause>>

\* The future is dropped where it awaits: the callers run under timeouts.
Cancel(c) ==
    /\ pc[c] \in {"wait", "digest", "probe", "prepare", "verify"}
    /\ Drop(c)
    /\ UNCHANGED <<generation, ready, failure, answer, floor,
                   inv, daemon, forgotten, cause>>

\* One step of an acquirer at work.
Acquire(c) ==
    \/ Clone(c) \/ Digest(c) \/ Probe(c) \/ Store(c) \/ Clear(c)
    \/ Prepare(c) \/ CheckFailed(c) \/ RecordFailure(c)
    \/ Verify(c) \/ PublishPrepared(c)

-------------------------------------------------------------------------------
(* invalidate, in three steps, and invalidate_if_current, in one *)

InvTo(i, l, g) == inv' = [inv EXCEPT ![i] = [at |-> l, gen |-> g]]

Bump(i) ==
    /\ inv[i].at = "idle" /\ generation < MaxGeneration
    /\ generation' = generation + 1
    /\ InvTo(i, "ready", generation + 1)
    /\ cause' = TRUE
    /\ UNCHANGED <<gate, ready, failure, acquirer, daemon, forgotten>>

\* Mutant: only the generation and the failure are reset.
ForgetReady_keeps(i) ==
    /\ inv[i].at = "ready"
    /\ InvTo(i, "failure", inv[i].gen)
    /\ UNCHANGED <<cells, acquirer, daemon, forgotten, cause>>

ForgetReady(i) ==
    /\ inv[i].at = "ready"
    /\ ready' = NoReady /\ cause' = TRUE
    /\ InvTo(i, "failure", inv[i].gen)
    /\ UNCHANGED <<gate, generation, failure, acquirer, daemon, forgotten>>

ForgetFailure(i) ==
    /\ inv[i].at = "failure"
    /\ failure' = FALSE
    /\ InvTo(i, "idle", 0)
    /\ forgotten' = Larger(forgotten, inv[i].gen)
    /\ UNCHANGED <<gate, generation, ready, acquirer, daemon, cause>>

\* Somebody could not use an access it was given, now or long ago.  All of it
\* happens under the lock of ready, and only if that access is still the cached one.
InvalidateIfCurrent(a) ==
    /\ ready # NoReady /\ ready.access = a
    /\ generation < MaxGeneration
    /\ generation' = generation + 1
    /\ ready' = NoReady /\ failure' = FALSE /\ cause' = TRUE
    /\ forgotten' = generation + 1
    /\ UNCHANGED <<gate, acquirer, inv, daemon>>

\* The remote daemon stops and a new one starts, with a new token.
DaemonRestarts ==
    /\ daemon < MaxDaemon
    /\ daemon' = daemon + 1
    /\ UNCHANGED <<cells, acquirer, inv, forgotten, cause>>

Invalidate(i) == Bump(i) \/ ForgetReady(i) \/ ForgetFailure(i)

Next ==
    \/ \E c \in Callers :
        \/ \E s \in Sessions : Call(c, s)
        \/ Enter(c) \/ Acquire(c) \/ Cancel(c)
    \/ \E i \in Invalidators : Invalidate(i)
    \/ \E a \in 1..MaxDaemon : InvalidateIfCurrent(a)
    \/ DaemonRestarts

Spec == Init /\ [][Next]_vars

\* Network calls and hashing end (they run under timeouts), and the gate is a
\* tokio::sync::Mutex, which serves its waiters in order.
Fairness ==
    /\ \A c \in Callers : WF_vars(Acquire(c)) /\ SF_vars(Enter(c))
    /\ \A i \in Invalidators : WF_vars(ForgetReady(i) \/ ForgetFailure(i))

FairSpec == Spec /\ Fairness

-------------------------------------------------------------------------------
(* Properties *)

Generation == 0..MaxGeneration
Access == 0..MaxDaemon
ReadyType == [access : Access, sessions : SUBSET Sessions, asOf : Generation]
Inside == {"clone", "digest", "probe", "store", "clear", "prepare", "failed",
           "record", "verify", "publish"}

\* Types, and that exactly the holder of the gate is inside acquire, whatever
\* was cancelled.
TypeOK ==
    /\ gate \in Callers \cup {Nobody} /\ generation \in Generation
    /\ ready \in ReadyType /\ failure \in BOOLEAN
    /\ pc \in [Callers -> Inside \cup {"idle", "wait"}]
    /\ \A c \in Callers : pc[c] \in Inside <=> gate = c
    /\ sess \in [Callers -> Sessions \cup {Nobody}] /\ seen \in [Callers -> Generation]
    /\ copy \in [Callers -> ReadyType]
    /\ answer \in [Callers -> [access : Access, asOf : Generation]]
    /\ inv \in [Invalidators -> [at : {"idle", "ready", "failure"}, gen : Generation]]
    /\ daemon \in 1..MaxDaemon /\ cause \in BOOLEAN
    /\ floor \in [Callers -> Generation] /\ forgotten \in Generation

\* Once an invalidation has run to its end, nothing prepared or probed before
\* it is cached, however late its acquirer publishes
\* (invalidation_during_prepare_does_not_publish_late_readiness, for every
\* interleaving of acquirers and invalidations).
ReadyIsCurrent == ready # NoReady => ready.asOf >= forgotten

\* An acquirer that began after an invalidation ended is not given an access
\* prepared or probed before it.
AnswerIsCurrent ==
    \A c \in Callers : answer[c] # NoAnswer => answer[c].asOf >= floor[c]

\* The host is prepared again only when something has happened to what was
\* prepared before: an invalidation, a changed binary, a failed probe.  Other
\* projects, other sessions and an expired HEALTH_TTL are no reason
\* (concurrent_roots_prepare_once_and_reconnect_only_probes).
PreparedForCause ==
    [][\A c \in Callers : pc[c] # "prepare" /\ pc'[c] = "prepare" => cause]_vars

\* Whoever acquires the daemon gets an answer, however many others do and
\* whoever is cancelled at the gate or behind it.
AcquireEnds == \A c \in Callers : pc[c] = "wait" ~> pc[c] = "idle"

===============================================================================
