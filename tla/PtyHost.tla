-------------------------------- MODULE PtyHost --------------------------------
(***************************************************************************)
(* The registry of the daemon's terminals (qingcode-server/src/pty.rs,     *)
(* struct PtyHost): creation under the slot limit, the output buffers and  *)
(* their daemon-wide byte budget, attach and detach, termination by kill,  *)
(* by the detached TTL and by daemon shutdown, and the watchdog that turns *)
(* an ignored SIGHUP into a SIGKILL.                                       *)
(*                                                                         *)
(* One action is one critical section of the code: kill and reap release   *)
(* the host lock between the signal and the bookkeeping, so they are two   *)
(* steps each and anything may happen in between.  An eviction holds the   *)
(* host lock but takes each terminal's own lock for a moment only, so it   *)
(* is several steps, and whatever needs no host lock may fall in between.  *)
(* Terminals are numbered in creation order (the code's `created`          *)
(* counter).  Input, window sizes and the screen parser have no bearing on *)
(* this component's promises; the routing of output to connections is      *)
(* module PtyRoutes.                                                       *)
(***************************************************************************)
EXTENDS RingBuffer, FiniteSets

CONSTANTS
    NumTerms,      \* bound: terminals created in a behaviour
    Clients,       \* client ids (one per installation and connection profile)
    MaxPtys,       \* max_ptys
    Budget,        \* total_buffer_bytes
    BlockLens,     \* lengths of the blocks a read may return
    MaxSeq,        \* bound: blocks read from one terminal
    DetachedTtl,   \* detached_ttl
    Retention,     \* EXITED_RETENTION
    MaxNow         \* bound: clock

ASSUME HostAssumption ==
    /\ NumTerms \in Nat /\ MaxPtys \in Nat /\ Budget \in Nat
    /\ BlockLens \subseteq Nat \ {0}
    /\ MaxSeq \in Nat /\ DetachedTtl \in Nat /\ Retention \in Nat /\ MaxNow \in Nat

Term == 1..NumTerms
Never == -1                       \* Option<Instant>::None
NoOwner == "none"

ASSUME ClientAssumption == NoOwner \notin Clients

VARIABLES
    terms,         \* ids in the registry (HostInner.terms)
    proc,          \* the terminal's process: "unborn", "running", "dead", or
                   \* "abandoned" by a create that failed after spawning it
    ring,          \* TermState.ring
    attached,      \* TermState.attached
    detachedAt,    \* TermState.detached_at
    owner,         \* TermState.owner
    exitedAt,      \* TermState.exited_at; set together with `exited`
    totalBytes,    \* HostInner.total_bytes
    evictor,       \* the terminal whose reader thread evicts, holding the host lock
    unread,        \* candidates evict_locked has yet to look at
    uncleared,     \* candidates its second loop has yet to come to
    picture,       \* what it read of each candidate
    watchdog,      \* terminals whose terminate() watchdog thread is asleep
    killing,       \* terminals a kill() has signalled but not yet removed
    reclaimed,     \* running terminals reap() has removed but not yet signalled
    now,           \* clock
    phase,         \* daemon: "open", "hup", "forced", "stopped"
    snapshot       \* terminals shutdown() waits for

link == <<attached, detachedAt, owner>>
eviction == <<evictor, unread, uncleared, picture>>
daemon == <<now, phase, snapshot>>
vars == <<terms, proc, ring, link, exitedAt, totalBytes, eviction,
          watchdog, killing, reclaimed, daemon>>

Nobody == 0
HostLockFree == evictor = Nobody

\* Before a candidate is looked at.
NoPicture == [t \in Term |-> [attached |-> FALSE, since |-> Never]]

Exited(t) == exitedAt[t] # Never

\* Bytes buffered by the terminals of S.
Bytes(S, r) == SumTo([t \in Term |-> IF t \in S THEN r[t].bytes ELSE 0], NumTerms)

\* saturating_sub of the code.
Minus(a, b) == IF a > b THEN a - b ELSE 0

Init ==
    /\ terms = {}
    /\ proc = [t \in Term |-> "unborn"]
    /\ ring = [t \in Term |-> EmptyRing]
    /\ attached = [t \in Term |-> FALSE]
    /\ detachedAt = [t \in Term |-> Never]
    /\ owner = [t \in Term |-> NoOwner]
    /\ exitedAt = [t \in Term |-> Never]
    /\ totalBytes = 0
    /\ evictor = Nobody /\ unread = {} /\ uncleared = {} /\ picture = NoPicture
    /\ watchdog = {} /\ killing = {} /\ reclaimed = {}
    /\ now = 0
    /\ phase = "open"
    /\ snapshot = {}

-------------------------------------------------------------------------------
(* Creation, output and eviction *)

Live(t) == t \in terms /\ ~Exited(t)

\* create: limit check, spawn and registration are one critical section.
Create(t, c) ==
    /\ phase = "open" /\ HostLockFree
    /\ proc[t] = "unborn"
    /\ \A u \in Term : u < t => proc[u] # "unborn"
    /\ Cardinality({u \in Term : Live(u)}) < MaxPtys
    /\ terms' = terms \cup {t}
    /\ proc' = [proc EXCEPT ![t] = "running"]
    /\ attached' = [attached EXCEPT ![t] = TRUE]
    /\ owner' = [owner EXCEPT ![t] = c]
    /\ UNCHANGED <<ring, detachedAt, exitedAt, totalBytes, eviction, watchdog, killing,
                   reclaimed, daemon>>

\* create when no reader thread can be started: the child has been spawned and
\* its terminal is taken out of the registry again; nobody signals or waits
\* for the process, which only sees its PTY closed.
CreateFails(t) ==
    /\ phase = "open" /\ HostLockFree
    /\ proc[t] = "unborn"
    /\ \A u \in Term : u < t => proc[u] # "unborn"
    /\ Cardinality({u \in Term : Live(u)}) < MaxPtys
    /\ proc' = [proc EXCEPT ![t] = "abandoned"]
    /\ UNCHANGED <<terms, ring, link, exitedAt, totalBytes, eviction, watchdog, killing,
                   reclaimed, daemon>>

\* push_output of a registered terminal: the block is buffered and accounted.
\* The accounting adds what the ring grew by, with saturating_sub, so a push
\* that evicts more than it adds counts as zero.  Over the budget, the reader
\* keeps the host lock and evicts.  (Output of an unregistered terminal is
\* drained and dropped: no change here.)
PushOutput(t, n) ==
    /\ phase # "stopped"
    /\ HostLockFree
    /\ Live(t)
    /\ ring[t].nextSeq < MaxSeq
    /\ \E after \in Pushed(ring[t], n) :
         /\ ring' = [ring EXCEPT ![t] = after]
         /\ totalBytes' = totalBytes + Minus(after.bytes, ring[t].bytes)
    /\ IF totalBytes' <= Budget THEN UNCHANGED eviction
       ELSE /\ evictor' = t /\ unread' = terms /\ uncleared' = terms
            /\ UNCHANGED picture
    /\ UNCHANGED <<terms, proc, link, exitedAt, watchdog, killing, reclaimed, daemon>>

\* evict_locked, first pass: one candidate's state is read under its own lock.
\* An attached terminal has no detached_at and takes one `now` with all others.
EvictRead(t) ==
    /\ phase # "stopped"
    /\ t \in unread
    /\ unread' = unread \ {t}
    /\ picture' = [picture EXCEPT ![t] = [attached |-> attached[t], since |-> detachedAt[t]]]
    /\ UNCHANGED <<terms, proc, ring, link, exitedAt, totalBytes, evictor, uncleared,
                   watchdog, killing, reclaimed, daemon>>

\* Mutant: attached buffers go first.
EvictBefore_attachedFirst(t, u) ==
    IF picture[t].attached # picture[u].attached THEN picture[t].attached
    ELSE IF picture[t].since # picture[u].since THEN picture[t].since < picture[u].since
    ELSE t < u

\* The order of the sort, by what was read: detached before attached, then the
\* longest detached, then the oldest terminal.
EvictBefore(t, u) ==
    IF picture[t].attached # picture[u].attached THEN picture[u].attached
    ELSE IF picture[t].since # picture[u].since THEN picture[t].since < picture[u].since
    ELSE t < u

\* Mutant: what was attached is never emptied.
EvictClear_detachedOnly(t) ==
    /\ phase # "stopped"
    /\ t \in uncleared /\ unread = {}
    /\ \A u \in uncleared \ {t} : EvictBefore(t, u)
    /\ LET frees == ~picture[t].attached IN
         /\ ring' = IF frees THEN [ring EXCEPT ![t] = Clear(@)] ELSE ring
         /\ totalBytes' = IF frees THEN Minus(totalBytes, ring[t].bytes) ELSE totalBytes
    /\ IF uncleared = {t} \/ totalBytes' <= Budget
       THEN evictor' = Nobody /\ uncleared' = {} /\ picture' = NoPicture
       ELSE uncleared' = uncleared \ {t} /\ UNCHANGED <<evictor, picture>>
    /\ UNCHANGED <<terms, proc, link, exitedAt, unread, watchdog, killing, reclaimed,
                   daemon>>

\* evict_locked, second pass: the next candidate's whole ring is cleared under
\* its own lock (an empty one is skipped), until the total is within the budget
\* or nobody is left; then the host lock is released.
EvictClear(t) ==
    /\ phase # "stopped"
    /\ t \in uncleared /\ unread = {}
    /\ \A u \in uncleared \ {t} : EvictBefore(t, u)
    /\ ring' = [ring EXCEPT ![t] = IF @.bytes = 0 THEN @ ELSE Clear(@)]
    /\ totalBytes' = Minus(totalBytes, ring[t].bytes)
    /\ IF uncleared = {t} \/ totalBytes' <= Budget
       THEN evictor' = Nobody /\ uncleared' = {} /\ picture' = NoPicture
       ELSE uncleared' = uncleared \ {t} /\ UNCHANGED <<evictor, picture>>
    /\ UNCHANGED <<terms, proc, link, exitedAt, unread, watchdog, killing, reclaimed,
                   daemon>>

-------------------------------------------------------------------------------
(* Attach and detach *)

\* attach_with: refused to a client that is not the owner.  The terminal is
\* looked up under the host lock, but changed under its own lock only: an
\* eviction may be under way by then.
Attach(t, c) ==
    /\ phase = "open"
    /\ t \in terms
    /\ owner[t] = c
    /\ attached' = [attached EXCEPT ![t] = TRUE]
    /\ detachedAt' = [detachedAt EXCEPT ![t] = Never]
    /\ UNCHANGED <<terms, proc, ring, owner, exitedAt, totalBytes, eviction, watchdog,
                   killing, reclaimed, daemon>>

\* detach: ignored for a client that is not the owner; the owner is kept.  It
\* needs the host lock no longer than attach does.
Detach(t, c) ==
    /\ phase = "open"
    /\ t \in terms
    /\ owner[t] = c
    /\ attached' = [attached EXCEPT ![t] = FALSE]
    /\ detachedAt' = [detachedAt EXCEPT ![t] = now]
    /\ UNCHANGED <<terms, proc, ring, owner, exitedAt, totalBytes, eviction, watchdog,
                   killing, reclaimed, daemon>>

-------------------------------------------------------------------------------
(* The end of a process *)

\* External: the process ends by itself, or of the SIGHUP it was sent.
Die(t) ==
    /\ phase # "stopped"
    /\ proc[t] = "running"
    /\ proc' = [proc EXCEPT ![t] = "dead"]
    /\ UNCHANGED <<terms, ring, link, exitedAt, totalBytes, eviction, watchdog, killing,
                   reclaimed, daemon>>

\* read_loop's end: EOF, the exit code, the tombstone; the thread that evicts
\* is not there yet.
ReaderExit(t) ==
    /\ phase # "stopped"
    /\ proc[t] = "dead" /\ ~Exited(t)
    /\ evictor # t
    /\ exitedAt' = [exitedAt EXCEPT ![t] = now]
    /\ UNCHANGED <<terms, proc, ring, link, totalBytes, eviction, watchdog, killing,
                   reclaimed, daemon>>

\* Mutant: nobody follows the SIGHUP up.
Terminate_noWatchdog(S) ==
    /\ proc' = proc
    /\ watchdog' = watchdog

\* terminate of every terminal of S that has not exited: SIGHUP, then a
\* watchdog thread; a watchdog that cannot be started is a SIGKILL at once.
\* SIGHUP by itself decides nothing (Die may follow or not).
Terminate(S) ==
    LET todo == {t \in S : ~Exited(t)} IN
    \E started \in SUBSET todo :
        /\ watchdog' = watchdog \cup started
        /\ proc' = [t \in Term |-> IF t \in todo \ started THEN "dead" ELSE proc[t]]

\* The watchdog wakes after a second and force-kills what has not exited.
WatchdogFires(t) ==
    /\ phase # "stopped"
    /\ t \in watchdog
    /\ watchdog' = watchdog \ {t}
    /\ proc' = [proc EXCEPT ![t] = IF Exited(t) THEN @ ELSE "dead"]
    /\ UNCHANGED <<terms, ring, link, exitedAt, totalBytes, eviction, killing, reclaimed,
                   daemon>>

\* remove_term_locked: out of the registry and out of the accounting.
RemoveTerms(S) ==
    /\ HostLockFree
    /\ terms' = terms \ S
    /\ totalBytes' = Minus(totalBytes, Bytes(S \cap terms, ring))

\* kill of a tombstone, and release_exited after the exit was delivered.
RemoveExited(t) ==
    /\ phase # "stopped"
    /\ t \in terms /\ Exited(t)
    /\ RemoveTerms({t})
    /\ UNCHANGED <<proc, ring, link, exitedAt, eviction, watchdog, killing, reclaimed, daemon>>

\* kill of a running terminal: signalled first ...
KillSignal(t) ==
    /\ phase # "stopped"
    /\ Live(t)
    /\ Terminate({t})
    /\ killing' = killing \cup {t}
    /\ UNCHANGED <<terms, ring, link, exitedAt, totalBytes, eviction, reclaimed, daemon>>

\* ... then removed, without waiting for its process to end.
KillRemove(t) ==
    /\ phase # "stopped"
    /\ t \in killing
    /\ killing' = killing \ {t}
    /\ RemoveTerms({t})
    /\ UNCHANGED <<proc, ring, link, exitedAt, eviction, watchdog, reclaimed, daemon>>

\* reap_at: one critical section picks and removes the tombstones past their
\* retention and the running terminals detached for detached_ttl ...
Expired(t) ==
    IF Exited(t) THEN now - exitedAt[t] >= Retention
    ELSE /\ ~attached[t]
         /\ detachedAt[t] # Never
         /\ now - detachedAt[t] >= DetachedTtl

Reap ==
    /\ phase = "open"
    /\ reclaimed = {}
    /\ LET expired == {t \in terms : Expired(t)} IN
         /\ expired # {}
         /\ RemoveTerms(expired)
         /\ reclaimed' = {t \in expired : ~Exited(t)}
    /\ UNCHANGED <<proc, ring, link, exitedAt, eviction, watchdog, killing, daemon>>

\* ... and the signals go out after the lock is released.
ReapSignal ==
    /\ phase = "open"
    /\ reclaimed # {}
    /\ Terminate(reclaimed)
    /\ reclaimed' = {}
    /\ UNCHANGED <<terms, ring, link, exitedAt, totalBytes, eviction, killing, daemon>>

-------------------------------------------------------------------------------
(* Daemon shutdown (no connection and no create is left when it starts) *)

\* HostInner.retiring: removed while running; the weak reference is alive
\* until the reader thread ends.
Retiring == {t \in Term : /\ proc[t] \in {"running", "dead"}
                          /\ t \notin terms /\ ~Exited(t)}

\* Mutant: only the registered terminals.
ShutdownSet_registered == terms
ShutdownSet == terms \cup Retiring

ShutdownHup ==
    /\ phase = "open" /\ HostLockFree
    /\ reclaimed = {}
    /\ phase' = "hup"
    /\ snapshot' = ShutdownSet
    /\ Terminate(ShutdownSet)
    /\ UNCHANGED <<terms, ring, link, exitedAt, totalBytes, eviction, killing, reclaimed, now>>

\* Two seconds later: whoever has not exited is force-killed synchronously.
ShutdownForce ==
    /\ phase = "hup"
    /\ phase' = "forced"
    /\ proc' = [t \in Term |->
                  IF t \in snapshot /\ ~Exited(t) THEN "dead" ELSE proc[t]]
    /\ UNCHANGED <<terms, ring, link, exitedAt, totalBytes, eviction, watchdog, killing,
                   reclaimed, now, snapshot>>

\* Mutant: without the last deadline.
ShutdownDone_noDeadline ==
    /\ phase = "hup" /\ \A t \in snapshot : Exited(t)
    /\ phase' = "stopped"
    /\ UNCHANGED <<terms, proc, ring, link, exitedAt, totalBytes, eviction, watchdog,
                   killing, reclaimed, now, snapshot>>

\* The daemon process ends: everybody exited, or the last deadline passed.
ShutdownDone ==
    /\ \/ phase = "hup" /\ \A t \in snapshot : Exited(t)
       \/ phase = "forced"
    /\ phase' = "stopped"
    /\ UNCHANGED <<terms, proc, ring, link, exitedAt, totalBytes, eviction, watchdog,
                   killing, reclaimed, now, snapshot>>

Tick ==
    /\ phase # "stopped"
    /\ now < MaxNow
    /\ now' = now + 1
    /\ UNCHANGED <<terms, proc, ring, link, exitedAt, totalBytes, eviction, watchdog,
                   killing, reclaimed, phase, snapshot>>

Next ==
    \/ \E t \in Term, c \in Clients : Create(t, c) \/ Attach(t, c) \/ Detach(t, c)
    \/ \E t \in Term, n \in BlockLens : PushOutput(t, n)
    \/ \E t \in Term : \/ CreateFails(t) \/ Die(t) \/ ReaderExit(t) \/ WatchdogFires(t)
                       \/ RemoveExited(t) \/ KillSignal(t) \/ KillRemove(t)
                       \/ EvictRead(t) \/ EvictClear(t)
    \/ Reap \/ ReapSignal
    \/ ShutdownHup \/ ShutdownForce \/ ShutdownDone
    \/ Tick

\* Threads that are runnable run: a watchdog after its second, a kill or reap
\* past its first half, an eviction, and shutdown's deadlines.  Nothing forces
\* a process to die of SIGHUP, a reader to see EOF (a grandchild may keep the
\* PTY open) or a client to do anything.
Fairness ==
    /\ \A t \in Term : WF_vars(WatchdogFires(t)) /\ WF_vars(KillRemove(t))
                     /\ WF_vars(EvictRead(t)) /\ WF_vars(EvictClear(t))
    /\ WF_vars(ReapSignal)
    /\ WF_vars(ShutdownForce)
    /\ WF_vars(ShutdownDone)

Spec == Init /\ [][Next]_vars
FairSpec == Spec /\ Fairness

-------------------------------------------------------------------------------
\* Types; a registered terminal's times never run ahead of the clock.
TypeOK ==
    /\ terms \subseteq Term
    /\ proc \in [Term -> {"unborn", "running", "dead", "abandoned"}]
    /\ ring \in [Term -> Ring]
    /\ attached \in [Term -> BOOLEAN]
    /\ detachedAt \in [Term -> 0..MaxNow \cup {Never}]
    /\ owner \in [Term -> Clients \cup {NoOwner}]
    /\ exitedAt \in [Term -> 0..MaxNow \cup {Never}]
    /\ totalBytes \in Nat
    /\ evictor \in Term \cup {Nobody}
    /\ unread \subseteq uncleared /\ uncleared \subseteq terms
    /\ picture \in [Term -> [attached : BOOLEAN, since : 0..MaxNow \cup {Never}]]
    /\ watchdog \subseteq Term /\ killing \subseteq Term /\ reclaimed \subseteq Term
    /\ now \in 0..MaxNow
    /\ phase \in {"open", "hup", "forced", "stopped"}
    /\ snapshot \subseteq Term

\* The hard bound: whatever the terminals print and however they come and go,
\* the buffers of all registered terminals together fit the budget whenever
\* the host lock is free (evict_locked, HostInner.total_bytes).
BudgetHard == HostLockFree => Bytes(terms, ring) <= Budget

\* A buffer is emptied only when the buffers together are over the budget
\* (docs/ssh-agent-design.md:208: 环形缓冲总量最多 256MB，超出时先淘汰 ...).
EvictsOverBudget ==
    [][(\E u \in terms : ring[u].bytes # 0 /\ ring'[u].bytes = 0)
            => Bytes(terms, ring) > Budget]_vars

\* The buffer of a terminal that was in use when the eviction looked at it is
\* sacrificed only once no terminal it found detached has anything left to
\* give, although clients attach, detach and leave between its two passes.  (A
\* client that attaches after its terminal was looked at comes too late.)
DetachedPaysFirst ==
    [][\A t \in terms :
         (picture[t].attached /\ ring[t].bytes # 0 /\ ring'[t].bytes = 0)
            => \A u \in terms : ~picture[u].attached => ring[u].bytes = 0]_vars

\* A process that left the registry while running always has its killer on
\* the way: reap's pending signal, a sleeping watchdog, or shutdown.
RetiredIsDoomed ==
    \A t \in Term :
        (proc[t] = "running" /\ t \notin terms) => t \in reclaimed \cup watchdog

\* When the daemon process ends it leaves no terminal's process behind, not
\* even one that a kill had removed from the registry and that ignores SIGHUP.
\* (A process whose create failed never was a terminal: see CreateFails.)
NothingLeftBehind == phase = "stopped" => \A t \in Term : proc[t] # "running"

\* A kill, a TTL reap or a shutdown is not forgotten: the process ends even
\* if it ignores SIGHUP.
TerminationCompletes ==
    \A t \in Term :
        (proc[t] = "running" /\ (t \notin terms \/ phase = "hup")) ~> proc[t] = "dead"

\* Shutdown itself terminates.
ShutdownCompletes == phase = "hup" ~> phase = "stopped"
===============================================================================
