------------------------- MODULE SourceControl_proofs -------------------------
(***************************************************************************)
(* Proofs about the store of Git snapshots and the source control panel,   *)
(* for any projects, any number of reads and any number of calls under     *)
(* way.                                                                    *)
(*                                                                         *)
(* First the store: its invariants, and that it implements FreshBadge,     *)
(* under any callers that make one call of it per step.  Its operations    *)
(* are functions of the store, so there is one lemma for each of them,     *)
(* about a store g and the trees t of that moment.                         *)
(*                                                                         *)
(* Then the panel, which makes several of these calls in one turn: the     *)
(* same promises under ScmSpec, the types of its state and of its calls,   *)
(* and what its history and its panes show.                                *)
(***************************************************************************)
EXTENDS SourceControl, FiniteSetTheorems, TLAPS


Trees == [Projects -> Versions]

EntriesIn(g) ==
  \A p \in Projects : g.inFlight[p] # None =>
    /\ g.reads[g.inFlight[p]] # None
    /\ g.reads[g.inFlight[p]].path = p

RefreshingIn(g) ==
  g.refreshing <=> g.projectPath # None /\ g.inFlight[g.projectPath] # None

FreshIn(g) ==
  \A p \in Projects : g.inFlight[p] # None /\ ~g.reads[g.inFlight[p]].stale
    => g.asked[p] <= g.reads[g.inFlight[p]].start

\* Nothing is of a tree that has not been yet.
PastIn(g, t) ==
  /\ \A p \in Projects : g.asked[p] <= t[p]
  /\ \A i \in Reads : g.reads[i] # None => g.reads[i].start <= t[g.reads[i].path]

Good(g, t) == EntriesIn(g) /\ RefreshingIn(g) /\ FreshIn(g) /\ PastIn(g, t)

\* What a step from g to h may do to the badges, the trees being t.
Step(g, h, t) ==
  \A p \in Projects :
    /\ h.asked[p] \in {g.asked[p], t[p]}
    /\ \/ h.snapshots[p] = g.snapshots[p]
       \/ ~IsRead(h.snapshots[p])
       \/ TreeRead(h.snapshots[p]) \in g.asked[p] .. t[p]

\* An operation that takes a good store to a good one, by such a step.
Sound(g, h, t) == h \in GitState /\ Good(h, t) /\ Step(g, h, t)

\* What may be published for p: nothing new, nothing certain, or a fresh read.
MayPublish(g, t, p, s) ==
  s = g.snapshots[p] \/ ~IsRead(s) \/ TreeRead(s) \in g.asked[p] .. t[p]

\* Operations of one turn follow one another.
LEMMA SoundTrans ==
  ASSUME NEW g \in GitState, NEW h, NEW k, NEW t \in Trees,
         Good(g, t), Sound(g, h, t), Sound(h, k, t)
  PROVE  Sound(g, k, t)
<1>1. SUFFICES ASSUME NEW p \in Projects
               PROVE  /\ k.asked[p] \in {g.asked[p], t[p]}
                      /\ \/ k.snapshots[p] = g.snapshots[p]
                         \/ ~IsRead(k.snapshots[p])
                         \/ TreeRead(k.snapshots[p]) \in g.asked[p] .. t[p]
  BY DEF Sound, Step
<1>2. g.asked[p] \in Nat /\ t[p] \in Nat /\ g.asked[p] <= t[p]
  BY DEF Good, PastIn, GitState, Trees, Versions
<1>3. /\ h.asked[p] \in {g.asked[p], t[p]} /\ k.asked[p] \in {h.asked[p], t[p]}
      /\ \/ h.snapshots[p] = g.snapshots[p]
         \/ ~IsRead(h.snapshots[p])
         \/ TreeRead(h.snapshots[p]) \in g.asked[p] .. t[p]
      /\ \/ k.snapshots[p] = h.snapshots[p]
         \/ ~IsRead(k.snapshots[p])
         \/ TreeRead(k.snapshots[p]) \in h.asked[p] .. t[p]
  BY DEF Sound, Step
<1> QED
  BY <1>2, <1>3

\* A change of the timers alone.
LEMMA TimersSound ==
  ASSUME NEW g \in GitState, NEW t \in Trees, NEW s \in SUBSET Projects, Good(g, t)
  PROVE  Sound(g, [g EXCEPT !.timers = s], t)
<1> DEFINE h == [g EXCEPT !.timers = s]
<1>1. h \in GitState
  BY DEF GitState
<1>2. /\ h.inFlight = g.inFlight /\ h.reads = g.reads /\ h.asked = g.asked
      /\ h.refreshing = g.refreshing /\ h.projectPath = g.projectPath
      /\ h.snapshots = g.snapshots
  BY DEF GitState
<1>3. Good(h, t)
  BY <1>2 DEF Good, EntriesIn, RefreshingIn, FreshIn, PastIn
<1>4. Step(g, h, t)
  BY <1>2 DEF Step
<1> QED
  BY <1>1, <1>3, <1>4 DEF Sound

LEMMA PublishSound ==
  ASSUME NEW g \in GitState, NEW t \in Trees, NEW p \in Projects, NEW s \in MaybeStatus,
         Good(g, t), MayPublish(g, t, p, s)
  PROVE  Sound(g, publish(g, p, s), t)
<1> DEFINE h == publish(g, p, s)
<1>1. h \in GitState
  BY DEF publish, GitState
<1>2. /\ h.inFlight = g.inFlight /\ h.reads = g.reads /\ h.asked = g.asked
      /\ h.refreshing = g.refreshing /\ h.projectPath = g.projectPath
      /\ h.snapshots = [g.snapshots EXCEPT ![p] = s]
  BY DEF publish, GitState
<1>3. Good(h, t)
  BY <1>2 DEF Good, EntriesIn, RefreshingIn, FreshIn, PastIn
<1>4. h.snapshots[p] = s /\ \A q \in Projects : q # p => h.snapshots[q] = g.snapshots[q]
  BY <1>2 DEF GitState
<1>5. Step(g, h, t)
  BY <1>2, <1>4 DEF Step, MayPublish
<1> QED
  BY <1>1, <1>3, <1>5 DEF Sound

LEMMA ActivateSound ==
  ASSUME NEW g \in GitState, NEW t \in Trees, NEW p \in Projects, Good(g, t)
  PROVE  /\ Sound(g, activate(g, p), t)
         /\ activate(g, p).projectPath = p
         /\ activate(g, p).snapshots = g.snapshots
         /\ activate(g, p).inFlight = g.inFlight
         /\ activate(g, p).reads = g.reads
         /\ activate(g, p).asked = g.asked
<1> DEFINE h == activate(g, p)
<1>1. CASE g.projectPath = p
  BY <1>1 DEF activate, Sound, Step
<1>2. CASE g.projectPath # p
  <2>1. h \in GitState
    BY <1>2 DEF activate, GitState
  <2>2. /\ h.inFlight = g.inFlight /\ h.reads = g.reads /\ h.asked = g.asked
        /\ h.projectPath = p /\ h.refreshing = (g.inFlight[p] # None)
        /\ h.snapshots = g.snapshots
    BY <1>2 DEF activate, GitState
  <2>3. p # None
    BY GitConstants
  <2>4. RefreshingIn(h)
    BY <2>2, <2>3, Zenon DEF RefreshingIn
  <2>5. Good(h, t)
    BY <2>2, <2>4 DEF Good, EntriesIn, FreshIn, PastIn
  <2> QED
    BY <2>1, <2>2, <2>5 DEF Sound, Step
<1> QED
  BY <1>1, <1>2

LEMMA ClearSound ==
  ASSUME NEW g \in GitState, NEW t \in Trees, Good(g, t)
  PROVE  Sound(g, clear(g), t)
<1> DEFINE h == clear(g)
<1>1. h \in GitState
  BY DEF clear, GitState, MaybeStatus
<1>2. /\ h.inFlight = [p \in Projects |-> None] /\ h.reads = g.reads
      /\ h.asked = g.asked /\ h.projectPath = None /\ h.refreshing = FALSE
      /\ h.snapshots = [p \in Projects |-> None]
  BY DEF clear, GitState
<1>3. RefreshingIn(h)
  BY <1>2, Zenon DEF RefreshingIn
<1>4. Good(h, t)
  BY <1>2, <1>3 DEF Good, EntriesIn, FreshIn, PastIn
<1>5. Step(g, h, t)
  BY <1>2 DEF Step, IsRead
<1> QED
  BY <1>1, <1>4, <1>5 DEF Sound

LEMMA ClearPanelSound ==
  ASSUME NEW g \in GitState, NEW t \in Trees, NEW p \in Projects, Good(g, t)
  PROVE  Sound(g, clearPanelStatus(g, p), t)
<1> DEFINE h == clearPanelStatus(g, p)
<1>1. h \in GitState
  BY DEF clearPanelStatus, GitState, MaybeStatus
<1>2. /\ h.inFlight = g.inFlight /\ h.reads = g.reads /\ h.asked = g.asked
      /\ h.refreshing = g.refreshing /\ h.projectPath = g.projectPath
      /\ h.snapshots = [g.snapshots EXCEPT ![p] = None]
  BY DEF clearPanelStatus, GitState
<1>3. Good(h, t)
  BY <1>2 DEF Good, EntriesIn, RefreshingIn, FreshIn, PastIn
<1>4. h.snapshots[p] = None /\ \A q \in Projects : q # p => h.snapshots[q] = g.snapshots[q]
  BY <1>2 DEF GitState
<1>5. Step(g, h, t)
  BY <1>2, <1>4 DEF Step, IsRead
<1> QED
  BY <1>1, <1>3, <1>5 DEF Sound

\* The read that holds the entry of p changes in place, or begins anew.
LEMMA ReadChangeSound ==
  ASSUME NEW g \in GitState, NEW h \in GitState, NEW t \in Trees, NEW p \in Projects,
         NEW i \in Reads, NEW r \in ReadState,
         Good(g, t), g.inFlight[p] = i, r.path = p, r.start <= t[p],
         h.inFlight = g.inFlight, h.refreshing = g.refreshing,
         h.projectPath = g.projectPath, h.snapshots = g.snapshots,
         h.reads = [g.reads EXCEPT ![i] = r],
         h.asked \in {g.asked, [g.asked EXCEPT ![p] = t[p]]},
         ~r.stale => h.asked[p] <= r.start
  PROVE  Sound(g, h, t)
<1>1. /\ h.reads[i] = r /\ r # None
      /\ \A j \in Reads : j # i => h.reads[j] = g.reads[j]
  BY NoneIsNoRead DEF GitState
<1>2. /\ h.asked[p] \in {g.asked[p], t[p]}
      /\ \A q \in Projects : q # p => h.asked[q] = g.asked[q]
  BY DEF GitState
<1>3. EntriesIn(h)
  BY <1>1 DEF Good, EntriesIn, GitState
<1>4. RefreshingIn(h)
  BY Zenon DEF Good, RefreshingIn
<1>5. FreshIn(h)
  <2> SUFFICES ASSUME NEW q \in Projects, h.inFlight[q] # None,
                      ~h.reads[h.inFlight[q]].stale
               PROVE  h.asked[q] <= h.reads[h.inFlight[q]].start
    BY DEF FreshIn
  <2>1. h.inFlight[q] \in Reads /\ g.reads[h.inFlight[q]].path = q
    BY DEF Good, EntriesIn, GitState
  <2>2. CASE q = p
    BY <1>1, <2>2
  <2>3. CASE q # p
    <3>1. g.reads[i].path = p
      BY GitConstants DEF Good, EntriesIn
    <3>2. h.inFlight[q] # i
      BY <2>1, <2>3, <3>1
    <3> QED
      BY <1>1, <1>2, <2>1, <2>3, <3>2 DEF Good, FreshIn
  <2> QED
    BY <2>2, <2>3
<1>6. PastIn(h, t)
  <2>1. \A q \in Projects : g.asked[q] <= t[q] /\ t[q] \in Nat
    BY DEF Good, PastIn, GitState, Trees, Versions
  <2>2. \A q \in Projects : h.asked[q] <= t[q]
    BY <1>2, <2>1
  <2>3. \A j \in Reads : h.reads[j] # None => h.reads[j].start <= t[h.reads[j].path]
    BY <1>1 DEF Good, PastIn
  <2> QED
    BY <2>2, <2>3 DEF PastIn
<1>7. Step(g, h, t)
  BY <1>2 DEF Step
<1> QED
  BY <1>3, <1>4, <1>5, <1>6, <1>7 DEF Sound, Good

LEMMA ReadChangeType ==
  ASSUME NEW g \in GitState, NEW i \in Reads, NEW p \in Projects,
         NEW r \in ReadState, NEW a \in Versions
  PROVE  [g EXCEPT !.reads[i] = r, !.asked[p] = a] \in GitState
BY DEF GitState

\* Good stores have well-formed entries.
LEMMA EntryFacts ==
  ASSUME NEW g \in GitState, NEW t \in Trees, NEW p \in Projects,
         Good(g, t), g.inFlight[p] # None
  PROVE  /\ g.inFlight[p] \in Reads /\ g.reads[g.inFlight[p]] \in ReadState
         /\ g.reads[g.inFlight[p]] # None /\ g.reads[g.inFlight[p]].path = p
         /\ g.reads[g.inFlight[p]].start <= t[p]
BY DEF Good, EntriesIn, PastIn, GitState

LEMMA OutdateSound ==
  ASSUME NEW g \in GitState, NEW t \in Trees, NEW p \in Projects, Good(g, t)
  PROVE  /\ Sound(g, Outdate(g, p), t)
         /\ Outdate(g, p).snapshots = g.snapshots
<1> DEFINE h == Outdate(g, p)
           i == g.inFlight[p]
           r == [g.reads[i] EXCEPT !.stale = TRUE]
<1>1. CASE i = None
  BY <1>1 DEF Outdate, Sound, Step
<1>2. CASE i # None
  <2>1. /\ i \in Reads /\ g.reads[i] \in ReadState /\ g.reads[i].path = p
        /\ g.reads[i].start <= t[p]
    BY <1>2, EntryFacts
  <2>2. r \in ReadState /\ r.path = p /\ r.start <= t[p] /\ r.stale
    BY <2>1 DEF ReadState
  <2>3. /\ h.inFlight = g.inFlight /\ h.asked = g.asked
        /\ h.refreshing = g.refreshing /\ h.projectPath = g.projectPath
        /\ h.snapshots = g.snapshots
        /\ h.reads = [g.reads EXCEPT ![i] = r]
    BY <1>2 DEF Outdate, GitState
  <2>4. h \in GitState
    BY <1>2, <2>1, <2>2 DEF Outdate, GitState
  <2>5. Sound(g, h, t)
    <3> HIDE DEF h, r
    <3> QED
      BY <2>1, <2>2, <2>3, <2>4, ReadChangeSound
  <2> QED
    BY <2>3, <2>5
<1> QED
  BY <1>1, <1>2

LEMMA JoinSound ==
  ASSUME NEW g \in GitState, NEW t \in Trees, NEW p \in Projects, Good(g, t),
         NEW reuse \in BOOLEAN, NEW full \in BOOLEAN, g.inFlight[p] # None
  PROVE  Sound(g, JoinRead(g, p, reuse, full, t[p]), t)
<1> DEFINE h == JoinRead(g, p, reuse, full, t[p])
           i == g.inFlight[p]
           force == ~reuse \/ (full /\ ~g.reads[i].full)
           r == [g.reads[i] EXCEPT !.again = @ \/ force, !.stale = @ \/ force,
                                   !.full = @ \/ full]
           a == IF force THEN t[p] ELSE g.asked[p]
<1>1. /\ i \in Reads /\ g.reads[i] \in ReadState /\ g.reads[i].path = p
      /\ g.reads[i].start <= t[p]
  BY EntryFacts
<1>2. /\ r \in ReadState /\ r.path = p /\ r.start = g.reads[i].start
      /\ r.stale = (g.reads[i].stale \/ force)
  BY <1>1 DEF ReadState
<1>3. a \in Versions
  BY DEF Trees, GitState
<1>4. h = [g EXCEPT !.reads[i] = r, !.asked[p] = a]
  BY DEF JoinRead
<1>5. CASE force
  <2>1. r.stale /\ a = t[p]
    BY <1>2, <1>5, Zenon
  <2> HIDE DEF r, a, force, h
  <2>2. h \in GitState
    BY <1>1, <1>2, <1>3, <1>4, ReadChangeType
  <2>3. /\ h.inFlight = g.inFlight /\ h.refreshing = g.refreshing
        /\ h.projectPath = g.projectPath /\ h.snapshots = g.snapshots
        /\ h.asked = [g.asked EXCEPT ![p] = t[p]]
        /\ h.reads = [g.reads EXCEPT ![i] = r]
    BY <1>4, <2>1 DEF GitState
  <2>4. Sound(g, h, t)
    BY <1>1, <1>2, <2>1, <2>2, <2>3, ReadChangeSound
  <2> QED
    BY <2>4 DEF h
<1>6. CASE ~force
  <2>1. a = g.asked[p] /\ (~r.stale => ~g.reads[i].stale)
    BY <1>2, <1>6, Zenon
  <2> HIDE DEF r, a, force, h
  <2>2. h \in GitState
    BY <1>1, <1>2, <1>3, <1>4, ReadChangeType
  <2>3. /\ h.inFlight = g.inFlight /\ h.refreshing = g.refreshing
        /\ h.projectPath = g.projectPath /\ h.snapshots = g.snapshots
        /\ h.asked = g.asked
        /\ h.reads = [g.reads EXCEPT ![i] = r]
    BY <1>4, <2>1 DEF GitState
  <2>4. ~r.stale => g.asked[p] <= r.start
    BY <1>2, <2>1 DEF Good, FreshIn
  <2>5. Sound(g, h, t)
    BY <1>1, <1>2, <2>2, <2>3, <2>4, ReadChangeSound
  <2> QED
    BY <2>5 DEF h
<1> QED
  BY <1>5, <1>6

LEMMA BeginType ==
  ASSUME NEW p \in Projects, NEW full \in BOOLEAN, NEW now \in Versions
  PROVE  /\ BeginRead(p, full, now) \in ReadState /\ BeginRead(p, full, now) # None
         /\ BeginRead(p, full, now).path = p /\ BeginRead(p, full, now).start = now
<1> DEFINE phase == IF full THEN "full" ELSE "workdir"
<1>1. phase \in Phases
  BY Zenon DEF Phases
<1>2. BeginRead(p, full, now) =
        [path |-> p, phase |-> phase, again |-> FALSE, full |-> full, stale |-> FALSE,
         start |-> now]
  BY Zenon DEF BeginRead
<1> HIDE DEF phase
<1>3. BeginRead(p, full, now) \in ReadState
  BY <1>1, <1>2 DEF ReadState
<1>4. BeginRead(p, full, now) # None
  BY <1>3, NoneIsNoRead
<1> QED
  BY <1>2, <1>3, <1>4

\* A read begins in a free slot, for a project that has none.
LEMMA StartSound ==
  ASSUME NEW g \in GitState, NEW t \in Trees, NEW p \in Projects, Good(g, t),
         NEW full \in BOOLEAN, NEW i \in FreeReads(g), g.inFlight[p] = None
  PROVE  Sound(g, StartRead(g, p, full, t[p], i), t)
<1>1. i \in Reads /\ g.reads[i] = None
  BY DEF FreeReads
<1>2. t[p] \in Versions
  BY DEF Trees
<1> DEFINE h == StartRead(g, p, full, t[p], i)
           r == BeginRead(p, full, t[p])
<1>3. r \in ReadState /\ r.path = p /\ r.start = t[p] /\ r # None
  <2>1. \A now \in Versions : /\ BeginRead(p, full, now) \in ReadState
                             /\ BeginRead(p, full, now) # None
                             /\ BeginRead(p, full, now).path = p
                             /\ BeginRead(p, full, now).start = now
    BY BeginType
  <2> QED
    BY <1>2, <2>1, Zenon
<1>4. h = [g EXCEPT !.inFlight[p] = i, !.reads[i] = r,
                    !.refreshing = @ \/ g.projectPath = p, !.asked[p] = t[p]]
  BY DEF StartRead
<1> HIDE DEF r, h
<1>5. h \in GitState
  BY <1>1, <1>2, <1>3, <1>4 DEF GitState
<1>6. /\ h.inFlight = [g.inFlight EXCEPT ![p] = i]
      /\ h.projectPath = g.projectPath /\ h.snapshots = g.snapshots
      /\ h.asked = [g.asked EXCEPT ![p] = t[p]]
      /\ h.reads = [g.reads EXCEPT ![i] = r]
      /\ h.refreshing = (g.refreshing \/ g.projectPath = p)
  BY <1>4 DEF GitState
<1>7. /\ h.inFlight[p] = i /\ h.reads[i] = r /\ h.asked[p] = t[p] /\ i # None
      /\ \A q \in Projects : q # p => /\ h.inFlight[q] = g.inFlight[q]
                                      /\ h.asked[q] = g.asked[q]
      /\ \A j \in Reads : j # i => h.reads[j] = g.reads[j]
  BY <1>1, <1>6, GitConstants DEF GitState
<1>8. \A q \in Projects : h.inFlight[q] # None /\ q # p =>
        h.inFlight[q] \in Reads /\ h.inFlight[q] # i
  BY <1>1, <1>7 DEF Good, EntriesIn, GitState
<1>9. EntriesIn(h)
  BY <1>3, <1>7, <1>8 DEF Good, EntriesIn
<1>10. RefreshingIn(h)
  <2>1. CASE g.projectPath = p
    BY <1>6, <1>7, <2>1, GitConstants, Zenon DEF Good, RefreshingIn
  <2>2. CASE g.projectPath # p
    <3>1. g.projectPath \in Projects \cup {None}
      BY DEF GitState
    <3>2. g.projectPath # None => h.inFlight[g.projectPath] = g.inFlight[g.projectPath]
      BY <1>7, <2>2, <3>1
    <3> QED
      BY <1>6, <2>2, <3>2, ZenonT(60) DEF Good, RefreshingIn
  <2> QED
    BY <2>1, <2>2
<1>11. /\ \A q \in Projects : g.asked[q] <= t[q] /\ t[q] \in Nat
  BY DEF Good, PastIn, Trees, Versions
<1>12. FreshIn(h)
  BY <1>3, <1>7, <1>8, <1>11 DEF Good, FreshIn
<1>13. PastIn(h, t)
  BY <1>3, <1>7, <1>11 DEF Good, PastIn
<1>14. Step(g, h, t)
  BY <1>6, <1>7 DEF Step
<1>15. Sound(g, h, t)
  BY <1>5, <1>9, <1>10, <1>12, <1>13, <1>14 DEF Sound, Good
<1> QED
  BY <1>15 DEF h

\* refresh, with the slot it finds.
LEMMA RefreshSound ==
  ASSUME NEW g \in GitState, NEW t \in Trees, NEW p \in Projects, Good(g, t),
         NEW behind \in BOOLEAN, NEW reuse \in BOOLEAN, NEW full \in BOOLEAN,
         CanRefresh(g, p)
  PROVE  Sound(g, refresh(g, p, behind, reuse, full, t[p]), t)
<1> DEFINE a == IF behind THEN g ELSE activate(g, p)
           b == IF a.inFlight[p] # None THEN JoinRead(a, p, reuse, full, t[p])
                ELSE StartRead(a, p, full, t[p], CHOOSE i \in FreeReads(a) : TRUE)
<1>1. /\ Sound(g, a, t) /\ a.inFlight = g.inFlight /\ a.reads = g.reads
  <2>1. CASE behind
    BY <2>1 DEF Sound, Step
  <2>2. CASE ~behind
    BY <2>2, ActivateSound
  <2> QED
    BY <2>1, <2>2
<1>2. a \in GitState /\ Good(a, t) /\ CanRefresh(a, p)
  BY <1>1 DEF Sound, CanRefresh, FreeReads
<1> HIDE DEF a
<1>3. CASE a.inFlight[p] # None
  <2>1. Sound(a, b, t)
    BY <1>2, <1>3, JoinSound
  <2>2. Sound(g, b, t)
    BY <1>1, <2>1, SoundTrans
  <2> QED
    BY <2>2 DEF refresh, a
<1>4. CASE a.inFlight[p] = None
  <2> DEFINE i == CHOOSE j \in FreeReads(a) : TRUE
  <2>1. i \in FreeReads(a)
    BY <1>2, <1>4 DEF CanRefresh
  <2>2. Sound(a, StartRead(a, p, full, t[p], i), t)
    <3> HIDE DEF i
    <3> QED
      BY <1>2, <1>4, <2>1, StartSound
  <2>3. Sound(g, b, t)
    BY <1>1, <1>4, <2>2, SoundTrans
  <2> QED
    BY <2>3 DEF refresh, a
<1> QED
  BY <1>3, <1>4

\* The entry of a read that ends goes with it, when it is still its own.
LEMMA EndSound ==
  ASSUME NEW g \in GitState, NEW t \in Trees, NEW i \in Reads, Good(g, t),
         g.reads[i] # None
  PROVE  Sound(g, EndRead(g, i), t)
<1> DEFINE h == EndRead(g, i)
           p == g.reads[i].path
           own == g.inFlight[p] = i
<1>1. p \in Projects /\ i # None
  BY GitConstants DEF GitState, ReadState
<1>2. /\ h = [g EXCEPT !.reads[i] = None, !.inFlight[p] = IF own THEN None ELSE @,
                      !.refreshing = @ /\ ~(own /\ g.projectPath = p)]
  BY DEF EndRead
<1> HIDE DEF h
<1>3. /\ h \in GitState
      /\ h.projectPath = g.projectPath /\ h.snapshots = g.snapshots /\ h.asked = g.asked
      /\ h.reads = [g.reads EXCEPT ![i] = None]
      /\ h.inFlight = [g.inFlight EXCEPT ![p] = IF own THEN None ELSE @]
      /\ h.refreshing = (g.refreshing /\ ~(own /\ g.projectPath = p))
  BY <1>1, <1>2 DEF GitState
<1>4. /\ h.reads[i] = None /\ \A j \in Reads : j # i => h.reads[j] = g.reads[j]
      /\ h.inFlight[p] = IF own THEN None ELSE g.inFlight[p]
      /\ \A q \in Projects : q # p => h.inFlight[q] = g.inFlight[q]
  BY <1>1, <1>3 DEF GitState
<1>5. \A q \in Projects : h.inFlight[q] # None =>
        h.inFlight[q] = g.inFlight[q] /\ h.inFlight[q] \in Reads /\ h.inFlight[q] # i
  <2> SUFFICES ASSUME NEW q \in Projects, h.inFlight[q] # None
               PROVE  /\ h.inFlight[q] = g.inFlight[q] /\ h.inFlight[q] \in Reads
                      /\ h.inFlight[q] # i
    OBVIOUS
  <2>1. h.inFlight[q] = g.inFlight[q] /\ h.inFlight[q] \in Reads
    BY <1>1, <1>4 DEF GitState
  <2>2. g.reads[g.inFlight[q]].path = q
    BY <2>1 DEF Good, EntriesIn
  <2> QED
    BY <1>1, <1>4, <2>1, <2>2
<1>6. EntriesIn(h)
  BY <1>4, <1>5 DEF Good, EntriesIn
<1>7. RefreshingIn(h)
  <2>1. CASE own /\ g.projectPath = p
    <3>1. h.inFlight[h.projectPath] = None
      BY <1>3, <1>4, <2>1
    <3>2. ~h.refreshing
      BY <1>3, <2>1, Zenon
    <3> QED
      BY <3>1, <3>2, Zenon DEF RefreshingIn
  <2>2. CASE ~(own /\ g.projectPath = p)
    <3>1. g.projectPath # None => h.inFlight[g.projectPath] = g.inFlight[g.projectPath]
      <4>1. g.projectPath \in Projects \cup {None}
        BY DEF GitState
      <4> QED
        BY <1>4, <2>2, <4>1
    <3> QED
      BY <1>3, <2>2, <3>1, ZenonT(60) DEF Good, RefreshingIn
  <2> QED
    BY <2>1, <2>2
<1>8. FreshIn(h)
  <2> SUFFICES ASSUME NEW q \in Projects, h.inFlight[q] # None,
                      ~h.reads[h.inFlight[q]].stale
               PROVE  h.asked[q] <= h.reads[h.inFlight[q]].start
    BY DEF FreshIn
  <2>1. /\ h.inFlight[q] = g.inFlight[q] /\ h.reads[h.inFlight[q]] = g.reads[g.inFlight[q]]
        /\ h.asked[q] = g.asked[q]
    BY <1>3, <1>4, <1>5, ZenonT(60)
  <2> QED
    BY <2>1 DEF Good, FreshIn
<1>9. PastIn(h, t)
  BY <1>3, <1>4 DEF Good, PastIn
<1>10. Step(g, h, t)
  BY <1>3 DEF Step
<1>11. Sound(g, h, t)
  BY <1>3, <1>6, <1>7, <1>8, <1>9, <1>10 DEF Sound, Good
<1> QED
  BY <1>11 DEF h

\* A read asked for again begins anew, when it still holds the entry.
LEMMA LoopSound ==
  ASSUME NEW g \in GitState, NEW t \in Trees, NEW i \in Reads, Good(g, t),
         g.reads[i] # None
  PROVE  Sound(g, LoopOrEnd(g, i, t[g.reads[i].path]), t)
<1> DEFINE p == g.reads[i].path
           full == g.reads[i].full
           r == BeginRead(p, full, t[p])
           h == [g EXCEPT !.reads[i] = r]
<1>1. p \in Projects /\ full \in BOOLEAN /\ t[p] \in Versions /\ i # None
  BY GitConstants DEF GitState, ReadState, Trees
<1>2. CASE g.reads[i].again /\ g.inFlight[p] = i
  <2>1. r \in ReadState /\ r.path = p /\ r.start = t[p]
    <3>1. \A now \in Versions : /\ BeginRead(p, full, now) \in ReadState
                               /\ BeginRead(p, full, now).path = p
                               /\ BeginRead(p, full, now).start = now
      <4> HIDE DEF p, full
      <4> QED
        BY <1>1, BeginType
    <3> QED
      BY <1>1, <3>1, Zenon
  <2>2. LoopOrEnd(g, i, t[p]) = h
    BY <1>2 DEF LoopOrEnd
  <2>3. t[p] \in Nat /\ g.asked[p] <= t[p]
    BY <1>1 DEF Good, PastIn, Versions
  <2>4. Sound(g, h, t)
    <3> HIDE DEF r, p
    <3>1. h \in GitState
      BY <2>1 DEF GitState
    <3>2. /\ h.inFlight = g.inFlight /\ h.asked = g.asked
          /\ h.refreshing = g.refreshing /\ h.projectPath = g.projectPath
          /\ h.snapshots = g.snapshots
          /\ h.reads = [g.reads EXCEPT ![i] = r]
      BY DEF GitState
    <3>3. r.start <= t[p] /\ h.asked[p] <= r.start
      BY <2>1, <2>3, <3>2
    <3> HIDE DEF h
    <3> QED
      BY <1>1, <1>2, <2>1, <3>1, <3>2, <3>3, ReadChangeSound
  <2> QED
    BY <2>2, <2>4
<1>3. CASE ~(g.reads[i].again /\ g.inFlight[p] = i)
  <2>1. LoopOrEnd(g, i, t[p]) = EndRead(g, i)
    BY <1>3 DEF LoopOrEnd
  <2> QED
    BY <2>1, EndSound
<1> QED
  BY <1>2, <1>3

\* A phase follows another in the read that is current.
LEMMA PhaseSound ==
  ASSUME NEW g \in GitState, NEW t \in Trees, NEW i \in Reads, NEW phase \in Phases,
         Good(g, t), g.reads[i] # None, IsCurrent(g, i)
  PROVE  Sound(g, [g EXCEPT !.reads[i].phase = phase], t)
<1> DEFINE p == g.reads[i].path
           r == [g.reads[i] EXCEPT !.phase = phase]
           h == [g EXCEPT !.reads[i].phase = phase]
<1>1. /\ g.reads[i] \in ReadState /\ p \in Projects /\ i # None
      /\ g.inFlight[p] = i /\ ~g.reads[i].stale
  BY GitConstants DEF GitState, ReadState, IsCurrent
<1>2. /\ r \in ReadState /\ r.path = p /\ r.start = g.reads[i].start
  BY <1>1 DEF ReadState
<1>3. r.start <= t[p] /\ g.asked[p] <= r.start
  BY <1>1, <1>2 DEF Good, PastIn, FreshIn
<1>4. h = [g EXCEPT !.reads[i] = r]
  OBVIOUS
<1> HIDE DEF r, p, h
<1>5. /\ h \in GitState
      /\ h.inFlight = g.inFlight /\ h.asked = g.asked
      /\ h.refreshing = g.refreshing /\ h.projectPath = g.projectPath
      /\ h.snapshots = g.snapshots
      /\ h.reads = [g.reads EXCEPT ![i] = r]
  BY <1>2, <1>4 DEF GitState
<1>6. Sound(g, h, t)
  BY <1>1, <1>2, <1>3, <1>5, ReadChangeSound
<1> QED
  BY <1>6 DEF h

\* What a current read publishes is fresh.
LEMMA PublishReadSound ==
  ASSUME NEW g \in GitState, NEW t \in Trees, NEW i \in Reads, NEW s \in MaybeStatus,
         NEW needsHead \in BOOLEAN, Good(g, t), g.reads[i] # None, IsCurrent(g, i),
         ~IsRead(s) \/ TreeRead(s) \in g.reads[i].start .. t[g.reads[i].path]
  PROVE  Sound(g, PublishRead(g, i, s, needsHead, t[g.reads[i].path]), t)
<1> DEFINE p == g.reads[i].path
           h == publish(g, p, s)
<1>1. /\ p \in Projects /\ i # None /\ g.reads[i].start \in Nat /\ t[p] \in Nat
      /\ g.inFlight[p] = i /\ ~g.reads[i].stale
  BY GitConstants DEF GitState, ReadState, IsCurrent, Trees, Versions
<1>2. g.asked[p] \in Nat /\ g.asked[p] <= g.reads[i].start
  BY <1>1 DEF Good, FreshIn, GitState, Versions
<1>3. MayPublish(g, t, p, s)
  <2> HIDE DEF p
  <2> QED
    BY <1>1, <1>2 DEF MayPublish, p
<1>4. Sound(g, h, t)
  <2> HIDE DEF p
  <2> QED
    BY <1>1, <1>3, PublishSound
<1>5. h.reads = g.reads /\ h.inFlight = g.inFlight
  BY DEF publish, GitState
<1>6. h \in GitState /\ Good(h, t) /\ IsCurrent(h, i)
  BY <1>4, <1>5 DEF Sound, IsCurrent
<1>7. CASE needsHead
  <2>1. Sound(h, [h EXCEPT !.reads[i].phase = "head"], t)
    <3>1. "head" \in Phases
      BY DEF Phases
    <3> HIDE DEF h
    <3> QED
      BY <1>5, <1>6, <3>1, PhaseSound
  <2> QED
    BY <1>4, <1>7, <2>1, SoundTrans DEF PublishRead
<1>8. CASE ~needsHead
  <2>1. Sound(h, LoopOrEnd(h, i, t[h.reads[i].path]), t)
    <3> HIDE DEF h
    <3> QED
      BY <1>5, <1>6, LoopSound
  <2> QED
    BY <1>4, <1>5, <1>8, <2>1, SoundTrans DEF PublishRead
<1> QED
  BY <1>7, <1>8

LEMMA StatusTypes ==
  /\ \A v \in Versions : /\ Shown(v) \in MaybeStatus /\ TreeRead(Shown(v)) = v
                         /\ Guess(v) \in MaybeStatus /\ ~IsRead(Guess(v))
  /\ NotRepository \in MaybeStatus /\ ~IsRead(NotRepository)
BY GitConstants DEF Shown, Guess, NotRepository, MaybeStatus, Status, Versions, TreeRead, IsRead

\* Every answer of a read is a sound step.
LEMMA ReadStepSound ==
  ASSUME git \in GitState, tree \in Trees, Good(git, tree), NEW i \in Reads, ReadStep(i)
  PROVE  Sound(git, git', tree)
<1> DEFINE p == git.reads[i].path
<1>1. ASSUME git.reads[i] # None, git' = LoopOrEnd(git, i, tree[p])
      PROVE  Sound(git, git', tree)
  BY <1>1, LoopSound
<1>2. ASSUME git.reads[i] # None, git' = EndRead(git, i)
      PROVE  Sound(git, git', tree)
  BY <1>2, EndSound
<1>3. ASSUME git.reads[i] # None, IsCurrent(git, i), NEW needsHead \in BOOLEAN,
             NEW ver \in Versions, ver \in git.reads[i].start .. tree[p],
             git' = PublishRead(git, i, Shown(ver), needsHead, tree[p])
      PROVE  Sound(git, git', tree)
  BY <1>3, StatusTypes, PublishReadSound
<1>4. ASSUME git.reads[i] # None, IsCurrent(git, i),
             git' = PublishRead(git, i, NotRepository, FALSE, tree[p])
      PROVE  Sound(git, git', tree)
  BY <1>4, StatusTypes, PublishReadSound
<1>5. ASSUME NEW ver \in Versions, NEW needsHead \in BOOLEAN,
             WorkdirAnswers(i, ver, needsHead) \/ StatusAnswers(i, ver, needsHead)
      PROVE  Sound(git, git', tree)
  BY <1>5, <1>1, <1>3 DEF WorkdirAnswers, StatusAnswers
<1>6. CASE WorkdirAnswersNull(i)
  <2>1. CASE git' = [git EXCEPT !.reads[i].phase = "confirm"] /\ IsCurrent(git, i)
    <3>1. "confirm" \in Phases
      BY DEF Phases
    <3>2. git.reads[i] # None
      BY <1>6 DEF WorkdirAnswersNull
    <3>3. Sound(git, [git EXCEPT !.reads[i].phase = "confirm"], tree)
      BY <2>1, <3>1, <3>2, PhaseSound
    <3> QED
      BY <2>1, <3>3
  <2> QED
    BY <1>6, <1>1, <1>4, <2>1 DEF WorkdirAnswersNull
<1>7. CASE NoRepositoryAnswers(i)
  BY <1>7, <1>1, <1>4 DEF NoRepositoryAnswers
<1>8. CASE HeadAnswers(i)
  BY <1>8, <1>1 DEF HeadAnswers
<1>9. CASE ReadFails(i)
  BY <1>9, <1>1, <1>2 DEF ReadFails
<1> QED
  BY <1>5, <1>6, <1>7, <1>8, <1>9 DEF ReadStep

\* The panel's own guesses, and what it fills in.
LEMMA SetPanelSound ==
  ASSUME NEW g \in GitState, NEW t \in Trees, NEW p \in Projects, NEW s \in MaybeStatus,
         NEW same \in BOOLEAN, Good(g, t), s = g.snapshots[p] \/ ~IsRead(s)
  PROVE  Sound(g, setPanelStatus(g, p, s, same), t)
<1> DEFINE a == IF g.projectPath = None THEN activate(g, p) ELSE g
           b == IF same THEN a ELSE Outdate(a, p)
<1>1. Sound(g, a, t) /\ a.snapshots = g.snapshots
  BY ActivateSound DEF Sound, Step
<1>2. Sound(g, b, t) /\ b.snapshots = g.snapshots
  <2>1. a \in GitState /\ Good(a, t)
    BY <1>1 DEF Sound
  <2> HIDE DEF a
  <2>2. Sound(a, Outdate(a, p), t) /\ Outdate(a, p).snapshots = a.snapshots
    BY <2>1, OutdateSound
  <2> QED
    BY <1>1, <2>2, SoundTrans
<1>3. b \in GitState /\ Good(b, t) /\ MayPublish(b, t, p, s)
  BY <1>2 DEF Sound, MayPublish
<1>4. Sound(b, publish(b, p, s), t)
  <2> HIDE DEF b
  <2> QED
    BY <1>3, PublishSound
<1>5. setPanelStatus(g, p, s, same) = publish(b, p, s)
  BY DEF setPanelStatus
<1> HIDE DEF b
<1> QED
  BY <1>2, <1>4, <1>5, SoundTrans

LEMMA ApplySound ==
  ASSUME NEW g \in GitState, NEW t \in Trees, NEW p \in Projects, NEW s \in MaybeStatus,
         Good(g, t), ~IsRead(s)
  PROVE  Sound(g, applyFromGitStatus(g, p, s), t)
<1> DEFINE a == activate(g, p)
           b == [a EXCEPT !.timers = @ \ {p}]
           c == Outdate(b, p)
<1>1. Sound(g, a, t)
  BY ActivateSound
<1>2. Sound(g, b, t)
  <2>1. a \in GitState /\ Good(a, t)
    BY <1>1 DEF Sound
  <2>2. a.timers \ {p} \in SUBSET Projects
    BY <2>1 DEF GitState
  <2> HIDE DEF a
  <2>3. Sound(a, b, t)
    BY <2>1, <2>2, TimersSound
  <2> QED
    BY <1>1, <2>3, SoundTrans
<1>3. Sound(g, c, t)
  <2>1. b \in GitState /\ Good(b, t)
    BY <1>2 DEF Sound
  <2> HIDE DEF b
  <2> QED
    BY <1>2, <2>1, OutdateSound, SoundTrans
<1>4. c \in GitState /\ Good(c, t)
  BY <1>3 DEF Sound
<1>5. applyFromGitStatus(g, p, s) = publish(c, p, s)
  BY DEF applyFromGitStatus
<1> HIDE DEF c
<1>6. Sound(c, publish(c, p, s), t)
  BY <1>4, PublishSound DEF MayPublish
<1> QED
  BY <1>3, <1>5, <1>6, SoundTrans

LEMMA TimerSound ==
  ASSUME git \in GitState, tree \in Trees, Good(git, tree),
         NEW p \in Projects, TimerFires(p)
  PROVE  Sound(git, git', tree)
<1> DEFINE h == [git EXCEPT !.timers = @ \ {p}]
<1>1. git.timers \ {p} \in SUBSET Projects
  BY DEF GitState
<1>2. Sound(git, h, tree)
  BY <1>1, TimersSound
<1>3. CanRefresh(h, p)
  BY DEF TimerFires, CanRefresh, FreeReads, GitState
<1>4. h \in GitState /\ Good(h, tree)
  BY <1>2 DEF Sound
<1> HIDE DEF h
<1>5. Sound(h, refresh(h, p, TRUE, FALSE, FALSE, tree[p]), tree)
  BY <1>3, <1>4, RefreshSound
<1>6. Sound(git, refresh(h, p, TRUE, FALSE, FALSE, tree[p]), tree)
  BY <1>2, <1>5, SoundTrans
<1> QED
  BY <1>6 DEF TimerFires, h

LEMMA CallsSound ==
  ASSUME git \in GitState, tree \in Trees, Good(git, tree), NEW p \in Projects, Calls(p)
  PROVE  Sound(git, git', tree)
<1>1. CASE git' = activate(git, p)
  BY <1>1, ActivateSound
<1>2. CASE git' = clear(git)
  BY <1>2, ClearSound
<1>3. CASE \E ver \in Versions : git' = applyFromGitStatus(git, p, Guess(ver))
  BY <1>3, StatusTypes, ApplySound
<1>4. CASE \E ver \in Versions : git' = setPanelStatus(git, p, Guess(ver), FALSE)
  BY <1>4, StatusTypes, SetPanelSound
<1>5. CASE git' = setPanelStatus(git, p, git.snapshots[p], TRUE)
  <2>1. git.snapshots[p] \in MaybeStatus
    BY DEF GitState
  <2> QED
    BY <1>5, <2>1, SetPanelSound
<1>6. CASE git' = clearPanelStatus(git, p)
  BY <1>6, ClearPanelSound
<1>7. CASE git' = scheduleRefresh(git, p)
  <2>1. git.timers \cup {p} \in SUBSET Projects
    BY DEF GitState
  <2> QED
    BY <1>7, <2>1, TimersSound, GitConstants DEF scheduleRefresh
<1>8. CASE /\ CanRefresh(git, p)
           /\ \E behind, reuseInFlight, full \in BOOLEAN :
                git' = refresh(git, p, behind, reuseInFlight, full, tree[p])
  BY <1>8, RefreshSound
<1> QED
  BY <1>1, <1>2, <1>3, <1>4, <1>5, <1>6, <1>7, <1>8 DEF Calls

----------------------------------------------------------------------------
(* The store.                                                              *)

GitInv == git \in GitState /\ tree \in Trees /\ Good(git, tree)

LEMMA GitStart == GitInit => GitInv
<1> SUFFICES ASSUME GitInit PROVE GitInv
  OBVIOUS
<1>1. 0 \in Versions /\ None \in MaybeStatus
  BY GitConstants DEF Versions, MaybeStatus
<1>2. /\ git.inFlight = [p \in Projects |-> None] /\ git.reads = [i \in Reads |-> None]
      /\ git.asked = [p \in Projects |-> 0] /\ git.projectPath = None
      /\ git.refreshing = FALSE /\ tree = [p \in Projects |-> 0]
  BY DEF GitInit, EmptyStore
<1>3. git \in GitState
  BY <1>1 DEF GitInit, EmptyStore, GitState
<1>4. tree \in Trees
  BY <1>1, <1>2 DEF Trees
<1>5. RefreshingIn(git)
  BY <1>2, Zenon DEF RefreshingIn
<1>6. EntriesIn(git) /\ FreshIn(git) /\ PastIn(git, tree)
  BY <1>2 DEF EntriesIn, FreshIn, PastIn
<1> QED
  BY <1>3, <1>4, <1>5, <1>6 DEF GitInv, Good

LEMMA TreeStep ==
  ASSUME GitInv, NEW p \in Projects, TreeChanges(p)
  PROVE  GitInv' /\ \A q \in Projects : tree'[q] >= tree[q]
<1>1. /\ \A q \in Projects : tree[q] \in Nat /\ tree'[q] \in Nat /\ tree'[q] >= tree[q]
      /\ tree' \in Trees /\ git' = git
  BY GitConstants DEF GitInv, TreeChanges, Trees, Versions
<1>2. \A q \in Projects : git.asked[q] \in Nat /\ git.asked[q] <= tree'[q]
  BY <1>1 DEF GitInv, Good, PastIn, GitState, Versions
<1>3. \A i \in Reads : git.reads[i] # None => git.reads[i].start <= tree'[git.reads[i].path]
  <2> SUFFICES ASSUME NEW i \in Reads, git.reads[i] # None
               PROVE  git.reads[i].start <= tree'[git.reads[i].path]
    OBVIOUS
  <2>1. /\ git.reads[i].path \in Projects /\ git.reads[i].start \in Nat
        /\ git.reads[i].start <= tree[git.reads[i].path]
    BY DEF GitInv, Good, PastIn, GitState, ReadState, Versions
  <2> QED
    BY <1>1, <2>1
<1>4. PastIn(git', tree')
  BY <1>1, <1>2, <1>3 DEF PastIn
<1> QED
  BY <1>1, <1>4 DEF GitInv, Good

\* A step of the store or of its callers, the trees unchanged, or of a tree.
LEMMA GitStep ==
  ASSUME GitInv, GitNext
  PROVE  GitInv' /\ ((Sound(git, git', tree) /\ UNCHANGED tree)
                       \/ \E p \in Projects : TreeChanges(p))
<1>1. ASSUME Sound(git, git', tree), UNCHANGED tree
      PROVE  GitInv'
  BY <1>1 DEF GitInv, Sound
<1>2. CASE \E i \in Reads : ReadStep(i) /\ UNCHANGED tree
  BY <1>1, <1>2, ReadStepSound DEF GitInv
<1>3. CASE \E p \in Projects : (TimerFires(p) \/ Calls(p)) /\ UNCHANGED tree
  BY <1>1, <1>3, TimerSound, CallsSound DEF GitInv
<1>4. CASE \E p \in Projects : TreeChanges(p)
  BY <1>4, TreeStep
<1> QED
  BY <1>2, <1>3, <1>4 DEF GitNext

LEMMA GitInductive == GitSpec => []GitInv
<1>1. GitInit => GitInv
  BY GitStart
<1>2. GitInv /\ [GitNext]_gitVars => GitInv'
  <2>1. CASE GitNext
    BY <2>1, GitStep
  <2>2. CASE UNCHANGED gitVars
    BY <2>2 DEF gitVars, GitInv
  <2> QED
    BY <2>1, <2>2
<1> QED
  BY <1>1, <1>2, PTL DEF GitSpec

\* The store keeps its type, under any callers.
THEOREM GitTypeCorrect == GitSpec => []gitTypeOK
<1>1. GitInv => gitTypeOK
  BY DEF GitInv, gitTypeOK, Trees
<1> QED
  BY <1>1, GitInductive, PTL

\* The spinner turns exactly while the active project is read (activate,
\* clear, refresh and the end of a read all set it, from different facts).
THEOREM SpinnerIsReading == GitSpec => []RefreshingIsReading
<1>1. GitInv => RefreshingIsReading
  BY DEF GitInv, Good, RefreshingIn, RefreshingIsReading
<1> QED
  BY <1>1, GitInductive, PTL

\* An entry of inFlight is a read that runs, and one that may still publish
\* began after the last request that refused older results.
THEOREM EntriesAreFresh == GitSpec => [](EntriesAreReads /\ PublishableIsFresh)
<1>1. GitInv => EntriesAreReads /\ PublishableIsFresh
  BY DEF GitInv, Good, EntriesIn, FreshIn, EntriesAreReads, PublishableIsFresh
<1> QED
  BY <1>1, GitInductive, PTL

\* The store implements FreshBadge: no badge goes back behind a change that
\* was announced, whatever reads were joined, repeated or overtaken.
THEOREM BadgesAreFresh == GitSpec => BadgesStayFresh
<1>1. GitInit => Badge!BadgeInit
  <2> SUFFICES ASSUME GitInit PROVE Badge!BadgeInit
    OBVIOUS
  <2>1. /\ git.snapshots = [p \in Projects |-> None] /\ git.asked = [p \in Projects |-> 0]
        /\ tree = [p \in Projects |-> 0]
    BY DEF GitInit, EmptyStore
  <2> QED
    BY <2>1, GitConstants DEF Badge!BadgeInit, MaybeStatus, IsRead
<1>2. GitInv /\ [GitNext]_gitVars => [Badge!BadgeNext]_(Badge!badgeVars)
  <2> SUFFICES ASSUME GitInv, GitNext PROVE Badge!BadgeNext \/ UNCHANGED Badge!badgeVars
    BY DEF gitVars, Badge!badgeVars
  <2>1. CASE Sound(git, git', tree) /\ UNCHANGED tree
    <3>1. \A p \in Projects : tree[p] \in Nat
      BY DEF GitInv, Trees, Versions
    <3> QED
      BY <2>1, <3>1 DEF Sound, Step, Badge!BadgeNext, Badge!Asks, Badge!Shows
  <2>2. CASE \E p \in Projects : TreeChanges(p)
    <3>1. git' = git /\ \A q \in Projects : tree'[q] >= tree[q]
      BY <2>2, TreeStep DEF TreeChanges
    <3> QED
      BY <3>1 DEF Badge!BadgeNext, Badge!Asks, Badge!Shows
  <2> QED
    BY <2>1, <2>2, GitStep
<1> QED
  BY <1>1, <1>2, GitInductive, PTL DEF GitSpec, BadgesStayFresh, Badge!BadgeSpec

----------------------------------------------------------------------------
(* The calls under way: lemmas about values ts and g, what a turn has made *)
(* of tasks and of the store so far.                                       *)

\* The part of the type invariant that is about the calls: one that waits
\* for a read or a call waits for one that exists.
TasksIn(ts, g) ==
  /\ ts \in [Slots -> TaskState \cup {None}]
  /\ \A k \in Slots : ts[k] # None =>
       /\ ArgOK(ts[k])
       /\ ts[k].step = "read" => ts[k].on \in Reads /\ g.reads[ts[k].on] # None
       /\ ts[k].step = "await" => ts[k].on \in Slots /\ ts[ts[k].on] # None

\* A call that may still publish in a pane of the history.
Shows(r) == r # None /\ r.kind \in {"files", "diff"} /\ r.fresh

\* Those calls are the same.
Keeps(ts, us) ==
  \A k \in Slots :
    /\ Shows(us[k]) <=> Shows(ts[k])
    /\ Shows(ts[k]) => /\ us[k].kind = ts[k].kind /\ us[k].path = ts[k].path
                       /\ us[k].arg = ts[k].arg

\* A turn that has not used the free slots yet.
Spares(ts) == \A k \in Slots : tasks[k] = None => ts[k] = None

\* The least of some numbers.
LEMMA Least ==
  ASSUME NEW T \in SUBSET Nat, T # {}
  PROVE  \E x \in T : \A y \in T : x <= y
<1> DEFINE R == {ss \in Nat \X Nat : ss[1] < ss[2]}
<1>1. IsWellFoundedOn(R, Nat)
  BY NatLessThanWellFounded DEF OpToRel
<1>2. PICK x \in T : \A y \in T : <<y, x>> \notin R
  <2> HIDE DEF R
  <2> QED
    BY <1>1, WFMin
<1>3. \A y \in T : ~(y < x)
  BY <1>2
<1> QED
  BY <1>2, <1>3

\* Room for a call means a slot for it.
LEMMA RoomIsFree ==
  ASSUME Room(1)
  PROVE  FreeSlot(1) \in Slots /\ tasks[FreeSlot(1)] = None
<1> DEFINE Free == Slots \ Busy
<1>1. MaxTasks \in Nat /\ IsFiniteSet(Slots) /\ Cardinality(Slots) = MaxTasks
  BY ScmConstants, FS_Interval DEF Slots
<1>2. Free # {}
  <2>1. SUFFICES ASSUME Busy = Slots PROVE FALSE
    BY DEF Busy
  <2> QED
    BY <1>1, <2>1 DEF Room
<1>3. PICK k \in Free : \A l \in Free : k <= l
  <2>1. Free \in SUBSET Nat
    BY <1>1, ScmConstants DEF Slots
  <2> HIDE DEF Free
  <2> QED
    BY <1>2, <2>1, Least
<1>4. {l \in Free : l < k} = {}
  BY <1>3 DEF Slots
<1>5. Cardinality({l \in Free : l < k}) = 1 - 1
  BY <1>4, FS_EmptySet
<1>6. FreeSlot(1) \in Free
  <2> HIDE DEF Free
  <2>1. \E m \in Free : Cardinality({l \in Free : l < m}) = 1 - 1
    BY <1>3, <1>5
  <2>2. FreeSlot(1) = CHOOSE m \in Free : Cardinality({l \in Free : l < m}) = 1 - 1
    BY DEF FreeSlot, Free
  <2> QED
    BY <2>1, <2>2
<1> QED
  BY <1>6 DEF Busy

LEMMA StaleRecord ==
  ASSUME NEW r \in TaskState
  PROVE  LET s == [r EXCEPT !.fresh = FALSE]
         IN  s \in TaskState /\ s # None /\ ~Shows(s) /\ (ArgOK(r) => ArgOK(s))
               /\ s.kind = r.kind /\ s.step = r.step /\ s.on = r.on
<1> DEFINE s == [r EXCEPT !.fresh = FALSE]
<1>1. /\ s \in TaskState /\ s.kind = r.kind /\ s.step = r.step /\ s.arg = r.arg
      /\ s.fresh = FALSE /\ s.on = r.on
  BY DEF TaskState
<1>2. s # None
  BY <1>1, NoneIsNoTask
<1> QED
  BY <1>1, <1>2 DEF Shows, ArgOK

\* Requests that are no longer current change in no other respect.
LEMMA BumpTasks ==
  ASSUME NEW ts, NEW g, TasksIn(ts, g), NEW K
  PROVE  /\ TasksIn(Bump(ts, K), g)
         /\ Spares(ts) => Spares(Bump(ts, K))
         /\ \A k \in Slots : Shows(Bump(ts, K)[k]) => Bump(ts, K)[k] = ts[k] /\ ts[k].kind \notin K
         /\ \A k \in Slots : Bump(ts, K)[k] = None <=> ts[k] = None
         /\ K \cap {"files", "diff"} = {} => Keeps(ts, Bump(ts, K))
<1> DEFINE us == Bump(ts, K)
<1>1. ASSUME NEW k \in Slots
      PROVE  /\ us[k] \in TaskState \cup {None}
             /\ us[k] = None <=> ts[k] = None
             /\ us[k] # None => ArgOK(us[k]) /\ us[k].step = ts[k].step /\ us[k].on = ts[k].on
             /\ Shows(us[k]) => us[k] = ts[k] /\ ts[k].kind \notin K
             /\ us[k] = ts[k] \/ ts[k].kind \in K
             /\ us[k] # None => us[k].kind = ts[k].kind
  <2>1. CASE ts[k] # None /\ ts[k].kind \in K
    <3>1. us[k] = [ts[k] EXCEPT !.fresh = FALSE] /\ ts[k] \in TaskState /\ ArgOK(ts[k])
      BY <2>1 DEF Bump, TasksIn
    <3>2. /\ us[k] \in TaskState /\ us[k] # None /\ ~Shows(us[k]) /\ ArgOK(us[k])
          /\ us[k].step = ts[k].step /\ us[k].on = ts[k].on /\ us[k].kind = ts[k].kind
      BY <3>1, StaleRecord
    <3> QED
      BY <2>1, <3>2
  <2>2. CASE ~(ts[k] # None /\ ts[k].kind \in K)
    <3>1. us[k] = ts[k]
      BY <2>2 DEF Bump
    <3> QED
      BY <2>2, <3>1 DEF TasksIn, Shows
  <2> QED
    BY <2>1, <2>2
<1>2. us = [k \in Slots |-> us[k]]
  BY DEF Bump
<1>3. TasksIn(us, g)
  <2> HIDE DEF us
  <2> QED
    BY <1>1, <1>2 DEF TasksIn
<1>4. Spares(ts) => Spares(us)
  <2> HIDE DEF us
  <2> QED
    BY <1>1 DEF Spares
<1>5. K \cap {"files", "diff"} = {} => Keeps(ts, us)
  <2> HIDE DEF us
  <2> QED
    BY <1>1 DEF Keeps, Shows
<1>6. \A k \in Slots : /\ us[k] = None <=> ts[k] = None
                       /\ Shows(us[k]) => us[k] = ts[k] /\ ts[k].kind \notin K
  BY <1>1, Zenon
<1> QED
  BY <1>3, <1>4, <1>5, <1>6, Zenon

LEMMA ResumedRecord ==
  ASSUME NEW r \in TaskState, ArgOK(r), r.step \in {"await", "read"}, NEW s,
         \/ s = [r EXCEPT !.step = "resumed", !.on = None]
         \/ s = [r EXCEPT !.on = None, !.step = "resumed"]
         \/ s = [r EXCEPT !.on = None, !.step = "rejected"]
  PROVE  /\ s \in TaskState /\ s # None /\ ~Shows(s) /\ ~Shows(r) /\ ArgOK(s)
         /\ s.step \in {"resumed", "rejected"} /\ s.kind = r.kind
<1>1. r.kind \notin LoadKinds
  BY DEF ArgOK
<1>2. /\ s \in TaskState /\ s.kind = r.kind /\ s.arg = r.arg
      /\ s.step \in {"resumed", "rejected"}
  BY ZenonT(60) DEF TaskState, Steps, Awaited
<1>3. s # None
  BY <1>2, NoneIsNoTask
<1>4. r.kind \notin {"files", "diff", "commits", "more"}
  BY <1>1 DEF LoadKinds
<1> QED
  BY <1>1, <1>2, <1>3, <1>4 DEF Shows, ArgOK

\* The end of a call: its slot is free, and who waited for it goes on.
LEMMA FinishTasks ==
  ASSUME NEW ts, NEW g, TasksIn(ts, g), NEW k
  PROVE  /\ TasksIn(Finish(ts, k), g)
         /\ Spares(ts) => Spares(Finish(ts, k))
         /\ \A l \in Slots : l # k /\ ts[l] # None => Finish(ts, k)[l] # None
         /\ \A l \in Slots : l = k \/ ts[l] = None => Finish(ts, k)[l] = None
         /\ \A l \in Slots : Shows(Finish(ts, k)[l]) => Finish(ts, k)[l] = ts[l] /\ l # k
         /\ \A l \in Slots : Shows(ts[l]) /\ l # k => Finish(ts, k)[l] = ts[l]
         /\ ~Shows(ts[k]) => Keeps(ts, Finish(ts, k))
<1> DEFINE us == Finish(ts, k)
<1>1. ASSUME NEW l \in Slots
      PROVE  /\ us[l] \in TaskState \cup {None}
             /\ l = k \/ ts[l] = None => us[l] = None
             /\ l # k /\ ts[l] # None => us[l] # None
             /\ us[l] # None => ArgOK(us[l])
             /\ us[l] # None /\ us[l].step = "await" => us[l] = ts[l] /\ ts[l].on # k
             /\ us[l] # None /\ us[l].step = "read" => us[l] = ts[l]
             /\ Shows(us[l]) => us[l] = ts[l] /\ l # k
             /\ Shows(ts[l]) /\ l # k => us[l] = ts[l]
  <2>1. CASE l = k
    <3>1. us[l] = None
      BY <2>1 DEF Finish
    <3> QED
      BY <2>1, <3>1 DEF Shows
  <2>2. CASE l # k /\ ts[l] # None /\ ts[l].step = "await" /\ ts[l].on = k
    <3>1. /\ us[l] = [ts[l] EXCEPT !.step = "resumed", !.on = None]
          /\ ts[l] \in TaskState /\ ArgOK(ts[l])
      BY <2>2 DEF Finish, TasksIn
    <3>2. /\ us[l] \in TaskState /\ us[l] # None /\ ~Shows(us[l]) /\ ~Shows(ts[l])
          /\ ArgOK(us[l]) /\ us[l].step \in {"resumed", "rejected"}
      <4> HIDE DEF us
      <4>1. ts[l].step \in {"await", "read"}
        BY <2>2
      <4> QED
        BY <3>1, <4>1, ResumedRecord
    <3> QED
      BY <2>2, <3>2
  <2>3. CASE l # k /\ ~(ts[l] # None /\ ts[l].step = "await" /\ ts[l].on = k)
    <3>1. us[l] = ts[l]
      BY <2>3 DEF Finish
    <3> QED
      BY <2>3, <3>1 DEF TasksIn
  <2> QED
    BY <2>1, <2>2, <2>3
<1>2. us = [l \in Slots |-> us[l]]
  BY DEF Finish
<1> HIDE DEF us
<1>3. TasksIn(us, g)
  <2>1. us \in [Slots -> TaskState \cup {None}]
    BY <1>1, <1>2
  <2>2. ASSUME NEW l \in Slots, us[l] # None
        PROVE  /\ ArgOK(us[l])
               /\ us[l].step = "read" => us[l].on \in Reads /\ g.reads[us[l].on] # None
               /\ us[l].step = "await" => us[l].on \in Slots /\ us[us[l].on] # None
    BY <1>1, <2>2 DEF TasksIn
  <2> QED
    BY <2>1, <2>2 DEF TasksIn
<1>4. Spares(ts) => Spares(us)
  BY <1>1 DEF Spares
<1>5. ~Shows(ts[k]) => Keeps(ts, us)
  BY <1>1 DEF Keeps
<1>6. /\ \A l \in Slots : l # k /\ ts[l] # None => us[l] # None
      /\ \A l \in Slots : l = k \/ ts[l] = None => us[l] = None
      /\ \A l \in Slots : Shows(us[l]) => us[l] = ts[l] /\ l # k
      /\ \A l \in Slots : Shows(ts[l]) /\ l # k => us[l] = ts[l]
  BY <1>1
<1> QED
  BY <1>3, <1>4, <1>5, <1>6, Zenon DEF us

\* A call begins in a slot; the first one finds it free.
LEMMA StartTasks ==
  ASSUME NEW ts, NEW g, TasksIn(ts, g), NEW n, NEW r \in TaskState, ArgOK(r),
         r.step = "read" => r.on \in Reads /\ g.reads[r.on] # None,
         r.step # "await"
  PROVE  /\ TasksIn(Start(ts, n, r), g)
         /\ \A k \in Slots : k # FreeSlot(n) => Start(ts, n, r)[k] = ts[k]
         /\ \A k \in Slots : ts[k] # None => Start(ts, n, r)[k] # None
         /\ \A k \in Slots : Start(ts, n, r)[k] \in {ts[k], r}
         /\ FreeSlot(n) \in Slots => Start(ts, n, r)[FreeSlot(n)] = r
         /\ ts[FreeSlot(n)] = None /\ ~Shows(r) => Keeps(ts, Start(ts, n, r))
<1> DEFINE us == Start(ts, n, r)
           f == FreeSlot(n)
<1>1. r # None
  BY NoneIsNoTask
<1>2. /\ us \in [Slots -> TaskState \cup {None}]
      /\ \A k \in Slots : k # f => us[k] = ts[k]
      /\ f \in Slots => us[f] = r
  BY DEF Start, TasksIn
<1> HIDE DEF us, f
<1>3. \A k \in Slots : us[k] \in {ts[k], r} /\ (ts[k] # None => us[k] # None)
  BY <1>1, <1>2
<1>4. TasksIn(us, g)
  <2>1. ASSUME NEW k \in Slots, us[k] # None
        PROVE  /\ ArgOK(us[k])
               /\ us[k].step = "read" => us[k].on \in Reads /\ g.reads[us[k].on] # None
               /\ us[k].step = "await" => us[k].on \in Slots /\ us[us[k].on] # None
    <3>1. CASE us[k] = r
      BY <3>1
    <3>2. CASE us[k] = ts[k]
      <4>1. /\ ArgOK(ts[k])
            /\ ts[k].step = "read" => ts[k].on \in Reads /\ g.reads[ts[k].on] # None
            /\ ts[k].step = "await" => ts[k].on \in Slots /\ ts[ts[k].on] # None
        BY <2>1, <3>2 DEF TasksIn
      <4> QED
        BY <3>2, <4>1, <1>3
    <3> QED
      BY <1>3, <3>1, <3>2
  <2> QED
    BY <1>2, <2>1 DEF TasksIn
<1>5. ts[f] = None /\ ~Shows(r) => Keeps(ts, us)
  <2>1. ~Shows(None)
    BY DEF Shows
  <2> QED
    BY <1>2, <2>1 DEF Keeps
<1> QED
  BY <1>2, <1>3, <1>4, <1>5, Zenon DEF us, f

LEMMA KeepsTrans ==
  ASSUME NEW ts, NEW us, NEW vs, Keeps(ts, us), Keeps(us, vs)
  PROVE  Keeps(ts, vs)
BY DEF Keeps

LEMMA KeepsSelf == ASSUME NEW ts PROVE Keeps(ts, ts)
BY DEF Keeps

\* Reads that go on: what waited for one still does.
ReadsStay(g, h) == \A i \in Reads : g.reads[i] # None => h.reads[i] # None

LEMMA StayTasks ==
  ASSUME NEW ts, NEW g, NEW h, TasksIn(ts, g), ReadsStay(g, h)
  PROVE  TasksIn(ts, h)
BY DEF TasksIn, ReadsStay

\* A request of a panel that is not loading any more.
LEMMA LoadedTasks ==
  ASSUME NEW ts, NEW g, TasksIn(ts, g), NEW mode
  PROVE  /\ TasksIn(Loaded(ts, mode), g)
         /\ Spares(ts) => Spares(Loaded(ts, mode))
         /\ \A k \in Slots : Loaded(ts, mode)[k] = None <=> ts[k] = None
         /\ Keeps(ts, Loaded(ts, mode))
<1> DEFINE us == Loaded(ts, mode)
<1>1. ASSUME NEW k \in Slots
      PROVE  /\ us[k] \in TaskState \cup {None}
             /\ us[k] = None <=> ts[k] = None
             /\ us[k] # None => ArgOK(us[k]) /\ us[k].step = ts[k].step /\ us[k].on = ts[k].on
             /\ Shows(us[k]) <=> Shows(ts[k])
             /\ Shows(ts[k]) => /\ us[k].kind = ts[k].kind /\ us[k].path = ts[k].path
                                /\ us[k].arg = ts[k].arg
  <2>1. CASE ts[k] # None /\ mode # "quiet"
    <3>1. us[k] = [ts[k] EXCEPT !.loads = FALSE] /\ ts[k] \in TaskState /\ ArgOK(ts[k])
      BY <2>1 DEF Loaded, TasksIn
    <3>2. /\ us[k] \in TaskState /\ us[k].kind = ts[k].kind /\ us[k].path = ts[k].path
          /\ us[k].arg = ts[k].arg /\ us[k].step = ts[k].step /\ us[k].on = ts[k].on
          /\ us[k].fresh = ts[k].fresh
      <4> HIDE DEF us
      <4> QED
        BY <3>1 DEF TaskState
    <3>3. us[k] # None
      BY <3>2, NoneIsNoTask
    <3> HIDE DEF us
    <3> QED
      BY <2>1, <3>1, <3>2, <3>3 DEF ArgOK, Shows
  <2>2. CASE ~(ts[k] # None /\ mode # "quiet")
    <3>1. us[k] = ts[k]
      BY <2>2 DEF Loaded
    <3> QED
      BY <2>2, <3>1 DEF TasksIn
  <2> QED
    BY <2>1, <2>2
<1>2. us = [k \in Slots |-> us[k]]
  BY DEF Loaded
<1> HIDE DEF us
<1>3. TasksIn(us, g)
  BY <1>1, <1>2 DEF TasksIn
<1>4. Spares(ts) => Spares(us)
  BY <1>1 DEF Spares
<1>5. Keeps(ts, us)
  BY <1>1 DEF Keeps
<1>6. \A k \in Slots : us[k] = None <=> ts[k] = None
  BY <1>1
<1> QED
  BY <1>3, <1>4, <1>5, <1>6, Zenon DEF us

\* The end of a read resumes who waited for it.
LEMMA SettleTasks ==
  ASSUME NEW ts, NEW g, NEW h, TasksIn(ts, g), NEW failed
  PROVE  TasksIn(Settle(ts, h, failed), h) /\ Keeps(ts, Settle(ts, h, failed))
<1> DEFINE us == Settle(ts, h, failed)
<1>1. ASSUME NEW k \in Slots
      PROVE  /\ us[k] \in TaskState \cup {None}
             /\ us[k] = None <=> ts[k] = None
             /\ us[k] # None => ArgOK(us[k])
             /\ us[k] # None /\ us[k].step = "await" => us[k] = ts[k]
             /\ us[k] # None /\ us[k].step = "read" => us[k] = ts[k] /\ h.reads[ts[k].on] # None
             /\ Shows(us[k]) <=> Shows(ts[k])
             /\ Shows(ts[k]) => us[k] = ts[k]
  <2>1. CASE ts[k] # None /\ ts[k].step = "read" /\ h.reads[ts[k].on] = None
    <3>1. /\ \/ us[k] = [ts[k] EXCEPT !.on = None, !.step = "resumed"]
             \/ us[k] = [ts[k] EXCEPT !.on = None, !.step = "rejected"]
          /\ ts[k] \in TaskState /\ ArgOK(ts[k]) /\ ts[k].step \in {"await", "read"}
      BY <2>1 DEF Settle, TasksIn
    <3> HIDE DEF us
    <3>2. /\ us[k] \in TaskState /\ us[k] # None /\ ~Shows(us[k]) /\ ~Shows(ts[k])
          /\ ArgOK(us[k]) /\ us[k].step \in {"resumed", "rejected"}
      BY <3>1, ResumedRecord
    <3> QED
      BY <2>1, <3>2
  <2>2. CASE ~(ts[k] # None /\ ts[k].step = "read" /\ h.reads[ts[k].on] = None)
    <3>1. us[k] = ts[k]
      BY <2>2 DEF Settle
    <3> QED
      BY <2>2, <3>1 DEF TasksIn
  <2> QED
    BY <2>1, <2>2
<1>2. us = [k \in Slots |-> us[k]]
  BY DEF Settle
<1> HIDE DEF us
<1>3. TasksIn(us, h)
  <2>1. us \in [Slots -> TaskState \cup {None}]
    BY <1>1, <1>2
  <2>2. ASSUME NEW k \in Slots, us[k] # None
        PROVE  /\ ArgOK(us[k])
               /\ us[k].step = "read" => us[k].on \in Reads /\ h.reads[us[k].on] # None
               /\ us[k].step = "await" => us[k].on \in Slots /\ us[us[k].on] # None
    BY <1>1, <2>2 DEF TasksIn
  <2> QED
    BY <2>1, <2>2 DEF TasksIn
<1>4. Keeps(ts, us)
  BY <1>1 DEF Keeps
<1> QED
  BY <1>3, <1>4, Zenon DEF us

LEMMA TaskType ==
  ASSUME NEW kind \in Kinds, NEW p \in Projects, NEW step \in Steps, NEW on \in Awaited,
         NEW arg \in Args
  PROVE  /\ Task(kind, p, step, on, arg) \in TaskState
         /\ Task(kind, p, step, on, arg) # None
         /\ Task(kind, p, step, on, arg).kind = kind
         /\ Task(kind, p, step, on, arg).path = p
         /\ Task(kind, p, step, on, arg).step = step
         /\ Task(kind, p, step, on, arg).on = on
         /\ Task(kind, p, step, on, arg).arg = arg
         /\ Task(kind, p, step, on, arg).fresh
<1>1. Task(kind, p, step, on, arg) \in TaskState
  BY DEF Task, TaskState, Modes
<1> QED
  BY <1>1, NoneIsNoTask DEF Task

\* What the other requests are: nothing a pane of the history waits for.
LEMMA AsksType ==
  ASSUME NEW p \in Projects, NEW kind, NEW arg,
         \/ kind \in {"remotes", "branches"} /\ arg = None
         \/ kind \in {"commits", "more"} /\ arg \in Nat
  PROVE  /\ Task(kind, p, "asks", None, arg) \in TaskState
         /\ Task(kind, p, "asks", None, arg) # None
         /\ ArgOK(Task(kind, p, "asks", None, arg))
         /\ ~Shows(Task(kind, p, "asks", None, arg))
         /\ Task(kind, p, "asks", None, arg).step \notin {"read", "await"}
<1> DEFINE r == Task(kind, p, "asks", None, arg)
<1>1. "asks" \in Steps /\ None \in Awaited /\ arg \in Args /\ kind \in Kinds
  BY DEF Steps, Awaited, Args, Kinds, LoadKinds
<1>2. r \in TaskState /\ r # None /\ r.kind = kind /\ r.step = "asks" /\ r.arg = arg
  BY <1>1, TaskType
<1> HIDE DEF r
<1>3. ArgOK(r)
  BY <1>2 DEF ArgOK
<1>4. ~Shows(r)
  BY <1>2 DEF Shows
<1>5. r.step \notin {"read", "await"}
  BY <1>2
<1> QED
  BY <1>2, <1>3, <1>4, <1>5 DEF r

\* One more call, which is not for a pane of the history.
LEMMA RequestTasks ==
  ASSUME NEW ts, NEW g, TasksIn(ts, g), NEW n, NEW r \in TaskState, ArgOK(r), ~Shows(r),
         r.step = "read" => r.on \in Reads /\ g.reads[r.on] # None,
         r.step # "await"
  PROVE  /\ TasksIn(Start(ts, n, r), g)
         /\ ts[FreeSlot(n)] = None => Keeps(ts, Start(ts, n, r))
         /\ \A k \in Slots : Shows(Start(ts, n, r)[k]) => Shows(ts[k])
         /\ \A k \in Slots : ts[k] # None => Start(ts, n, r)[k] # None
         /\ \A k \in Slots : k # FreeSlot(n) => Start(ts, n, r)[k] = ts[k]
         /\ FreeSlot(n) \in Slots => Start(ts, n, r)[FreeSlot(n)] # None
<1> DEFINE us == Start(ts, n, r)
           f == FreeSlot(n)
<1>1. /\ TasksIn(us, g)
      /\ \A k \in Slots : k # f => us[k] = ts[k]
      /\ \A k \in Slots : ts[k] # None => us[k] # None
      /\ \A k \in Slots : us[k] \in {ts[k], r}
      /\ f \in Slots => us[f] = r
      /\ ts[f] = None /\ ~Shows(r) => Keeps(ts, us)
  BY StartTasks, Zenon
<1>2. r # None
  BY NoneIsNoTask
<1> HIDE DEF us, f
<1>3. \A k \in Slots : Shows(us[k]) => Shows(ts[k])
  BY <1>1
<1> QED
  BY <1>1, <1>2, <1>3, Zenon DEF us, f

LEMMA LoadRemotesTasks ==
  ASSUME NEW ts, NEW g, TasksIn(ts, g), NEW n, NEW p \in Projects
  PROVE  /\ TasksIn(LoadRemotes(ts, n, p), g)
         /\ ts[FreeSlot(n)] = None /\ FreeSlot(n) \in Slots => Keeps(ts, LoadRemotes(ts, n, p))
         /\ \A k \in Slots : Shows(LoadRemotes(ts, n, p)[k]) => Shows(ts[k])
         /\ \A k \in Slots : ts[k] # None => LoadRemotes(ts, n, p)[k] # None
<1> DEFINE bs == Bump(ts, {"remotes"})
           r == Task("remotes", p, "asks", None, None)
<1>1. /\ TasksIn(bs, g) /\ Keeps(ts, bs)
      /\ \A k \in Slots : Shows(bs[k]) => bs[k] = ts[k]
      /\ \A k \in Slots : bs[k] = None <=> ts[k] = None
  <2>1. {"remotes"} \cap {"files", "diff"} = {}
    OBVIOUS
  <2> QED
    BY <2>1, BumpTasks
<1>2. /\ r \in TaskState /\ r # None /\ ArgOK(r) /\ ~Shows(r)
      /\ r.step \notin {"read", "await"}
  BY AsksType
<1> HIDE DEF bs, r
<1>3. /\ TasksIn(Start(bs, n, r), g)
      /\ bs[FreeSlot(n)] = None => Keeps(bs, Start(bs, n, r))
      /\ \A k \in Slots : Shows(Start(bs, n, r)[k]) => Shows(bs[k])
      /\ \A k \in Slots : bs[k] # None => Start(bs, n, r)[k] # None
  BY <1>1, <1>2, RequestTasks
<1>4. LoadRemotes(ts, n, p) = Start(bs, n, r)
  BY DEF LoadRemotes, bs, r
<1>5. ts[FreeSlot(n)] = None /\ FreeSlot(n) \in Slots => Keeps(ts, Start(bs, n, r))
  BY <1>1, <1>3, KeepsTrans
<1>6. \A k \in Slots : Shows(bs[k]) => Shows(ts[k])
  BY <1>1
<1> QED
  BY <1>1, <1>3, <1>4, <1>5, <1>6

LEMMA LoadCommitsTasks ==
  ASSUME NEW ts, NEW g, TasksIn(ts, g), NEW n, NEW p \in Projects
  PROVE  /\ TasksIn(LoadCommits(ts, n, p), g)
         /\ ts[FreeSlot(n)] = None /\ FreeSlot(n) \in Slots => Keeps(ts, LoadCommits(ts, n, p))
         /\ \A k \in Slots : Shows(LoadCommits(ts, n, p)[k]) => Shows(ts[k])
         /\ \A k \in Slots : ts[k] # None => LoadCommits(ts, n, p)[k] # None
         /\ FreeSlot(n) \in Slots => LoadCommits(ts, n, p)[FreeSlot(n)] # None
<1> DEFINE bs == Bump(ts, {"commits"})
           r == Task("commits", p, "asks", None, 1)
<1>1. /\ TasksIn(bs, g) /\ Keeps(ts, bs)
      /\ \A k \in Slots : Shows(bs[k]) => bs[k] = ts[k]
      /\ \A k \in Slots : bs[k] = None <=> ts[k] = None
  <2>1. {"commits"} \cap {"files", "diff"} = {}
    OBVIOUS
  <2> QED
    BY <2>1, BumpTasks
<1>2. /\ r \in TaskState /\ r # None /\ ArgOK(r) /\ ~Shows(r)
      /\ r.step \notin {"read", "await"}
  BY AsksType
<1> HIDE DEF bs, r
<1>3. /\ TasksIn(Start(bs, n, r), g)
      /\ bs[FreeSlot(n)] = None => Keeps(bs, Start(bs, n, r))
      /\ \A k \in Slots : Shows(Start(bs, n, r)[k]) => Shows(bs[k])
      /\ \A k \in Slots : bs[k] # None => Start(bs, n, r)[k] # None
      /\ FreeSlot(n) \in Slots => Start(bs, n, r)[FreeSlot(n)] # None
  BY <1>1, <1>2, RequestTasks
<1>4. LoadCommits(ts, n, p) = Start(bs, n, r)
  BY DEF LoadCommits, bs, r
<1>5. ts[FreeSlot(n)] = None /\ FreeSlot(n) \in Slots => Keeps(ts, Start(bs, n, r))
  BY <1>1, <1>3, KeepsTrans
<1>6. \A k \in Slots : Shows(bs[k]) => Shows(ts[k])
  BY <1>1
<1> QED
  BY <1>1, <1>3, <1>4, <1>5, <1>6

\* The requests of the files of a commit replace the older ones, and those
\* of a diff.
LEMMA LoadFilesTasks ==
  ASSUME NEW ts, NEW g, TasksIn(ts, g), NEW n, NEW p \in Projects, NEW rev \in Nat
  PROVE  /\ TasksIn(LoadFiles(ts, n, p, rev), g)
         /\ \A k \in Slots : Shows(LoadFiles(ts, n, p, rev)[k])
              => /\ k = FreeSlot(n)
                 /\ LoadFiles(ts, n, p, rev)[k].kind = "files"
                 /\ LoadFiles(ts, n, p, rev)[k].path = p
                 /\ LoadFiles(ts, n, p, rev)[k].arg = rev
         /\ FreeSlot(n) \in Slots
              => /\ Shows(LoadFiles(ts, n, p, rev)[FreeSlot(n)])
                 /\ LoadFiles(ts, n, p, rev)[FreeSlot(n)].kind = "files"
<1> DEFINE bs == Bump(ts, {"files", "diff"})
           r == Task("files", p, "asks", None, rev)
           us == LoadFiles(ts, n, p, rev)
<1>1. /\ TasksIn(bs, g)
      /\ \A k \in Slots : Shows(bs[k]) => bs[k] = ts[k] /\ ts[k].kind \notin {"files", "diff"}
  BY BumpTasks
<1>2. \A k \in Slots : ~Shows(bs[k])
  BY <1>1 DEF Shows
<1>3. "asks" \in Steps /\ None \in Awaited /\ rev \in Args /\ "files" \in Kinds
  BY DEF Steps, Awaited, Args, Kinds, LoadKinds
<1>4. /\ r \in TaskState /\ r # None /\ r.kind = "files" /\ r.step = "asks" /\ r.arg = rev
      /\ r.path = p /\ r.fresh
  BY <1>3, TaskType
<1>5. us = Start(bs, n, r)
  BY DEF LoadFiles
<1> HIDE DEF bs, r, us
<1>6. ArgOK(r) /\ Shows(r) /\ r.step # "read" /\ r.step # "await"
  BY <1>4 DEF ArgOK, Shows
<1>7. /\ TasksIn(us, g)
      /\ \A k \in Slots : k # FreeSlot(n) => us[k] = bs[k]
      /\ FreeSlot(n) \in Slots => us[FreeSlot(n)] = r
  BY <1>1, <1>4, <1>5, <1>6, StartTasks
<1>8. \A k \in Slots : Shows(us[k]) => /\ k = FreeSlot(n) /\ us[k].kind = "files"
                                       /\ us[k].path = p /\ us[k].arg = rev
  BY <1>2, <1>4, <1>7
<1>9. FreeSlot(n) \in Slots => Shows(us[FreeSlot(n)]) /\ us[FreeSlot(n)].kind = "files"
  BY <1>4, <1>6, <1>7
<1> QED
  BY <1>7, <1>8, <1>9, Zenon DEF us

\* A call that shows nothing, before and after, takes another step.
LEMMA ReplaceTasks ==
  ASSUME NEW ts, NEW g, TasksIn(ts, g), NEW k \in Slots, NEW s \in TaskState, ArgOK(s),
         ~Shows(ts[k]), ~Shows(s),
         s.step = "read" => s.on \in Reads /\ g.reads[s.on] # None,
         s.step = "await" => s.on \in Slots /\ ts[s.on] # None
  PROVE  TasksIn([ts EXCEPT ![k] = s], g) /\ Keeps(ts, [ts EXCEPT ![k] = s])
<1> DEFINE us == [ts EXCEPT ![k] = s]
<1>1. s # None
  BY NoneIsNoTask
<1>2. /\ us \in [Slots -> TaskState \cup {None}] /\ us[k] = s
      /\ \A l \in Slots : l # k => us[l] = ts[l]
  BY DEF TasksIn
<1> HIDE DEF us
<1>3. \A l \in Slots : ts[l] # None => us[l] # None
  BY <1>1, <1>2
<1>4. ASSUME NEW l \in Slots, us[l] # None
      PROVE  /\ ArgOK(us[l])
             /\ us[l].step = "read" => us[l].on \in Reads /\ g.reads[us[l].on] # None
             /\ us[l].step = "await" => us[l].on \in Slots /\ us[us[l].on] # None
  <2>1. CASE l = k
    BY <1>2, <1>3, <2>1
  <2>2. CASE l # k
    <3>1. us[l] = ts[l]
      BY <1>2, <2>2
    <3> QED
      BY <1>3, <1>4, <3>1 DEF TasksIn
  <2> QED
    BY <2>1, <2>2
<1>5. TasksIn(us, g)
  BY <1>2, <1>4 DEF TasksIn
<1>6. Keeps(ts, us)
  BY <1>2 DEF Keeps
<1> QED
  BY <1>5, <1>6 DEF us

\* After a request there is a read of the project, and no other read ended.
LEMMA RefreshReads ==
  ASSUME NEW g \in GitState, NEW t \in Trees, NEW p \in Projects, Good(g, t),
         NEW behind \in BOOLEAN, NEW reuse \in BOOLEAN, NEW full \in BOOLEAN,
         CanRefresh(g, p)
  PROVE  /\ refresh(g, p, behind, reuse, full, t[p]).inFlight[p] \in Reads
         /\ refresh(g, p, behind, reuse, full, t[p]).reads[
              refresh(g, p, behind, reuse, full, t[p]).inFlight[p]] # None
         /\ ReadsStay(g, refresh(g, p, behind, reuse, full, t[p]))
<1> DEFINE a == IF behind THEN g ELSE activate(g, p)
           h == refresh(g, p, behind, reuse, full, t[p])
<1>1. /\ Sound(g, a, t) /\ a.inFlight = g.inFlight /\ a.reads = g.reads
  <2>1. CASE behind
    BY <2>1 DEF Sound, Step
  <2>2. CASE ~behind
    BY <2>2, ActivateSound
  <2> QED
    BY <2>1, <2>2
<1>2. a \in GitState /\ Good(a, t) /\ CanRefresh(a, p)
  BY <1>1 DEF Sound, CanRefresh, FreeReads
<1>3. h = IF a.inFlight[p] # None THEN JoinRead(a, p, reuse, full, t[p])
          ELSE StartRead(a, p, full, t[p], CHOOSE i \in FreeReads(a) : TRUE)
  BY DEF refresh
<1>4. h \in GitState /\ Good(h, t)
  BY RefreshSound DEF Sound
<1> HIDE DEF a, h
<1>5. h.inFlight[p] # None /\ ReadsStay(g, h)
  <2>1. CASE a.inFlight[p] # None
    <3> DEFINE i == a.inFlight[p]
    <3>1. i \in Reads /\ a.reads[i] \in ReadState
      BY <1>2, <2>1, EntryFacts
    <3>2. h.inFlight = a.inFlight
      BY <1>2, <1>3, <2>1 DEF JoinRead, GitState
    <3>3. \A j \in Reads : j # i => h.reads[j] = a.reads[j]
      BY <1>2, <1>3, <2>1 DEF JoinRead, GitState
    <3>4. h.inFlight[p] # None
      BY <2>1, <3>2
    <3>5. h.reads[i] # None
      BY <1>4, <3>2, <3>4, EntryFacts
    <3> QED
      BY <1>1, <3>3, <3>4, <3>5 DEF ReadsStay
  <2>2. CASE a.inFlight[p] = None
    <3> DEFINE i == CHOOSE j \in FreeReads(a) : TRUE
    <3>1. i \in FreeReads(a)
      BY <1>2, <2>2 DEF CanRefresh
    <3>2. i \in Reads /\ i # None
      BY <3>1, GitConstants DEF FreeReads
    <3>3. h = StartRead(a, p, full, t[p], i)
      BY <1>3, <2>2
    <3> HIDE DEF i
    <3>4. h.inFlight[p] = i
      BY <1>2, <3>3 DEF StartRead, GitState
    <3>5. \A j \in Reads : j # i => h.reads[j] = a.reads[j]
      BY <1>2, <3>3 DEF StartRead, GitState
    <3>6. h.reads[i] # None
      BY <1>4, <3>2, <3>4, EntryFacts
    <3> QED
      BY <1>1, <3>2, <3>4, <3>5, <3>6 DEF ReadsStay
  <2> QED
    BY <2>1, <2>2
<1>6. h.inFlight[p] \in Reads /\ h.reads[h.inFlight[p]] # None
  BY <1>4, <1>5, EntryFacts
<1> QED
  BY <1>5, <1>6 DEF h

\* A call of refresh of the panel: the store has a read for it to wait for.
LEMMA WithRefreshTasks ==
  ASSUME NEW ts, NEW g, TasksIn(ts, g), NEW n, NEW p \in Projects, NEW mode \in Modes,
         g.inFlight[p] \in Reads, g.reads[g.inFlight[p]] # None
  PROVE  /\ TasksIn(WithRefresh(ts, n, g, p, mode), g)
         /\ ts[FreeSlot(n)] = None /\ FreeSlot(n) \in Slots
              => Keeps(ts, WithRefresh(ts, n, g, p, mode))
         /\ \A k \in Slots : Shows(WithRefresh(ts, n, g, p, mode)[k]) => Shows(ts[k])
         /\ \A k \in Slots : ts[k] # None => WithRefresh(ts, n, g, p, mode)[k] # None
         /\ FreeSlot(n) \in Slots => WithRefresh(ts, n, g, p, mode)[FreeSlot(n)] # None
         /\ \A k \in Slots : k # FreeSlot(n) /\ ts[k] = None
                               => WithRefresh(ts, n, g, p, mode)[k] = None
<1> DEFINE bs == Bump(ts, {"refresh"})
           ls == Loaded(bs, mode)
           q == Task("refresh", p, "read", g.inFlight[p], None)
           b == mode = "hard"
           r == [q EXCEPT !.mode = mode, !.loads = b]
           us == WithRefresh(ts, n, g, p, mode)
<1>1. /\ TasksIn(bs, g) /\ Keeps(ts, bs)
      /\ \A k \in Slots : bs[k] = None <=> ts[k] = None
  <2>1. {"refresh"} \cap {"files", "diff"} = {}
    OBVIOUS
  <2> QED
    BY <2>1, BumpTasks
<1>2. us = Start(ls, n, r)
  BY DEF WithRefresh
<1>3. "read" \in Steps /\ None \in Args /\ "refresh" \in Kinds
      /\ g.inFlight[p] \in Awaited
  BY DEF Steps, Awaited, Args, Kinds
<1>4. /\ q \in TaskState /\ q.kind = "refresh" /\ q.step = "read" /\ q.on = g.inFlight[p]
  BY <1>3, TaskType
<1>5. b \in BOOLEAN
  OBVIOUS
<1> HIDE DEF bs, q, b
<1>6. r \in TaskState /\ r.kind = "refresh" /\ r.step = "read" /\ r.on = g.inFlight[p]
  BY <1>4, <1>5 DEF TaskState
<1> HIDE DEF r
<1>7. /\ TasksIn(ls, g) /\ Keeps(bs, ls)
      /\ \A k \in Slots : ls[k] = None <=> bs[k] = None
  BY <1>1, LoadedTasks
<1> HIDE DEF ls, us
<1>8. ArgOK(r) /\ ~Shows(r)
  BY <1>6 DEF ArgOK, Shows, LoadKinds
<1>9. /\ TasksIn(us, g)
      /\ ls[FreeSlot(n)] = None => Keeps(ls, us)
      /\ \A k \in Slots : Shows(us[k]) => Shows(ls[k])
      /\ \A k \in Slots : ls[k] # None => us[k] # None
      /\ \A k \in Slots : k # FreeSlot(n) => us[k] = ls[k]
      /\ FreeSlot(n) \in Slots => us[FreeSlot(n)] # None
  <2>1. r.step = "read" => r.on \in Reads /\ g.reads[r.on] # None
    BY <1>6
  <2>2. r.step # "await"
    BY <1>6
  <2> QED
    BY <1>2, <1>6, <1>7, <1>8, <2>1, <2>2, RequestTasks
<1>10. Keeps(ts, ls)
  BY <1>1, <1>7, KeepsTrans
<1>11. ts[FreeSlot(n)] = None /\ FreeSlot(n) \in Slots => Keeps(ts, us)
  BY <1>1, <1>7, <1>9, <1>10, KeepsTrans
<1>12. \A k \in Slots : Shows(us[k]) => Shows(ts[k])
  BY <1>9, <1>10 DEF Keeps
<1>13. \A k \in Slots : k # FreeSlot(n) /\ ts[k] = None => us[k] = None
  BY <1>1, <1>7, <1>9
<1>14. \A k \in Slots : ts[k] # None => us[k] # None
  BY <1>1, <1>7, <1>9
<1> QED
  BY <1>9, <1>11, <1>12, <1>13, <1>14 DEF us

----------------------------------------------------------------------------
(* The inductive invariant of the panel, and turns that keep it.           *)

Picks == [hash : Page, rev : Page, file : Files \cup {None}]
Panes == [remotes : Project, branches : Project,
          files : [of : Projects, rev : Nat] \cup {None},
          diff : [of : Projects, pick : Pick] \cup {None}]

PanelIn ==
  /\ current \in Project /\ resetDue \in BOOLEAN
  /\ operation \in OperationKinds \cup {None} /\ background \in Project
  /\ tab \in {"changes", "history"} /\ loadingMore \in BOOLEAN
  /\ list \in History /\ cache \in [Projects -> History]
  /\ picked \in Picks /\ pane \in Panes

\* At most one call of each kind may still show something ...
FreshOnes(ts) ==
  \A k, l \in Slots : Shows(ts[k]) /\ Shows(ts[l]) /\ ts[k].kind = ts[l].kind => k = l

\* ... all of them are of one project ...
ShownOf(ts, p) == \A k \in Slots : Shows(ts[k]) => ts[k].path = p

\* ... and those of a kind were made with what is picked.
MadeWith(ts, kind, arg) ==
  \A k \in Slots : Shows(ts[k]) /\ ts[k].kind = kind => ts[k].arg = arg

Pending(ts, kind) == \E k \in Slots : Shows(ts[k]) /\ ts[k].kind = kind

\* Files that are shown are of the commit picked or will be replaced.
FilesFollow(ts, files, pick) ==
  files # None => /\ MadeWith(ts, "files", pick.rev)
                  /\ files.rev = pick.rev \/ Pending(ts, "files")

DiffFollows(ts, diff, pick) ==
  /\ MadeWith(ts, "diff", [rev |-> pick.rev, file |-> pick.file])
  /\ diff # None => \/ diff.pick = [rev |-> pick.rev, file |-> pick.file]
                    \/ Pending(ts, "diff")

\* What the panes show, and what may still come, is of the project p.
PanesOf(ts, panes, p) ==
  /\ panes.remotes \in {p, None} /\ panes.branches \in {p, None}
  /\ panes.files # None => panes.files.of = p
  /\ panes.diff # None => panes.diff.of = p
  /\ ShownOf(ts, p)

PanesInv ==
  /\ FreshOnes(tasks)
  /\ ~resetDue => /\ PanesOf(tasks, pane, current)
                  /\ tab = "history" => FilesFollow(tasks, pane.files, picked)
                  /\ DetailShown => DiffFollows(tasks, pane.diff, picked)

Panel == PanelIn /\ TasksIn(tasks, git) /\ HistoryOfProject /\ PanesInv

ScmInv == GitInv /\ Panel

\* The store and the trees in one turn of the event loop.
StoreTurn ==
  /\ Sound(git, git', tree) /\ tree' \in Trees
  /\ \A p \in Projects : /\ tree'[p] >= tree[p]
                         /\ tree'[p] = tree[p] \/ git'.asked[p] = git.asked[p]

Turn == StoreTurn /\ Panel'

LEMMA StoreTurnInv ==
  ASSUME GitInv, StoreTurn
  PROVE  GitInv'
<1>1. git' \in GitState /\ Good(git', tree) /\ tree' \in Trees
  BY DEF StoreTurn, Sound
<1>2. \A p \in Projects : tree[p] \in Nat /\ tree'[p] \in Nat /\ tree'[p] >= tree[p]
  BY DEF GitInv, StoreTurn, Trees, Versions
<1>3. \A p \in Projects : git'.asked[p] \in Nat /\ git'.asked[p] <= tree'[p]
  BY <1>1, <1>2 DEF Good, PastIn, GitState, Versions
<1>4. ASSUME NEW i \in Reads, git'.reads[i] # None
      PROVE  git'.reads[i].start <= tree'[git'.reads[i].path]
  <2>1. /\ git'.reads[i].path \in Projects /\ git'.reads[i].start \in Nat
        /\ git'.reads[i].start <= tree[git'.reads[i].path]
    BY <1>1, <1>4 DEF Good, PastIn, GitState, ReadState, Versions
  <2> QED
    BY <1>2, <2>1
<1>5. PastIn(git', tree')
  BY <1>3, <1>4 DEF PastIn
<1> QED
  BY <1>1, <1>5 DEF GitInv, Good

LEMMA SoundSelf ==
  ASSUME NEW g \in GitState, NEW t, Good(g, t)
  PROVE  Sound(g, g, t)
BY DEF Sound, Step

LEMMA StoreSame ==
  ASSUME GitInv, UNCHANGED <<git, tree>>
  PROVE  StoreTurn
<1>1. Sound(git, git, tree)
  BY SoundSelf DEF GitInv
<1>2. \A p \in Projects : tree[p] >= tree[p]
  BY DEF GitInv, Trees, Versions
<1> QED
  BY <1>1, <1>2 DEF StoreTurn, GitInv

\* A turn of the store, the trees being what they were.
LEMMA StoreMoves ==
  ASSUME GitInv, Sound(git, git', tree), UNCHANGED tree
  PROVE  StoreTurn
<1>1. \A p \in Projects : tree[p] >= tree[p]
  BY DEF GitInv, Trees, Versions
<1> QED
  BY <1>1 DEF StoreTurn, GitInv

LEMMA KeepsPanes ==
  ASSUME NEW ts, NEW us, Keeps(ts, us)
  PROVE  /\ FreshOnes(ts) => FreshOnes(us)
         /\ \A p : ShownOf(ts, p) => ShownOf(us, p)
         /\ \A kind, arg : MadeWith(ts, kind, arg) => MadeWith(us, kind, arg)
         /\ \A kind : Pending(ts, kind) => Pending(us, kind)
<1>1. FreshOnes(ts) => FreshOnes(us)
  BY DEF Keeps, FreshOnes
<1>2. \A p : ShownOf(ts, p) => ShownOf(us, p)
  BY DEF Keeps, ShownOf
<1>3. \A kind, arg : MadeWith(ts, kind, arg) => MadeWith(us, kind, arg)
  BY DEF Keeps, MadeWith
<1>4. \A kind : Pending(ts, kind) => Pending(us, kind)
  BY DEF Keeps, Pending
<1> QED
  BY <1>1, <1>2, <1>3, <1>4

\* Nothing happens to the history, its files and its diffs.
LEMMA StillTurn ==
  ASSUME ScmInv, StoreTurn, TasksIn(tasks', git'), Keeps(tasks, tasks'),
         UNCHANGED <<current, resetDue, tab, picked>>,
         operation' \in OperationKinds \cup {None}, background' \in Project,
         loadingMore' \in BOOLEAN, list' \in History, cache' \in [Projects -> History],
         HistoryOfProject', list'.pages = list.pages,
         pane' \in Panes, pane'.files = pane.files, pane'.diff = pane.diff,
         pane'.remotes \in {pane.remotes, current, None},
         pane'.branches \in {pane.branches, current, None}
  PROVE  Turn
<1>1. PanelIn'
  BY DEF ScmInv, Panel, PanelIn
<1>2. /\ FreshOnes(tasks) => FreshOnes(tasks')
      /\ \A p : ShownOf(tasks, p) => ShownOf(tasks', p)
      /\ \A kind, arg : MadeWith(tasks, kind, arg) => MadeWith(tasks', kind, arg)
      /\ \A kind : Pending(tasks, kind) => Pending(tasks', kind)
  BY KeepsPanes
<1>3. FreshOnes(tasks')
  BY <1>2 DEF ScmInv, Panel, PanesInv
<1>4. ASSUME ~resetDue
      PROVE  /\ PanesOf(tasks', pane', current')
             /\ tab' = "history" => FilesFollow(tasks', pane'.files, picked')
             /\ DetailShown' => DiffFollows(tasks', pane'.diff, picked')
  <2>1. PanesOf(tasks', pane', current')
    BY <1>2, <1>4 DEF ScmInv, Panel, PanesInv, PanesOf
  <2>2. tab' = "history" => FilesFollow(tasks', pane'.files, picked')
    BY <1>2, <1>4 DEF ScmInv, Panel, PanesInv, FilesFollow
  <2>3. DetailShown' => DiffFollows(tasks', pane'.diff, picked')
    BY <1>2, <1>4 DEF ScmInv, Panel, PanesInv, DiffFollows, DetailShown
  <2> QED
    BY <2>1, <2>2, <2>3
<1>5. PanesInv'
  BY <1>3, <1>4 DEF PanesInv
<1> QED
  BY <1>1, <1>5 DEF Turn, Panel

\* The effect, where the calls are ts, l is listed, pick is picked and the
\* panes show panes: the types of what it makes of them ...
LEMMA EffectTypes ==
  ASSUME NEW ts, NEW g, TasksIn(ts, g), NEW n, NEW t, NEW l \in History, NEW pick \in Picks,
         NEW panes \in Panes, current \in Projects, HistoryEffect(ts, n, t, l, pick, panes)
  PROVE  TasksIn(tasks', g) /\ picked' \in Picks /\ pane' \in Panes
<1> DEFINE rev == Selected(l, pick.hash)
<1>1. CASE t # "history"
  BY <1>1 DEF HistoryEffect
<1>2. CASE t = "history" /\ rev = None
  <2>1. /\ picked' = [pick EXCEPT !.rev = None, !.file = @] /\ tasks' = ts
        /\ pane' = [panes EXCEPT !.files = None]
    BY <1>2 DEF HistoryEffect
  <2>2. picked' \in Picks
    BY <2>1 DEF Picks, Page
  <2>3. pane' \in Panes
    BY <2>1 DEF Panes
  <2> QED
    BY <2>1, <2>2, <2>3
<1>3. CASE t = "history" /\ rev # None
  <2>1. rev \in Nat
    <3>1. CASE pick.hash # None
      BY <3>1 DEF Selected, Picks, Page
    <3>2. CASE pick.hash = None
      <4>1. l.pages \in Seq(Nat) /\ l.pages # <<>> /\ rev = l.pages[1]
        BY <1>3, <3>2 DEF Selected, History
      <4> QED
        BY <4>1
    <3> QED
      BY <3>1, <3>2
  <2>2. /\ picked' = [pick EXCEPT !.rev = rev, !.file = None]
        /\ tasks' = LoadFiles(ts, n, current, rev)
        /\ pane' = [panes EXCEPT !.diff = None]
    BY <1>3 DEF HistoryEffect
  <2> HIDE DEF rev
  <2>3. picked' \in Picks
    BY <2>1, <2>2 DEF Picks, Page
  <2>4. pane' \in Panes
    BY <2>2 DEF Panes
  <2>5. TasksIn(tasks', g)
    BY <2>1, <2>2, LoadFilesTasks
  <2> QED
    BY <2>3, <2>4, <2>5
<1> QED
  BY <1>1, <1>2, <1>3

\* ... and what the panes show after it.
LEMMA EffectPanes ==
  ASSUME NEW ts, NEW g, TasksIn(ts, g), NEW n, NEW t, NEW l \in History, NEW pick \in Picks,
         NEW panes \in Panes, current \in Projects, HistoryEffect(ts, n, t, l, pick, panes),
         FreshOnes(ts), FreeSlot(n) \in Slots \/ panes.files = None
  PROVE  /\ FreshOnes(tasks')
         /\ PanesOf(ts, panes, current) => PanesOf(tasks', pane', current)
         /\ t = "history" => FilesFollow(tasks', pane'.files, picked')
         /\ t = "history" /\ l.pages # <<>> => DiffFollows(tasks', pane'.diff, picked')
<1> DEFINE rev == Selected(l, pick.hash)
<1>1. CASE t # "history"
  BY <1>1 DEF HistoryEffect
<1>2. CASE t = "history" /\ rev = None
  <2>1. tasks' = ts /\ pane' = [panes EXCEPT !.files = None]
    BY <1>2 DEF HistoryEffect
  <2>2. /\ pane'.files = None /\ pane'.diff = panes.diff /\ pane'.remotes = panes.remotes
        /\ pane'.branches = panes.branches
    BY <2>1 DEF Panes
  <2>3. l.pages = <<>>
    <3>1. CASE pick.hash # None
      BY <1>2, <3>1 DEF Selected
    <3>2. CASE pick.hash = None /\ l.pages # <<>>
      <4>1. l.pages \in Seq(Nat) /\ rev = l.pages[1]
        BY <3>2 DEF Selected, History
      <4>2. rev \in Nat
        BY <3>2, <4>1
      <4> QED
        BY <1>2, <4>2, NoneIsNoPage
    <3> QED
      BY <3>1, <3>2
  <2>4. FilesFollow(tasks', pane'.files, picked')
    BY <2>2 DEF FilesFollow
  <2>5. PanesOf(ts, panes, current) => PanesOf(tasks', pane', current)
    BY <2>1, <2>2 DEF PanesOf
  <2> QED
    BY <2>1, <2>3, <2>4, <2>5
<1>3. CASE t = "history" /\ rev # None
  <2>1. rev \in Nat
    <3>1. CASE pick.hash # None
      BY <3>1 DEF Selected, Picks, Page
    <3>2. CASE pick.hash = None
      <4>1. l.pages \in Seq(Nat) /\ l.pages # <<>> /\ rev = l.pages[1]
        BY <1>3, <3>2 DEF Selected, History
      <4> QED
        BY <4>1
    <3> QED
      BY <3>1, <3>2
  <2>2. /\ picked' = [pick EXCEPT !.rev = rev, !.file = None]
        /\ tasks' = LoadFiles(ts, n, current, rev)
        /\ pane' = [panes EXCEPT !.diff = None]
    BY <1>3 DEF HistoryEffect
  <2> HIDE DEF rev
  <2>3. picked'.rev = rev
    BY <2>2 DEF Picks
  <2>4. /\ pane'.diff = None /\ pane'.files = panes.files /\ pane'.remotes = panes.remotes
        /\ pane'.branches = panes.branches
    BY <2>2 DEF Panes
  <2>5. /\ \A k \in Slots : Shows(tasks'[k])
             => /\ k = FreeSlot(n) /\ tasks'[k].kind = "files"
                /\ tasks'[k].path = current /\ tasks'[k].arg = rev
        /\ FreeSlot(n) \in Slots => /\ Shows(tasks'[FreeSlot(n)])
                                    /\ tasks'[FreeSlot(n)].kind = "files"
    BY <2>1, <2>2, LoadFilesTasks
  <2>6. FreshOnes(tasks')
    BY <2>5 DEF FreshOnes
  <2>7. ShownOf(tasks', current)
    BY <2>5 DEF ShownOf
  <2>8. PanesOf(ts, panes, current) => PanesOf(tasks', pane', current)
    BY <2>4, <2>7 DEF PanesOf
  <2>9. MadeWith(tasks', "files", picked'.rev)
    BY <2>3, <2>5 DEF MadeWith
  <2>10. FreeSlot(n) \in Slots => Pending(tasks', "files")
    BY <2>5 DEF Pending
  <2>11. FilesFollow(tasks', pane'.files, picked')
    BY <2>4, <2>9, <2>10 DEF FilesFollow
  <2>12. MadeWith(tasks', "diff", [rev |-> picked'.rev, file |-> picked'.file])
    BY <2>5 DEF MadeWith
  <2>13. DiffFollows(tasks', pane'.diff, picked')
    BY <2>4, <2>12 DEF DiffFollows
  <2> QED
    BY <2>6, <2>8, <2>11, <2>13
<1> QED
  BY <1>1, <1>2, <1>3

\* A turn that ends with the effect.
LEMMA RedrawTurn ==
  ASSUME ScmInv, StoreTurn, NEW ts, TasksIn(ts, git'), Keeps(tasks, ts),
         FreeSlot(1) \in Slots, NEW pick \in Picks, NEW panes \in Panes,
         panes.files = pane.files, panes.diff = pane.diff,
         panes.remotes \in {pane.remotes, current, None}, panes.branches = pane.branches,
         UNCHANGED <<current, resetDue>>, current \in Projects,
         operation' \in OperationKinds \cup {None}, background' \in Project,
         loadingMore' \in BOOLEAN, tab' \in {"changes", "history"},
         list' \in History, cache' \in [Projects -> History], HistoryOfProject',
         HistoryEffect(ts, 1, tab', list', pick, panes)
  PROVE  Turn
<1>1. TasksIn(tasks', git') /\ picked' \in Picks /\ pane' \in Panes
  BY EffectTypes
<1>2. PanelIn'
  BY <1>1 DEF ScmInv, Panel, PanelIn
<1>3. FreshOnes(ts) /\ (ShownOf(tasks, current) => ShownOf(ts, current))
  BY KeepsPanes DEF ScmInv, Panel, PanesInv
<1>4. /\ FreshOnes(tasks')
      /\ PanesOf(ts, panes, current) => PanesOf(tasks', pane', current)
      /\ tab' = "history" => FilesFollow(tasks', pane'.files, picked')
      /\ tab' = "history" /\ list'.pages # <<>> => DiffFollows(tasks', pane'.diff, picked')
  BY <1>3, EffectPanes
<1>5. ~resetDue => PanesOf(ts, panes, current)
  BY <1>3 DEF ScmInv, Panel, PanesInv, PanesOf
<1>6. PanesInv'
  BY <1>4, <1>5 DEF PanesInv, DetailShown
<1> QED
  BY <1>1, <1>2, <1>6 DEF Turn, Panel

\* What is listed for the current project, and kept in the cache.
LEMMA ListSet ==
  ASSUME ScmInv, UNCHANGED <<current, resetDue>>, NEW p \in Projects, current = p,
         NEW l \in History, l.of \in {p, None}, list' = l, cache' = [cache EXCEPT ![p] = l]
  PROVE  list' \in History /\ cache' \in [Projects -> History] /\ HistoryOfProject'
<1>1. cache \in [Projects -> History]
  BY DEF ScmInv, Panel, PanelIn
<1>2. cache' \in [Projects -> History]
  BY <1>1
<1>3. \A q \in Projects : cache'[q] = IF q = p THEN l ELSE cache[q]
  BY <1>1
<1> QED
  BY <1>2, <1>3 DEF ScmInv, Panel, HistoryOfProject

LEMMA ListKept ==
  ASSUME ScmInv, UNCHANGED <<current, resetDue, list, cache>>
  PROVE  list' \in History /\ cache' \in [Projects -> History] /\ HistoryOfProject'
BY DEF ScmInv, Panel, PanelIn, HistoryOfProject

\* Nothing is listed any more.
LEMMA ListGone ==
  ASSUME ScmInv, UNCHANGED <<current, resetDue, cache>>, list' = NoList
  PROVE  list' \in History /\ cache' \in [Projects -> History] /\ HistoryOfProject'
BY DEF ScmInv, Panel, PanelIn, HistoryOfProject, NoList, History, Project

LEMMA NoListType == NoList \in History /\ NoList.of = None
BY DEF NoList, History, Project

\* What ScmInv says of a call under way.
LEMMA CallFacts ==
  ASSUME ScmInv, NEW k \in Slots, tasks[k] # None
  PROVE  /\ tasks[k] \in TaskState /\ ArgOK(tasks[k]) /\ tasks[k].path \in Projects
         /\ tasks[k].kind \notin {"files", "diff"} => ~Shows(tasks[k])
         /\ tasks[k].step # "asks" => ~Shows(tasks[k]) /\ tasks[k].kind \notin LoadKinds
BY DEF ScmInv, Panel, TasksIn, TaskState, ArgOK, Shows, LoadKinds

\* The end of a call, when the store and the trees stay.
LEMMA FinishedTasks ==
  ASSUME ScmInv, NEW k \in Slots, tasks[k] # None, ~Shows(tasks[k])
  PROVE  /\ TasksIn(Finish(tasks, k), git) /\ Keeps(tasks, Finish(tasks, k))
         /\ Spares(Finish(tasks, k))
<1>1. TasksIn(tasks, git) /\ Spares(tasks)
  BY DEF ScmInv, Panel, Spares
<1> QED
  BY <1>1, FinishTasks

\* Neither the history nor its panes change.
LEMMA QuietTurn ==
  ASSUME ScmInv, StoreTurn, TasksIn(tasks', git'), Keeps(tasks, tasks'),
         UNCHANGED <<current, resetDue, tab, loadingMore, list, cache, picked, pane>>,
         operation' \in OperationKinds \cup {None}, background' \in Project
  PROVE  Turn
<1>1. list' \in History /\ cache' \in [Projects -> History] /\ HistoryOfProject'
  BY ListKept
<1> QED
  BY <1>1, StillTurn DEF ScmInv, Panel, PanelIn

LEMMA RoomForOne ==
  ASSUME NEW n \in Nat \ {0}, Room(n)
  PROVE  Room(1)
<1>1. IsFiniteSet(Slots) /\ Busy \subseteq Slots
  BY ScmConstants, FS_Interval DEF Slots, Busy
<1>2. Cardinality(Busy) \in Nat /\ MaxTasks \in Nat
  BY <1>1, FS_Subset, FS_CardinalityType, ScmConstants
<1> QED
  BY <1>2 DEF Room

\* A call that begins to wait for another.
Awaiting(r, f, arg) == [r EXCEPT !.step = "await", !.on = f, !.arg = arg]

LEMMA AwaitRecord ==
  ASSUME NEW r \in TaskState, r.kind \notin LoadKinds, r.kind # "stageAll",
         NEW f \in Slots, NEW arg \in Args, r.kind = "commit" => arg \in {"push", "end"}
  PROVE  /\ Awaiting(r, f, arg) \in TaskState /\ Awaiting(r, f, arg) # None
         /\ ArgOK(Awaiting(r, f, arg)) /\ ~Shows(Awaiting(r, f, arg))
         /\ Awaiting(r, f, arg).step = "await" /\ Awaiting(r, f, arg).on = f
<1> DEFINE s == Awaiting(r, f, arg)
<1>1. s \in TaskState /\ s.kind = r.kind /\ s.step = "await" /\ s.on = f /\ s.arg = arg
  BY DEF TaskState, Steps, Awaited, Awaiting
<1> HIDE DEF s
<1>2. s # None
  BY <1>1, NoneIsNoTask
<1>3. ArgOK(s) /\ ~Shows(s)
  BY <1>1 DEF ArgOK, Shows, LoadKinds
<1> QED
  BY <1>1, <1>2, <1>3 DEF s

LEMMA StringArgs ==
  "history" \in Args /\ "branches" \in Args /\ "end" \in Args /\ "push" \in Args
BY DEF Args, Handlers

----------------------------------------------------------------------------
(* The turns that go on with a call.                                       *)

LEMMA RefreshRejectedTurn ==
  ASSUME ScmInv, NEW k \in Slots, RefreshRejected(k), UNCHANGED <<Env, moves>>
  PROVE  Turn
<1>1. StoreTurn
  BY StoreSame DEF ScmInv, RefreshRejected, Env
<1>2. ~Shows(tasks[k]) /\ tasks[k] # None
  BY CallFacts DEF RefreshRejected
<1>3. TasksIn(tasks', git') /\ Keeps(tasks, tasks')
  BY <1>2, FinishedTasks DEF RefreshRejected
<1> QED
  BY <1>1, <1>3, QuietTurn DEF ScmInv, Panel, PanelIn, RefreshRejected, Env, panelVars

LEMMA HistoryRefreshedTurn ==
  ASSUME ScmInv, NEW k \in Slots, HistoryRefreshed(k), UNCHANGED <<Env, moves>>
  PROVE  Turn
<1>1. StoreTurn
  BY StoreSame DEF ScmInv, HistoryRefreshed, Env
<1>2. /\ ~Shows(tasks[k]) /\ tasks[k] # None /\ tasks[k].path \in Projects
      /\ FreeSlot(1) \in Slots /\ tasks[FreeSlot(1)] = None
  BY CallFacts, RoomIsFree DEF HistoryRefreshed
<1>3. TasksIn(tasks', git') /\ Keeps(tasks, tasks')
  <2> DEFINE ts == LoadRemotes(tasks, 1, tasks[k].path)
  <2>1. CASE tasks' = Finish(tasks, k)
    BY <1>2, <2>1, FinishedTasks DEF HistoryRefreshed
  <2>2. CASE tasks' = Finish(ts, k)
    <3>1. TasksIn(ts, git) /\ Keeps(tasks, ts)
      BY <1>2, LoadRemotesTasks DEF ScmInv, Panel
    <3>2. ~Shows(ts[k])
      BY <1>2, <3>1 DEF Keeps
    <3> HIDE DEF ts
    <3>3. TasksIn(Finish(ts, k), git) /\ Keeps(ts, Finish(ts, k))
      BY <3>1, <3>2, FinishTasks
    <3> QED
      BY <2>2, <3>1, <3>3, KeepsTrans DEF HistoryRefreshed
  <2> QED
    BY <2>1, <2>2 DEF HistoryRefreshed
<1> QED
  BY <1>1, <1>3, QuietTurn DEF ScmInv, Panel, PanelIn, HistoryRefreshed, Env, panelVars

LEMMA RefreshResumesTurn ==
  ASSUME ScmInv, NEW k \in Slots, RefreshResumes(k), UNCHANGED <<Env, moves>>
  PROVE  Turn
<1> DEFINE r == tasks[k]
           p == r.path
<1>1. StoreTurn
  BY StoreSame DEF ScmInv, RefreshResumes, Env
<1>2. /\ ~Shows(r) /\ r # None /\ r \in TaskState /\ p \in Projects
      /\ r.kind = "refresh" /\ ArgOK(r)
  BY CallFacts DEF RefreshResumes
<1>3. /\ UNCHANGED <<git, operation, background, tab, loadingMore, cache, current, resetDue>>
      /\ operation \in OperationKinds \cup {None} /\ background \in Project
  BY DEF RefreshResumes, Env, ScmInv, Panel, PanelIn
<1>4. CASE tasks' = Finish(tasks, k) /\ UNCHANGED <<list, picked, pane>>
  <2>1. TasksIn(tasks', git') /\ Keeps(tasks, tasks')
    BY <1>2, <1>3, <1>4, FinishedTasks
  <2> QED
    BY <1>1, <1>3, <1>4, <2>1, QuietTurn
<1>5. CASE /\ Room(1) /\ UNCHANGED <<list, picked, pane>>
           /\ tasks' = [LoadCommits(tasks, 1, p) EXCEPT
                          ![k] = [r EXCEPT !.step = "await", !.on = FreeSlot(1),
                                           !.arg = "history"]]
  <2> DEFINE ts == LoadCommits(tasks, 1, p)
             s == Awaiting(r, FreeSlot(1), "history")
  <2>1. FreeSlot(1) \in Slots /\ tasks[FreeSlot(1)] = None
    BY <1>5, RoomIsFree
  <2>2. TasksIn(ts, git) /\ Keeps(tasks, ts) /\ ts[FreeSlot(1)] # None
    BY <1>2, <2>1, LoadCommitsTasks DEF ScmInv, Panel
  <2>3. ~Shows(ts[k])
    BY <1>2, <2>2 DEF Keeps
  <2>4. s \in TaskState /\ ArgOK(s) /\ ~Shows(s) /\ s.step = "await" /\ s.on = FreeSlot(1)
    <3>1. r.kind \notin LoadKinds \cup {"stageAll", "commit"} /\ "history" \in Args
      BY <1>2, StringArgs DEF LoadKinds
    <3> HIDE DEF r
    <3> QED
      BY <1>2, <2>1, <3>1, AwaitRecord
  <2>5. tasks' = [ts EXCEPT ![k] = s]
    BY <1>5 DEF Awaiting
  <2> HIDE DEF ts, s
  <2>6. TasksIn([ts EXCEPT ![k] = s], git) /\ Keeps(ts, [ts EXCEPT ![k] = s])
    BY <2>1, <2>2, <2>3, <2>4, ReplaceTasks
  <2>7. TasksIn(tasks', git') /\ Keeps(tasks, tasks')
    BY <1>3, <2>2, <2>5, <2>6, KeepsTrans
  <2> QED
    BY <1>1, <1>3, <1>5, <2>7, QuietTurn
<1>6. CASE /\ Room(1) /\ IsCurrentProject(k) /\ list' = NoList
           /\ HistoryEffect(Finish(Bump(tasks, {"commits"}), k), 1, tab, NoList, picked,
                            [pane EXCEPT !.remotes = None])
  <2> DEFINE bs == Bump(tasks, {"commits"})
             ts == Finish(bs, k)
             panes == [pane EXCEPT !.remotes = None]
  <2>1. FreeSlot(1) \in Slots /\ current \in Projects
    BY <1>2, <1>6, RoomIsFree DEF IsCurrentProject
  <2>2. TasksIn(bs, git) /\ Keeps(tasks, bs)
    <3>1. {"commits"} \cap {"files", "diff"} = {}
      OBVIOUS
    <3> QED
      BY <3>1, BumpTasks DEF ScmInv, Panel
  <2>3. ~Shows(bs[k])
    BY <1>2, <2>2 DEF Keeps
  <2> HIDE DEF bs
  <2>4. TasksIn(ts, git') /\ Keeps(bs, ts)
    BY <1>3, <2>2, <2>3, FinishTasks
  <2> HIDE DEF ts
  <2>5. Keeps(tasks, ts)
    BY <2>2, <2>4, KeepsTrans
  <2>6. /\ panes \in Panes /\ panes.files = pane.files /\ panes.diff = pane.diff
        /\ panes.remotes = None /\ panes.branches = pane.branches
    BY DEF ScmInv, Panel, PanelIn, Panes, Project
  <2>7. HistoryEffect(ts, 1, tab', list', picked, panes)
    BY <1>3, <1>6 DEF ts, bs
  <2> HIDE DEF panes
  <2>8. list' \in History /\ cache' \in [Projects -> History] /\ HistoryOfProject'
    BY <1>3, <1>6, ListGone
  <2>9. picked \in Picks /\ loadingMore' \in BOOLEAN /\ tab' \in {"changes", "history"}
    BY <1>3 DEF ScmInv, Panel, PanelIn
  <2> QED
    BY <1>1, <1>3, <2>1, <2>4, <2>5, <2>6, <2>7, <2>8, <2>9, RedrawTurn
<1> QED
  BY <1>4, <1>5, <1>6 DEF RefreshResumes

LEMMA ReleasedTypes ==
  ASSUME ScmInv, NEW k, Released(k)
  PROVE  operation' \in OperationKinds \cup {None} /\ background' \in Project
BY DEF ScmInv, Panel, PanelIn, Released, Project

\* A command is over.
LEMMA OverTurn ==
  ASSUME ScmInv, NEW k \in Slots, tasks[k] # None, tasks[k].step # "asks", Over(k),
         UNCHANGED Env
  PROVE  Turn
<1>1. StoreTurn
  BY StoreSame DEF ScmInv, Over, Env
<1>2. ~Shows(tasks[k])
  BY CallFacts
<1>3. TasksIn(tasks', git') /\ Keeps(tasks, tasks')
  BY <1>2, FinishedTasks DEF Over
<1>4. operation' \in OperationKinds \cup {None} /\ background' \in Project
  BY ReleasedTypes DEF Over
<1> QED
  BY <1>1, <1>3, <1>4, QuietTurn DEF Over, Env, Lists

\* A command takes its next step.
LEMMA NextStep ==
  ASSUME ScmInv, NEW k \in Slots, tasks[k] # None, tasks[k].step # "asks",
         NEW step \in {"git", "done", "failed", "branches"}
  PROVE  /\ TasksIn([tasks EXCEPT ![k].step = step], git)
         /\ Keeps(tasks, [tasks EXCEPT ![k].step = step])
<1> DEFINE s == [tasks[k] EXCEPT !.step = step]
<1>1. /\ tasks[k] \in TaskState /\ ArgOK(tasks[k]) /\ ~Shows(tasks[k])
      /\ tasks[k].kind \notin LoadKinds
  BY CallFacts
<1>2. s \in TaskState /\ s.kind = tasks[k].kind /\ s.step = step /\ s.arg = tasks[k].arg
  BY <1>1 DEF TaskState, Steps
<1>3. [tasks EXCEPT ![k].step = step] = [tasks EXCEPT ![k] = s]
  OBVIOUS
<1> HIDE DEF s
<1>4. ArgOK(s) /\ ~Shows(s)
  BY <1>1, <1>2 DEF ArgOK, Shows, LoadKinds
<1>5. s.step # "read" /\ s.step # "await"
  BY <1>2
<1>6. TasksIn(tasks, git)
  BY DEF ScmInv, Panel
<1>7. TasksIn([tasks EXCEPT ![k] = s], git) /\ Keeps(tasks, [tasks EXCEPT ![k] = s])
  BY <1>1, <1>2, <1>4, <1>5, <1>6, ReplaceTasks
<1> QED
  BY <1>3, <1>7

LEMMA CommandResumesTurn ==
  ASSUME ScmInv, NEW k \in Slots, CommandResumes(k), UNCHANGED <<Env, moves>>
  PROVE  Turn
<1> DEFINE r == tasks[k]
<1>1. /\ r # None /\ r.step # "asks" /\ ~Shows(r) /\ r \in TaskState
      /\ r.kind \notin LoadKinds
  BY CallFacts DEF CommandResumes
<1>2. CASE Over(k)
  BY <1>1, <1>2, OverTurn
<1>3. CASE /\ operation' = "push"
           /\ tasks' = [tasks EXCEPT ![k] = [r EXCEPT !.kind = "push", !.step = "git",
                                                     !.arg = None]]
           /\ UNCHANGED <<git, background, Lists, pane>>
  <2> DEFINE s == [r EXCEPT !.kind = "push", !.step = "git", !.arg = None]
  <2>1. s \in TaskState /\ s.kind = "push" /\ s.step = "git"
    BY <1>1 DEF TaskState, Steps, Kinds, OperationKinds, RemoteKinds, Args
  <2> HIDE DEF s
  <2>2. ArgOK(s) /\ ~Shows(s)
    BY <2>1 DEF ArgOK, Shows, LoadKinds
  <2>3. s.step # "read" /\ s.step # "await" /\ TasksIn(tasks, git)
    BY <2>1 DEF ScmInv, Panel
  <2>4. TasksIn([tasks EXCEPT ![k] = s], git) /\ Keeps(tasks, [tasks EXCEPT ![k] = s])
    BY <1>1, <2>1, <2>2, <2>3, ReplaceTasks
  <2>5. TasksIn(tasks', git') /\ Keeps(tasks, tasks')
    BY <1>3, <2>4 DEF s
  <2>6. StoreTurn
    BY <1>3, StoreSame DEF ScmInv, Env
  <2>7. operation' \in OperationKinds \cup {None} /\ background' \in Project
    BY <1>3 DEF ScmInv, Panel, PanelIn, OperationKinds, RemoteKinds
  <2> QED
    BY <1>3, <2>5, <2>6, <2>7, QuietTurn DEF Env, Lists
<1>4. CASE tasks' = [tasks EXCEPT ![k].step = "branches"] /\ UNCHANGED <<git, panelVars>>
  <2>1. TasksIn(tasks', git') /\ Keeps(tasks, tasks')
    BY <1>1, <1>4, NextStep
  <2>2. StoreTurn
    BY <1>4, StoreSame DEF ScmInv, Env
  <2>3. operation' \in OperationKinds \cup {None} /\ background' \in Project
    BY <1>4 DEF ScmInv, Panel, PanelIn, panelVars
  <2> QED
    BY <1>4, <2>1, <2>2, <2>3, QuietTurn DEF Env, panelVars
<1> QED
  BY <1>2, <1>3, <1>4 DEF CommandResumes

\* A turn that continues a resumed call.
LEMMA ResumesTurn ==
  ASSUME ScmInv, NEW k \in Slots, Resumes(k)
  PROVE  Turn
BY RefreshResumesTurn, HistoryRefreshedTurn, RefreshRejectedTurn, CommandResumesTurn
   DEF Resumes

----------------------------------------------------------------------------
(* The turns that answer: the history.                                     *)

\* The list of the current project is replaced.
LEMMA SetListTurn ==
  ASSUME ScmInv, NEW k \in Slots, tasks[k] # None, ~Shows(tasks[k]), Room(1),
         current = tasks[k].path, NEW l \in History, l.of \in {current, None},
         NEW pick \in Picks, SetList(k, l, pick),
         cache' = [cache EXCEPT ![tasks[k].path] = l],
         UNCHANGED <<git, Env, operation, background, tab>>, loadingMore' \in BOOLEAN
  PROVE  Turn
<1> DEFINE ts == Finish(tasks, k)
<1>1. StoreTurn
  BY StoreSame DEF ScmInv, Env
<1>2. current \in Projects /\ FreeSlot(1) \in Slots
  BY CallFacts, RoomIsFree
<1>3. TasksIn(ts, git') /\ Keeps(tasks, ts)
  BY FinishedTasks
<1>4. list' \in History /\ cache' \in [Projects -> History] /\ HistoryOfProject'
  BY <1>2, ListSet DEF SetList, Env
<1>5. HistoryEffect(ts, 1, tab', list', pick, pane)
  BY DEF SetList
<1>6. pane \in Panes /\ tab' \in {"changes", "history"}
      /\ operation' \in OperationKinds \cup {None} /\ background' \in Project
  BY DEF ScmInv, Panel, PanelIn
<1> HIDE DEF ts
<1> QED
  BY <1>1, <1>2, <1>3, <1>4, <1>5, <1>6, RedrawTurn DEF Env

\* A call for the history or for a menu ends, and nothing else happens.
LEMMA DroppedTurn ==
  ASSUME ScmInv, NEW k \in Slots, tasks[k] # None, ~Shows(tasks[k]),
         tasks' = Finish(tasks, k), loadingMore' \in BOOLEAN,
         UNCHANGED <<git, Env, operation, background, tab, list, cache, picked, pane>>
  PROVE  Turn
<1>1. StoreTurn
  BY StoreSame DEF ScmInv, Env
<1>2. TasksIn(tasks', git') /\ Keeps(tasks, tasks')
  BY FinishedTasks
<1>3. list' \in History /\ cache' \in [Projects -> History] /\ HistoryOfProject'
  BY ListKept DEF Env
<1> QED
  BY <1>1, <1>2, <1>3, StillTurn DEF ScmInv, Panel, PanelIn, Env

LEMMA LogAnswersTurn ==
  ASSUME ScmInv, NEW k \in Slots, LogAnswers(k), UNCHANGED <<Env, moves>>
  PROVE  Turn
<1> DEFINE r == tasks[k]
           l == [of |-> r.path, pages |-> <<0>>, more |-> 0 < LastPage]
           pick == [picked EXCEPT !.hash = None, !.rev = None]
<1>1. r # None /\ ~Shows(r) /\ r.path \in Projects
  BY CallFacts DEF LogAnswers
<1>2. CASE ~IsCurrentRequest(k)
  BY <1>1, <1>2, DroppedTurn DEF LogAnswers, ScmInv, Panel, PanelIn
<1>3. CASE IsCurrentRequest(k)
  <2>1. current = r.path
    BY <1>3 DEF IsCurrentRequest, IsCurrentProject
  <2>2. l \in History /\ l.of \in {current, None}
    <3>1. (0 < LastPage) \in BOOLEAN /\ <<0>> \in Seq(Nat)
      OBVIOUS
    <3> QED
      BY <1>1, <2>1, <3>1 DEF History, Project
  <2>3. pick \in Picks
    BY DEF ScmInv, Panel, PanelIn, Picks, Page
  <2>4. SetList(k, l, pick) /\ cache' = [cache EXCEPT ![r.path] = l] /\ Room(1)
    BY <1>3 DEF LogAnswers
  <2>5. /\ UNCHANGED <<git, Env, operation, background, tab>> /\ loadingMore' \in BOOLEAN
    BY DEF LogAnswers, ScmInv, Panel, PanelIn
  <2> HIDE DEF l, pick
  <2> QED
    BY <1>1, <2>1, <2>2, <2>3, <2>4, <2>5, SetListTurn
<1> QED
  BY <1>2, <1>3

LEMMA LogFailsTurn ==
  ASSUME ScmInv, NEW k \in Slots, LogFails(k), UNCHANGED Env
  PROVE  Turn
<1> DEFINE r == tasks[k]
<1>1. r # None /\ ~Shows(r) /\ r.path \in Projects /\ r \in TaskState /\ ArgOK(r)
      /\ r.kind = "commits" /\ r.step = "asks"
  BY CallFacts DEF LogFails
<1>2. CASE tasks' = Finish(tasks, k) /\ UNCHANGED <<list, cache, picked, pane>>
  BY <1>1, <1>2, DroppedTurn DEF LogFails, ScmInv, Panel, PanelIn
<1>3. CASE tasks' = [tasks EXCEPT ![k].arg = @ + 1] /\ UNCHANGED <<list, cache, picked, pane>>
  <2> DEFINE s == [r EXCEPT !.arg = @ + 1]
  <2>1. r.arg + 1 \in Nat /\ r.arg + 1 \in Args
    BY <1>1 DEF ArgOK, Args
  <2>2. s \in TaskState /\ s.kind = "commits" /\ s.step = "asks" /\ s.arg \in Nat
    BY <1>1, <2>1 DEF TaskState
  <2>3. tasks' = [tasks EXCEPT ![k] = s]
    BY <1>3
  <2> HIDE DEF s
  <2>4. ArgOK(s) /\ ~Shows(s)
    BY <2>2 DEF ArgOK, Shows
  <2>5. s.step # "read" /\ s.step # "await" /\ TasksIn(tasks, git)
    BY <2>2 DEF ScmInv, Panel
  <2>6. TasksIn(tasks', git) /\ Keeps(tasks, tasks')
    BY <1>1, <2>2, <2>3, <2>4, <2>5, ReplaceTasks
  <2>7. StoreTurn /\ TasksIn(tasks', git')
    BY <2>6, StoreSame DEF ScmInv, Env, LogFails
  <2> QED
    BY <1>3, <2>6, <2>7, QuietTurn DEF LogFails, ScmInv, Panel, PanelIn, Env
<1>4. CASE /\ IsCurrentRequest(k) /\ SetList(k, NoList, picked)
           /\ cache' = [cache EXCEPT ![r.path] = NoList]
  <2>1. current = r.path /\ picked \in Picks
    BY <1>4 DEF IsCurrentRequest, IsCurrentProject, ScmInv, Panel, PanelIn
  <2>2. Room(1) /\ UNCHANGED <<git, Env, operation, background, tab>>
        /\ loadingMore' \in BOOLEAN
    BY DEF LogFails, ScmInv, Panel, PanelIn
  <2> QED
    BY <1>1, <1>4, <2>1, <2>2, NoListType, SetListTurn
<1> QED
  BY <1>2, <1>3, <1>4 DEF LogFails

LEMMA MoreAnswersTurn ==
  ASSUME ScmInv, NEW k \in Slots, MoreAnswers(k), UNCHANGED <<Env, moves>>
  PROVE  Turn
<1> DEFINE r == tasks[k]
           pages == IF r.arg \in Listed THEN list.pages ELSE Append(list.pages, r.arg)
           l == [of |-> r.path, pages |-> pages, more |-> r.arg < LastPage]
<1>1. /\ r # None /\ ~Shows(r) /\ r.path \in Projects /\ r.arg \in Nat /\ Room(1)
      /\ loadingMore' = FALSE
      /\ UNCHANGED <<git, operation, background, tab, Env>>
  BY CallFacts DEF MoreAnswers, ArgOK
<1>2. CASE ~IsCurrentProject(k)
  BY <1>1, <1>2, DroppedTurn DEF MoreAnswers
<1>3. CASE IsCurrentProject(k)
  <2>1. current = r.path
    BY <1>3 DEF IsCurrentProject
  <2>2. pages \in Seq(Nat)
    <3>1. list.pages \in Seq(Nat)
      BY DEF ScmInv, Panel, PanelIn, History
    <3>2. Append(list.pages, r.arg) \in Seq(Nat)
      BY <1>1, <3>1
    <3> QED
      BY <3>1, <3>2
  <2>3. (r.arg < LastPage) \in BOOLEAN
    OBVIOUS
  <2>4. l \in History /\ l.of = r.path /\ l.pages = pages
    <3> HIDE DEF pages
    <3> QED
      BY <1>1, <2>2, <2>3 DEF History, Project
  <2>5. cache' = [cache EXCEPT ![r.path] = l]
    BY <1>3 DEF MoreAnswers
  <2>6. CASE r.arg \in Listed
    <3>1. tasks' = Finish(tasks, k) /\ list' = l /\ UNCHANGED <<picked, pane>>
      BY <1>3, <2>6 DEF MoreAnswers
    <3>2. pages = list.pages
      BY <2>6
    <3> HIDE DEF l, pages
    <3>3. list' \in History /\ cache' \in [Projects -> History] /\ HistoryOfProject'
      BY <1>1, <2>1, <2>4, <2>5, <3>1, ListSet DEF Env
    <3>4. TasksIn(tasks', git') /\ Keeps(tasks, tasks')
      BY <1>1, <3>1, FinishedTasks
    <3>5. StoreTurn
      BY <1>1, StoreSame DEF ScmInv, Env
    <3> QED
      BY <1>1, <2>4, <3>1, <3>2, <3>3, <3>4, <3>5, StillTurn DEF ScmInv, Panel, PanelIn, Env
  <2>7. CASE r.arg \notin Listed
    <3>1. SetList(k, l, picked)
      BY <1>3, <2>7 DEF MoreAnswers
    <3>2. picked \in Picks
      BY DEF ScmInv, Panel, PanelIn
    <3> HIDE DEF l, pages
    <3> QED
      BY <1>1, <2>1, <2>4, <2>5, <3>1, <3>2, SetListTurn
  <2> QED
    BY <2>6, <2>7
<1> QED
  BY <1>2, <1>3

LEMMA MoreFailsTurn ==
  ASSUME ScmInv, NEW k \in Slots, MoreFails(k), UNCHANGED Env
  PROVE  Turn
<1>1. /\ tasks[k] # None /\ ~Shows(tasks[k]) /\ tasks' = Finish(tasks, k)
      /\ loadingMore' = FALSE /\ list' \in {list, [list EXCEPT !.more = FALSE]}
      /\ UNCHANGED <<git, operation, background, tab, cache, picked, pane, Env>>
  BY CallFacts DEF MoreFails
<1>2. list' \in History /\ list'.of = list.of /\ list'.pages = list.pages
  BY <1>1 DEF ScmInv, Panel, PanelIn, History
<1>3. cache' \in [Projects -> History] /\ HistoryOfProject'
  BY <1>1, <1>2 DEF ScmInv, Panel, PanelIn, HistoryOfProject, Env
<1>4. TasksIn(tasks', git') /\ Keeps(tasks, tasks')
  BY <1>1, FinishedTasks
<1>5. StoreTurn
  BY <1>1, StoreSame DEF ScmInv, Env
<1> QED
  BY <1>1, <1>2, <1>3, <1>4, <1>5, StillTurn DEF ScmInv, Panel, PanelIn, Env

----------------------------------------------------------------------------
(* The turns that answer: the panes.                                       *)

\* The end of a call that may show something: the others still may.
LEMMA EndsShown ==
  ASSUME NEW ts, NEW g, TasksIn(ts, g), NEW k \in Slots
  PROVE  /\ FreshOnes(ts) => FreshOnes(Finish(ts, k))
         /\ \A p : ShownOf(ts, p) => ShownOf(Finish(ts, k), p)
         /\ \A kind, arg : MadeWith(ts, kind, arg) => MadeWith(Finish(ts, k), kind, arg)
         /\ \A kind : Pending(ts, kind) /\ (Shows(ts[k]) => ts[k].kind # kind)
                        => Pending(Finish(ts, k), kind)
         /\ FreshOnes(ts) /\ Shows(ts[k])
              => \A arg : MadeWith(Finish(ts, k), ts[k].kind, arg)
<1> DEFINE us == Finish(ts, k)
<1>1. /\ \A l \in Slots : Shows(us[l]) => us[l] = ts[l] /\ l # k
      /\ \A l \in Slots : Shows(ts[l]) /\ l # k => us[l] = ts[l]
  BY FinishTasks
<1> HIDE DEF us
<1>2. FreshOnes(ts) => FreshOnes(us)
  BY <1>1 DEF FreshOnes
<1>3. \A p : ShownOf(ts, p) => ShownOf(us, p)
  BY <1>1 DEF ShownOf
<1>4. \A kind, arg : MadeWith(ts, kind, arg) => MadeWith(us, kind, arg)
  BY <1>1 DEF MadeWith
<1>5. \A kind : Pending(ts, kind) /\ (Shows(ts[k]) => ts[k].kind # kind) => Pending(us, kind)
  BY <1>1 DEF Pending
<1>6. FreshOnes(ts) /\ Shows(ts[k]) => \A arg : MadeWith(us, ts[k].kind, arg)
  BY <1>1 DEF FreshOnes, MadeWith
<1> QED
  BY <1>2, <1>3, <1>4, <1>5, <1>6 DEF us

\* A turn that ends a call for a pane of the history, by what becomes of
\* the pane.
LEMMA PaneTurn ==
  ASSUME ScmInv, NEW k \in Slots, Shows(tasks[k]), tasks' = Finish(tasks, k), pane' \in Panes,
         UNCHANGED <<git, Env, operation, background, tab, list, loadingMore, cache, picked>>,
         pane'.remotes = pane.remotes, pane'.branches = pane.branches,
         tasks[k].kind = "files" => pane'.diff = pane.diff,
         tasks[k].kind = "diff" => pane'.files = pane.files,
         ~resetDue => /\ pane'.files # None => pane'.files.of = current
                      /\ pane'.diff # None => pane'.diff.of = current,
         ~resetDue /\ tasks[k].kind = "files" /\ tab = "history" /\ pane'.files # None
           => pane'.files.rev = picked.rev,
         ~resetDue /\ tasks[k].kind = "diff" /\ DetailShown /\ pane'.diff # None
           => pane'.diff.pick = [rev |-> picked.rev, file |-> picked.file]
  PROVE  Turn
<1>1. TasksIn(tasks, git) /\ FreshOnes(tasks)
  BY DEF ScmInv, Panel, PanesInv
<1>2. StoreTurn /\ TasksIn(tasks', git')
  BY <1>1, StoreSame, FinishTasks DEF ScmInv, Env
<1>3. PanelIn'
  BY DEF ScmInv, Panel, PanelIn, Env
<1>4. HistoryOfProject'
  BY ListKept DEF Env
<1>5. /\ FreshOnes(tasks')
      /\ \A p : ShownOf(tasks, p) => ShownOf(tasks', p)
      /\ \A kind, arg : MadeWith(tasks, kind, arg) => MadeWith(tasks', kind, arg)
      /\ \A kind : Pending(tasks, kind) /\ tasks[k].kind # kind => Pending(tasks', kind)
      /\ \A arg : MadeWith(tasks', tasks[k].kind, arg)
  BY <1>1, EndsShown
<1>6. tasks[k].kind \in {"files", "diff"}
  BY DEF Shows
<1>7. ASSUME ~resetDue
      PROVE  /\ PanesOf(tasks', pane', current')
             /\ tab' = "history" => FilesFollow(tasks', pane'.files, picked')
             /\ DetailShown' => DiffFollows(tasks', pane'.diff, picked')
  <2>1. /\ PanesOf(tasks, pane, current)
        /\ tab = "history" => FilesFollow(tasks, pane.files, picked)
        /\ DetailShown => DiffFollows(tasks, pane.diff, picked)
        /\ UNCHANGED <<current, tab, picked>> /\ (DetailShown' <=> DetailShown)
    BY <1>7 DEF ScmInv, Panel, PanesInv, Env, DetailShown
  <2>2. PanesOf(tasks', pane', current')
    BY <1>5, <1>7, <2>1 DEF PanesOf
  <2>3. CASE tasks[k].kind = "files"
    <3>1. tab = "history" => FilesFollow(tasks', pane'.files, picked)
      BY <1>5, <1>7, <2>1, <2>3 DEF FilesFollow
    <3>2. DetailShown => DiffFollows(tasks', pane'.diff, picked)
      BY <1>5, <1>7, <2>1, <2>3 DEF DiffFollows
    <3> QED
      BY <2>1, <2>2, <3>1, <3>2
  <2>4. CASE tasks[k].kind = "diff"
    <3>1. tab = "history" => FilesFollow(tasks', pane'.files, picked)
      BY <1>5, <1>7, <2>1, <2>4 DEF FilesFollow
    <3>2. DetailShown => DiffFollows(tasks', pane'.diff, picked)
      BY <1>5, <1>7, <2>1, <2>4 DEF DiffFollows
    <3> QED
      BY <2>1, <2>2, <3>1, <3>2
  <2> QED
    BY <1>6, <2>3, <2>4
<1>8. PanesInv'
  BY <1>5, <1>7 DEF PanesInv, Env
<1> QED
  BY <1>2, <1>3, <1>4, <1>8 DEF Turn, Panel

\* The files of a commit answer or fail.
LEMMA FilesEndTurn ==
  ASSUME ScmInv, NEW k \in Slots, UNCHANGED Env, tasks[k] # None, tasks[k].kind = "files",
         tasks' = Finish(tasks, k),
         NEW f \in {None, [of |-> tasks[k].path, rev |-> tasks[k].arg]},
         pane' = IF IsCurrentRequest(k) /\ picked.rev = tasks[k].arg
                 THEN [pane EXCEPT !.files = f] ELSE pane,
         UNCHANGED <<git, operation, background, tab, list, loadingMore, cache, picked>>
  PROVE  Turn
<1> DEFINE r == tasks[k]
<1>1. r \in TaskState /\ r.path \in Projects /\ r.arg \in Nat
  BY CallFacts DEF ArgOK
<1>2. f \in [of : Projects, rev : Nat] \cup {None}
  BY <1>1
<1>3. pane \in Panes
  BY DEF ScmInv, Panel, PanelIn
<1>4. CASE Shows(r)
  <2>1. CASE IsCurrentRequest(k) /\ picked.rev = r.arg
    <3>1. /\ pane' \in Panes /\ pane'.files = f /\ pane'.diff = pane.diff
          /\ pane'.remotes = pane.remotes /\ pane'.branches = pane.branches
      BY <1>2, <1>3, <2>1 DEF Panes
    <3>2. f # None => f.of = current /\ f.rev = picked.rev
      BY <2>1 DEF IsCurrentRequest, IsCurrentProject
    <3>3. ~resetDue => (pane.diff # None => pane.diff.of = current)
      BY DEF ScmInv, Panel, PanesInv, PanesOf
    <3> QED
      BY <1>4, <3>1, <3>2, <3>3, PaneTurn
  <2>2. CASE ~(IsCurrentRequest(k) /\ picked.rev = r.arg)
    <3>1. pane' = pane
      BY <2>2
    <3>2. ASSUME ~resetDue
          PROVE  /\ pane.files # None => pane.files.of = current
                 /\ pane.diff # None => pane.diff.of = current
                 /\ tab = "history" => pane.files = None
      <4>1. r.fresh /\ r.path = current
        BY <1>4, <3>2 DEF ScmInv, Panel, PanesInv, PanesOf, ShownOf, Shows
      <4>2. picked.rev # r.arg
        BY <2>2, <4>1 DEF IsCurrentRequest, IsCurrentProject
      <4>3. tab = "history" => pane.files = None
        BY <1>4, <3>2, <4>2 DEF ScmInv, Panel, PanesInv, FilesFollow, MadeWith
      <4> QED
        BY <3>2, <4>3 DEF ScmInv, Panel, PanesInv, PanesOf
    <3> QED
      BY <1>3, <1>4, <3>1, <3>2, PaneTurn
  <2> QED
    BY <2>1, <2>2
<1>5. CASE ~Shows(r)
  <2>1. ~IsCurrentRequest(k)
    BY <1>5 DEF Shows, IsCurrentRequest
  <2>2. UNCHANGED pane /\ loadingMore' \in BOOLEAN
    BY <2>1 DEF ScmInv, Panel, PanelIn
  <2> QED
    BY <1>5, <2>2, DroppedTurn
<1> QED
  BY <1>4, <1>5

\* The diff of a file answers or fails.
LEMMA DiffEndTurn ==
  ASSUME ScmInv, NEW k \in Slots, UNCHANGED Env, tasks[k] # None, tasks[k].kind = "diff",
         tasks' = Finish(tasks, k),
         NEW d \in {None, [of |-> tasks[k].path, pick |-> tasks[k].arg]},
         pane' = IF IsCurrentDiff(k) THEN [pane EXCEPT !.diff = d] ELSE pane,
         UNCHANGED <<git, operation, background, tab, list, loadingMore, cache, picked>>
  PROVE  Turn
<1> DEFINE r == tasks[k]
<1>1. r \in TaskState /\ r.path \in Projects /\ r.arg \in Pick
  BY CallFacts DEF ArgOK
<1>2. d \in [of : Projects, pick : Pick] \cup {None}
  BY <1>1
<1>3. pane \in Panes
  BY DEF ScmInv, Panel, PanelIn
<1>4. CASE Shows(r)
  <2>1. CASE IsCurrentDiff(k)
    <3>1. /\ pane' \in Panes /\ pane'.diff = d /\ pane'.files = pane.files
          /\ pane'.remotes = pane.remotes /\ pane'.branches = pane.branches
      BY <1>2, <1>3, <2>1 DEF Panes
    <3>2. d # None => /\ d.of = current
                      /\ d.pick = [rev |-> picked.rev, file |-> picked.file]
      BY <2>1 DEF IsCurrentDiff, IsCurrentRequest, IsCurrentProject
    <3>3. ~resetDue => (pane.files # None => pane.files.of = current)
      BY DEF ScmInv, Panel, PanesInv, PanesOf
    <3> QED
      BY <1>4, <3>1, <3>2, <3>3, PaneTurn
  <2>2. CASE ~IsCurrentDiff(k)
    <3>1. pane' = pane
      BY <2>2
    <3>2. ASSUME ~resetDue
          PROVE  /\ pane.files # None => pane.files.of = current
                 /\ pane.diff # None => pane.diff.of = current
                 /\ ~DetailShown
      <4>1. r.fresh /\ r.path = current
        BY <1>4, <3>2 DEF ScmInv, Panel, PanesInv, PanesOf, ShownOf, Shows
      <4>2. r.arg # [rev |-> picked.rev, file |-> picked.file]
        BY <2>2, <4>1 DEF IsCurrentDiff, IsCurrentRequest, IsCurrentProject
      <4>3. ~DetailShown
        BY <1>4, <3>2, <4>2 DEF ScmInv, Panel, PanesInv, DiffFollows, MadeWith
      <4> QED
        BY <3>2, <4>3 DEF ScmInv, Panel, PanesInv, PanesOf
    <3> QED
      BY <1>3, <1>4, <3>1, <3>2, PaneTurn
  <2> QED
    BY <2>1, <2>2
<1>5. CASE ~Shows(r)
  <2>1. ~IsCurrentRequest(k)
    BY <1>5 DEF Shows, IsCurrentRequest
  <2>2. UNCHANGED pane /\ loadingMore' \in BOOLEAN
    BY <2>1 DEF ScmInv, Panel, PanelIn, IsCurrentDiff
  <2> QED
    BY <1>5, <2>2, DroppedTurn
<1> QED
  BY <1>4, <1>5

\* The four turns that end a call for a pane of the history.
LEMMA PaneAnswersTurn ==
  ASSUME ScmInv, NEW k \in Slots, UNCHANGED Env,
         \/ FilesAnswer(k) \/ FilesFail(k) \/ DiffAnswers(k) \/ DiffFails(k)
  PROVE  Turn
<1>1. CASE FilesAnswer(k)
  BY <1>1, FilesEndTurn DEF FilesAnswer
<1>2. CASE FilesFail(k)
  BY <1>2, FilesEndTurn DEF FilesFail
<1>3. CASE DiffAnswers(k)
  BY <1>3, DiffEndTurn DEF DiffAnswers
<1>4. CASE DiffFails(k)
  BY <1>4, DiffEndTurn DEF DiffFails
<1> QED
  BY <1>1, <1>2, <1>3, <1>4

\* The remotes, and the branches of the menu.
LEMMA MenusTurn ==
  ASSUME ScmInv, NEW k \in Slots, RemotesAnswer(k) \/ BranchesAnswer(k), UNCHANGED <<Env, moves>>
  PROVE  Turn
<1>1. /\ tasks[k] # None /\ ~Shows(tasks[k]) /\ tasks' = Finish(tasks, k)
      /\ tasks[k].path \in Projects
      /\ UNCHANGED <<git, operation, background, tab, list, loadingMore, cache, picked>>
  BY CallFacts DEF RemotesAnswer, BranchesAnswer
<1>2. /\ pane' \in Panes /\ pane'.files = pane.files /\ pane'.diff = pane.diff
      /\ pane'.remotes \in {pane.remotes, current, None}
      /\ pane'.branches \in {pane.branches, current, None}
  <2>1. /\ \/ pane' = pane
           \/ pane' = [pane EXCEPT !.remotes = current] /\ current \in Projects
           \/ pane' = [pane EXCEPT !.branches = current] /\ current \in Projects
    BY <1>1 DEF RemotesAnswer, BranchesAnswer, IsCurrentRequest, IsCurrentProject
  <2>2. pane \in Panes
    BY DEF ScmInv, Panel, PanelIn
  <2> QED
    BY <2>1, <2>2 DEF Panes, Project
<1>3. TasksIn(tasks', git') /\ Keeps(tasks, tasks')
  BY <1>1, FinishedTasks
<1>4. StoreTurn
  BY <1>1, StoreSame DEF ScmInv, Env
<1>5. list' \in History /\ cache' \in [Projects -> History] /\ HistoryOfProject'
  BY <1>1, ListKept DEF Env
<1> QED
  BY <1>1, <1>2, <1>3, <1>4, <1>5, StillTurn DEF ScmInv, Panel, PanelIn, Env

----------------------------------------------------------------------------
(* The turns of the commands.                                              *)

LEMMA StayTrans ==
  ASSUME NEW f, NEW g, NEW h, ReadsStay(f, g), ReadsStay(g, h)
  PROVE  ReadsStay(f, h)
BY DEF ReadsStay

LEMMA OutdateReads ==
  ASSUME NEW g \in GitState, NEW p \in Projects
  PROVE  ReadsStay(g, Outdate(g, p))
<1> DEFINE i == g.inFlight[p]
           h == Outdate(g, p)
<1>1. CASE i = None
  BY <1>1 DEF Outdate, ReadsStay
<1>2. CASE i # None
  <2> SUFFICES ASSUME NEW j \in Reads, g.reads[j] # None
               PROVE  h.reads[j] # None
    BY DEF ReadsStay
  <2>1. i \in Reads
    BY <1>2 DEF GitState
  <2>2. h.reads = [g.reads EXCEPT ![i] = [g.reads[i] EXCEPT !.stale = TRUE]]
    BY <1>2 DEF Outdate, GitState
  <2>3. CASE j = i
    <3>1. g.reads[i] \in ReadState
      BY <2>3 DEF GitState
    <3>2. [g.reads[i] EXCEPT !.stale = TRUE] \in ReadState
      BY <3>1 DEF ReadState
    <3>3. h.reads[i] = [g.reads[i] EXCEPT !.stale = TRUE]
      BY <2>1, <2>2 DEF GitState
    <3> QED
      BY <2>3, <3>2, <3>3, NoneIsNoRead
  <2>4. CASE j # i
    BY <2>2, <2>4 DEF GitState
  <2> QED
    BY <2>3, <2>4
<1> QED
  BY <1>1, <1>2

LEMMA PublishReads ==
  ASSUME NEW g \in GitState, NEW p, NEW s
  PROVE  publish(g, p, s).reads = g.reads
BY DEF publish, GitState

\* The panel's guesses end no read.
LEMMA GuessReads ==
  ASSUME NEW g \in GitState, NEW t \in Trees, Good(g, t), NEW p \in Projects, NEW s
  PROVE  /\ ReadsStay(g, setPanelStatus(g, p, s, FALSE))
         /\ ReadsStay(g, applyFromGitStatus(g, p, s))
<1>1. Sound(g, activate(g, p), t) /\ activate(g, p).reads = g.reads
  BY ActivateSound
<1>2. ReadsStay(g, setPanelStatus(g, p, s, FALSE))
  <2> DEFINE a == IF g.projectPath = None THEN activate(g, p) ELSE g
             b == Outdate(a, p)
  <2>1. a \in GitState /\ Good(a, t) /\ a.reads = g.reads
    BY <1>1 DEF Sound
  <2>2. setPanelStatus(g, p, s, FALSE) = publish(b, p, s)
    BY DEF setPanelStatus
  <2> HIDE DEF a
  <2>3. ReadsStay(a, b) /\ b \in GitState
    BY <2>1, OutdateReads, OutdateSound DEF Sound
  <2> HIDE DEF b
  <2>4. publish(b, p, s).reads = b.reads
    BY <2>3, PublishReads
  <2> QED
    BY <2>1, <2>2, <2>3, <2>4 DEF ReadsStay
<1>3. ReadsStay(g, applyFromGitStatus(g, p, s))
  <2> DEFINE a == activate(g, p)
             b == [a EXCEPT !.timers = @ \ {p}]
             c == Outdate(b, p)
  <2>1. a \in GitState
    BY <1>1 DEF Sound
  <2>2. applyFromGitStatus(g, p, s) = publish(c, p, s)
    BY DEF applyFromGitStatus
  <2>3. a.reads = g.reads /\ Good(a, t)
    BY <1>1 DEF Sound
  <2> HIDE DEF a
  <2>4. b.reads = a.reads
    BY <2>1 DEF GitState
  <2>5. Sound(a, b, t)
    <3>1. a.timers \ {p} \in SUBSET Projects
      BY <2>1 DEF GitState
    <3> QED
      BY <2>1, <2>3, <3>1, TimersSound
  <2>6. b \in GitState /\ Good(b, t)
    BY <2>5 DEF Sound
  <2> HIDE DEF b
  <2>7. ReadsStay(b, c) /\ c \in GitState
    BY <2>6, OutdateReads, OutdateSound DEF Sound
  <2> HIDE DEF c
  <2>8. publish(c, p, s).reads = c.reads
    BY <2>7, PublishReads
  <2> QED
    BY <2>2, <2>3, <2>4, <2>7, <2>8 DEF ReadsStay
<1> QED
  BY <1>2, <1>3

LEMMA RefreshedFacts ==
  ASSUME NEW g \in GitState, tree \in Trees, Good(g, tree), NEW p \in Projects, NEW mode,
         NEW reuse \in BOOLEAN, CanRefresh(g, p)
  PROVE  /\ Sound(g, Refreshed(g, p, mode, reuse), tree)
         /\ ReadsStay(g, Refreshed(g, p, mode, reuse))
         /\ Refreshed(g, p, mode, reuse).inFlight[p] \in Reads
         /\ Refreshed(g, p, mode, reuse).reads[Refreshed(g, p, mode, reuse).inFlight[p]] # None
<1> DEFINE full == mode # "soft"
<1>1. full \in BOOLEAN /\ FALSE \in BOOLEAN
  OBVIOUS
<1>2. Refreshed(g, p, mode, reuse) = refresh(g, p, FALSE, reuse, full, tree[p])
  BY DEF Refreshed
<1> HIDE DEF full
<1>3. Sound(g, refresh(g, p, FALSE, reuse, full, tree[p]), tree)
  BY <1>1, RefreshSound
<1>4. /\ ReadsStay(g, refresh(g, p, FALSE, reuse, full, tree[p]))
      /\ refresh(g, p, FALSE, reuse, full, tree[p]).inFlight[p] \in Reads
      /\ refresh(g, p, FALSE, reuse, full, tree[p]).reads[
           refresh(g, p, FALSE, reuse, full, tree[p]).inFlight[p]] # None
  BY <1>1, RefreshReads, ZenonT(60)
<1> QED
  BY <1>2, <1>3, <1>4

\* A handler that ends with a soft refresh, g being what it made of the store.
LEMMA SoftRefreshTurn ==
  ASSUME ScmInv, NEW k \in Slots, tasks[k] # None, tasks[k].step # "asks", NEW g,
         Sound(git, g, tree), ReadsStay(git, g), EndsWithSoftRefresh(k, g), UNCHANGED Env
  PROVE  Turn
<1> DEFINE p == tasks[k].path
           h == Refreshed(g, p, "soft", FALSE)
           fs == Finish(tasks, k)
<1>1. p \in Projects /\ ~Shows(tasks[k]) /\ g \in GitState /\ Good(g, tree)
      /\ git \in GitState /\ tree \in Trees /\ Good(git, tree)
  BY CallFacts DEF Sound, ScmInv, GitInv
<1>2. CanRefresh(g, p) /\ git' = h /\ tasks' = WithRefresh(fs, 1, h, p, "soft")
  BY DEF EndsWithSoftRefresh
<1>3. FreeSlot(1) \in Slots /\ tasks[FreeSlot(1)] = None
  BY RoomIsFree DEF EndsWithSoftRefresh
<1>4. TasksIn(fs, git) /\ Keeps(tasks, fs) /\ Spares(fs)
  BY <1>1, FinishedTasks
<1> HIDE DEF p, fs
<1>5. /\ Sound(g, h, tree) /\ ReadsStay(g, h) /\ h.inFlight[p] \in Reads
      /\ h.reads[h.inFlight[p]] # None
  BY <1>1, <1>2, RefreshedFacts
<1> HIDE DEF h
<1>6. Sound(git, h, tree) /\ TasksIn(fs, h)
  BY <1>1, <1>4, <1>5, SoundTrans, StayTrans, StayTasks
<1>7. fs[FreeSlot(1)] = None
  BY <1>3, <1>4 DEF Spares
<1>8. TasksIn(tasks', git') /\ Keeps(fs, tasks')
  <2>1. "soft" \in Modes
    BY DEF Modes
  <2> QED
    BY <1>1, <1>2, <1>3, <1>5, <1>6, <1>7, <2>1, WithRefreshTasks
<1>9. Keeps(tasks, tasks')
  BY <1>4, <1>8, KeepsTrans
<1>10. StoreTurn
  BY <1>2, <1>6, StoreMoves DEF ScmInv, Env
<1>11. operation' \in OperationKinds \cup {None} /\ background' \in Project
  BY ReleasedTypes DEF EndsWithSoftRefresh
<1> QED
  BY <1>8, <1>9, <1>10, <1>11, QuietTurn DEF EndsWithSoftRefresh, Env, Lists

\* A handler that awaits a refresh.
LEMMA AwaitsRefreshTurn ==
  ASSUME ScmInv, NEW k \in Slots, tasks[k] # None, tasks[k].step # "asks",
         tasks[k].kind # "stageAll", NEW then \in Handlers,
         tasks[k].kind = "commit" => then \in {"push", "end"},
         AwaitsRefresh(k, then), UNCHANGED Env
  PROVE  Turn
<1> DEFINE r == tasks[k]
           p == r.path
           mode == IF r.kind = "auto" THEN "quiet" ELSE "hard"
           h == Refreshed(git, p, mode, FALSE)
           ws == WithRefresh(tasks, 1, h, p, mode)
           s == Awaiting(r, FreeSlot(1), then)
<1>1. /\ p \in Projects /\ ~Shows(r) /\ r \in TaskState /\ r.kind \notin LoadKinds
      /\ git \in GitState /\ tree \in Trees /\ Good(git, tree) /\ TasksIn(tasks, git)
  BY CallFacts DEF ScmInv, GitInv, Panel
<1>2. /\ CanRefresh(git, p) /\ git' = h /\ tasks' = [ws EXCEPT ![k] = s]
      /\ UNCHANGED panelVars
  BY DEF AwaitsRefresh, Awaiting
<1>3. FreeSlot(1) \in Slots /\ tasks[FreeSlot(1)] = None
  BY RoomIsFree DEF AwaitsRefresh
<1>4. mode \in Modes
  BY DEF Modes
<1>5. s \in TaskState /\ ArgOK(s) /\ ~Shows(s) /\ s.step = "await" /\ s.on = FreeSlot(1)
  <2>1. then \in Args
    BY DEF Args
  <2> HIDE DEF r
  <2>2. r.kind # "stageAll" /\ (r.kind = "commit" => then \in {"push", "end"})
    BY DEF r
  <2> QED
    BY <1>1, <1>3, <2>1, <2>2, AwaitRecord
<1> HIDE DEF p, mode, s
<1>6. /\ Sound(git, h, tree) /\ ReadsStay(git, h) /\ h.inFlight[p] \in Reads
      /\ h.reads[h.inFlight[p]] # None
  BY <1>1, <1>2, RefreshedFacts
<1> HIDE DEF h
<1>7. TasksIn(tasks, h)
  BY <1>1, <1>6, StayTasks
<1>8. TasksIn(ws, h) /\ Keeps(tasks, ws) /\ ws[FreeSlot(1)] # None
  BY <1>1, <1>3, <1>4, <1>6, <1>7, WithRefreshTasks
<1> HIDE DEF ws
<1>9. ~Shows(ws[k])
  BY <1>1, <1>8 DEF Keeps
<1>10. TasksIn([ws EXCEPT ![k] = s], h) /\ Keeps(ws, [ws EXCEPT ![k] = s])
  BY <1>3, <1>5, <1>8, <1>9, ReplaceTasks
<1>11. TasksIn(tasks', git') /\ Keeps(tasks, tasks')
  BY <1>2, <1>8, <1>10, KeepsTrans
<1>12. StoreTurn
  BY <1>2, <1>6, StoreMoves DEF ScmInv, Env
<1> QED
  BY <1>2, <1>11, <1>12, QuietTurn DEF ScmInv, Panel, PanelIn, panelVars, Env

LEMMA StatusGuess ==
  ASSUME NEW s \in Status
  PROVE  /\ Guess(s.ver) \in MaybeStatus /\ ~IsRead(Guess(s.ver))
         /\ [s EXCEPT !.sure = FALSE] \in MaybeStatus /\ ~IsRead([s EXCEPT !.sure = FALSE])
<1>1. s.ver \in Versions
  BY DEF Status
<1>2. [s EXCEPT !.sure = FALSE] \in Status /\ [s EXCEPT !.sure = FALSE].sure = FALSE
  BY DEF Status
<1> QED
  BY <1>1, <1>2, StatusTypes DEF MaybeStatus, IsRead

LEMMA DiscardedSound ==
  ASSUME git \in GitState, tree \in Trees, Good(git, tree), NEW p \in Projects
  PROVE  Sound(git, Discarded(p), tree) /\ ReadsStay(git, Discarded(p))
<1>1. CASE git.snapshots[p] = None
  BY <1>1, SoundSelf DEF Discarded, ReadsStay
<1>2. CASE git.snapshots[p] # None
  <2> DEFINE left == Guess(git.snapshots[p].ver)
             a == setPanelStatus(git, p, left, FALSE)
  <2>1. git.snapshots[p] \in Status
    BY <1>2 DEF GitState, MaybeStatus
  <2>2. left \in MaybeStatus /\ ~IsRead(left)
    BY <2>1, StatusGuess
  <2>3. Discarded(p) = applyFromGitStatus(a, p, left)
    BY <1>2 DEF Discarded
  <2> HIDE DEF left
  <2>4. Sound(git, a, tree) /\ ReadsStay(git, a)
    <3>1. FALSE \in BOOLEAN
      OBVIOUS
    <3> QED
      BY <2>2, <3>1, SetPanelSound, GuessReads
  <2>5. a \in GitState /\ Good(a, tree)
    BY <2>4 DEF Sound
  <2> HIDE DEF a
  <2>6. Sound(a, applyFromGitStatus(a, p, left), tree)
        /\ ReadsStay(a, applyFromGitStatus(a, p, left))
    BY <2>2, <2>5, ApplySound, GuessReads
  <2> QED
    BY <2>3, <2>4, <2>6, SoundTrans, StayTrans
<1> QED
  BY <1>1, <1>2

LEMMA CommandAnswersTurn ==
  ASSUME ScmInv, NEW k \in Slots, CommandAnswers(k), UNCHANGED <<Env, moves>>
  PROVE  Turn
<1> DEFINE r == tasks[k]
<1>1. /\ r # None /\ r.step # "asks" /\ r.path \in Projects /\ UNCHANGED Env
      /\ git \in GitState /\ tree \in Trees /\ Good(git, tree)
  BY CallFacts DEF CommandAnswers, ScmInv, GitInv
<1>2. CASE Over(k)
  BY <1>1, <1>2, OverTurn
<1>3. CASE EndsWithSoftRefresh(k, git)
  <2>1. Sound(git, git, tree) /\ ReadsStay(git, git)
    BY <1>1, SoundSelf DEF ReadsStay
  <2> QED
    BY <1>1, <1>3, <2>1, SoftRefreshTurn
<1>4. CASE EndsWithSoftRefresh(k, Discarded(r.path))
  <2>1. Sound(git, Discarded(r.path), tree) /\ ReadsStay(git, Discarded(r.path))
    BY <1>1, DiscardedSound
  <2> QED
    BY <1>1, <1>4, <2>1, SoftRefreshTurn
<1>5. CASE r.kind = "commit" /\ AwaitsRefresh(k, r.arg)
  <2>1. r.arg \in Handlers /\ r.arg \in {"push", "end"}
    BY <1>1, <1>5, CallFacts DEF ArgOK, Handlers
  <2> QED
    BY <1>1, <1>5, <2>1, AwaitsRefreshTurn
<1>6. CASE r.kind \in {"fetch", "auto"} /\ AwaitsRefresh(k, "branches")
  <2>1. "branches" \in Handlers
    BY DEF Handlers
  <2> QED
    BY <1>1, <1>6, <2>1, AwaitsRefreshTurn
<1>7. CASE r.kind \in {"pull", "switch", "push"} /\ AwaitsRefresh(k, "end")
  <2>1. "end" \in Handlers
    BY DEF Handlers
  <2> QED
    BY <1>1, <1>7, <2>1, AwaitsRefreshTurn
<1> QED
  BY <1>2, <1>3, <1>4, <1>5, <1>6, <1>7 DEF CommandAnswers

LEMMA FetchesBehindTurn ==
  ASSUME ScmInv, NEW k \in Slots, tasks[k] # None, tasks[k].step # "asks",
         FetchesBehind(k), UNCHANGED Env
  PROVE  Turn
<1> DEFINE p == tasks[k].path
           fs == Finish(tasks, k)
           r == Task("auto", p, "git", None, None)
<1>1. p \in Projects /\ ~Shows(tasks[k])
  BY CallFacts
<1>2. FreeSlot(1) \in Slots /\ tasks[FreeSlot(1)] = None
  BY RoomIsFree DEF FetchesBehind
<1>3. TasksIn(fs, git) /\ Keeps(tasks, fs) /\ fs[FreeSlot(1)] = None
  BY <1>1, <1>2, FinishedTasks DEF Spares
<1>4. "auto" \in Kinds /\ "git" \in Steps /\ None \in Awaited /\ None \in Args
  BY DEF Kinds, Steps, Awaited, Args
<1>5. r \in TaskState /\ r.kind = "auto" /\ r.step = "git"
  BY <1>1, <1>4, TaskType
<1>6. tasks' = Start(fs, 1, r) /\ background' = p /\ operation' = None
      /\ UNCHANGED <<git, Lists, pane>>
  BY DEF FetchesBehind
<1> HIDE DEF r, fs, p
<1>7. ArgOK(r) /\ ~Shows(r) /\ r.step # "read" /\ r.step # "await"
  BY <1>5 DEF ArgOK, Shows, LoadKinds
<1>8. TasksIn(tasks', git) /\ Keeps(fs, tasks')
  BY <1>3, <1>5, <1>6, <1>7, RequestTasks
<1>9. Keeps(tasks, tasks') /\ TasksIn(tasks', git')
  BY <1>3, <1>6, <1>8, KeepsTrans
<1>10. StoreTurn
  BY <1>6, StoreSame DEF ScmInv, Env
<1>11. operation' \in OperationKinds \cup {None} /\ background' \in Project
  BY <1>1, <1>6 DEF Project
<1> QED
  BY <1>6, <1>9, <1>10, <1>11, QuietTurn DEF Env, Lists

LEMMA CommandRejectsTurn ==
  ASSUME ScmInv, NEW k \in Slots, CommandRejects(k), UNCHANGED <<Env, moves>>
  PROVE  Turn
<1> DEFINE r == tasks[k]
<1>1. /\ r # None /\ r.step # "asks" /\ r.path \in Projects /\ UNCHANGED Env
      /\ git \in GitState /\ tree \in Trees /\ Good(git, tree)
  BY CallFacts DEF CommandRejects, ScmInv, GitInv
<1>2. CASE Over(k)
  BY <1>1, <1>2, OverTurn
<1>3. CASE EndsWithSoftRefresh(k, git)
  <2>1. Sound(git, git, tree) /\ ReadsStay(git, git)
    BY <1>1, SoundSelf DEF ReadsStay
  <2> QED
    BY <1>1, <1>3, <2>1, SoftRefreshTurn
<1>4. CASE /\ r.kind = "stageAll"
           /\ EndsWithSoftRefresh(k, applyFromGitStatus(git, r.path, [r.arg EXCEPT !.sure = FALSE]))
  <2> DEFINE s == [r.arg EXCEPT !.sure = FALSE]
             g == applyFromGitStatus(git, r.path, s)
  <2>1. r.arg \in Status
    BY <1>1, <1>4, CallFacts DEF ArgOK
  <2>2. s \in MaybeStatus /\ ~IsRead(s)
    BY <2>1, StatusGuess
  <2> HIDE DEF s
  <2>3. Sound(git, g, tree) /\ ReadsStay(git, g)
    BY <1>1, <2>2, ApplySound, GuessReads
  <2>4. EndsWithSoftRefresh(k, g)
    BY <1>4 DEF s
  <2> HIDE DEF g
  <2> QED
    BY <1>1, <2>3, <2>4, SoftRefreshTurn
<1>5. CASE r.kind \in {"pull", "commit"} /\ AwaitsRefresh(k, "end")
  <2>1. "end" \in Handlers
    BY DEF Handlers
  <2> QED
    BY <1>1, <1>5, <2>1, AwaitsRefreshTurn
<1>6. CASE FetchesBehind(k)
  BY <1>1, <1>6, FetchesBehindTurn
<1> QED
  BY <1>2, <1>3, <1>4, <1>5, <1>6 DEF CommandRejects

LEMMA FetchedBranchesTurn ==
  ASSUME ScmInv, NEW k \in Slots, FetchedBranches(k), UNCHANGED <<Env, moves>>
  PROVE  Turn
<1> DEFINE p == tasks[k].path
           fs == Finish(tasks, k)
           ls == LoadRemotes(fs, 1, p)
<1>1. p \in Projects /\ ~Shows(tasks[k]) /\ tasks[k] # None
  BY CallFacts DEF FetchedBranches
<1>2. FreeSlot(1) \in Slots /\ tasks[FreeSlot(1)] = None
  BY RoomIsFree DEF FetchedBranches
<1>3. TasksIn(fs, git) /\ Keeps(tasks, fs) /\ fs[FreeSlot(1)] = None
  BY <1>1, <1>2, FinishedTasks DEF Spares
<1>4. TasksIn(ls, git) /\ Keeps(tasks, ls)
  <2> HIDE DEF fs
  <2> QED
    BY <1>1, <1>2, <1>3, LoadRemotesTasks, KeepsTrans
<1>5. tasks' \in {fs, ls} /\ UNCHANGED <<git, Lists>>
  BY DEF FetchedBranches
<1>6. TasksIn(tasks', git') /\ Keeps(tasks, tasks')
  <2> HIDE DEF fs, ls
  <2> QED
    BY <1>3, <1>4, <1>5
<1>7. StoreTurn
  BY <1>5, StoreSame DEF ScmInv, Env
<1>8. operation' \in OperationKinds \cup {None} /\ background' \in Project
  BY ReleasedTypes DEF FetchedBranches
<1>9. /\ pane' \in Panes /\ pane'.files = pane.files /\ pane'.diff = pane.diff
      /\ pane'.remotes = pane.remotes /\ pane'.branches \in {pane.branches, current, None}
  <2>1. pane' = pane \/ (pane' = [pane EXCEPT !.branches = current] /\ current \in Projects)
    BY <1>1 DEF FetchedBranches, IsCurrentProject
  <2>2. pane \in Panes
    BY DEF ScmInv, Panel, PanelIn
  <2> QED
    BY <2>1, <2>2 DEF Panes, Project
<1>10. list' \in History /\ cache' \in [Projects -> History] /\ HistoryOfProject'
  BY <1>5, ListKept DEF Env, Lists
<1> QED
  BY <1>5, <1>6, <1>7, <1>8, <1>9, <1>10, StillTurn DEF ScmInv, Panel, PanelIn, Env, Lists

LEMMA CommandFailsTurn ==
  ASSUME ScmInv, NEW k \in Slots, CommandFails(k), UNCHANGED Env
  PROVE  Turn
<1>1. TasksIn(tasks', git') /\ Keeps(tasks, tasks')
  BY NextStep DEF CommandFails
<1>2. StoreTurn
  BY StoreSame DEF ScmInv, Env, CommandFails
<1> QED
  BY <1>1, <1>2, QuietTurn DEF ScmInv, Panel, PanelIn, Env, panelVars, CommandFails

\* The trees only grow.
LEMMA EditedTrees ==
  ASSUME GitInv, NEW p \in Projects
  PROVE  Edited(p) \in Trees /\ \A q \in Projects : Edited(p)[q] >= tree[q]
BY GitConstants DEF GitInv, Edited, Trees, Versions

LEMMA CommandRunsTurn ==
  ASSUME ScmInv, NEW k \in Slots, CommandRuns(k)
  PROVE  Turn
<1>1. TasksIn(tasks', git') /\ Keeps(tasks, tasks')
  BY NextStep DEF CommandRuns
<1>2. tasks[k].path \in Projects
  BY CallFacts DEF CommandRuns
<1>3. StoreTurn
  <2>1. git' = git /\ Sound(git, git', tree)
    BY SoundSelf DEF CommandRuns, ScmInv, GitInv
  <2>2. tree' \in Trees /\ \A q \in Projects : tree'[q] >= tree[q]
    <3>1. CASE tree' = tree
      BY <3>1 DEF ScmInv, GitInv, Trees, Versions
    <3>2. CASE tree' = Edited(tasks[k].path)
      BY <1>2, <3>2, EditedTrees DEF ScmInv
    <3> QED
      BY <3>1, <3>2 DEF CommandRuns
  <2> QED
    BY <2>1, <2>2 DEF StoreTurn
<1> QED
  BY <1>1, <1>3, QuietTurn DEF ScmInv, Panel, PanelIn, panelVars, CommandRuns

LEMMA AnswerDiscardTurn ==
  ASSUME ScmInv, NEW k \in Slots, NEW yes \in BOOLEAN, AnswerDiscard(k, yes),
         UNCHANGED <<Env, moves>>
  PROVE  Turn
<1>1. tasks[k] # None /\ tasks[k].step # "asks" /\ ~Shows(tasks[k])
  BY CallFacts DEF AnswerDiscard
<1>2. TasksIn(tasks', git') /\ Keeps(tasks, tasks')
  BY <1>1, NextStep, FinishedTasks DEF AnswerDiscard
<1>3. StoreTurn
  BY StoreSame DEF ScmInv, Env, AnswerDiscard
<1>4. operation' \in OperationKinds \cup {None} /\ background' \in Project
  BY DEF AnswerDiscard, ScmInv, Panel, PanelIn, OperationKinds
<1> QED
  BY <1>2, <1>3, <1>4, QuietTurn DEF AnswerDiscard, Env, Lists

----------------------------------------------------------------------------
(* The turns of the user.                                                  *)

\* One more call, which shows nothing in the history.
LEMMA RequestTurnTasks ==
  ASSUME ScmInv, Room(1), TasksIn(tasks, git'), NEW r \in TaskState, ArgOK(r), ~Shows(r),
         r.step \notin {"read", "await"}, tasks' = Start(tasks, 1, r)
  PROVE  TasksIn(tasks', git') /\ Keeps(tasks, tasks')
<1>1. FreeSlot(1) \in Slots /\ tasks[FreeSlot(1)] = None
  BY RoomIsFree
<1> QED
  BY <1>1, RequestTasks

LEMMA RunOperationTurn ==
  ASSUME ScmInv, NEW kind \in OperationKinds, NEW arg \in Args,
         kind = "stageAll" => arg \in Status, kind = "commit" => arg \in {"push", "end"},
         RunOperation(kind, arg), Sound(git, git', tree), ReadsStay(git, git')
  PROVE  Turn
<1> DEFINE r == Task(kind, current, "git", None, arg)
<1>1. current \in Projects /\ Room(1)
  <2>1. Room(2) /\ 2 \in Nat \ {0} /\ current # None
    BY DEF RunOperation, MayStart
  <2> QED
    BY <2>1, RoomForOne DEF ScmInv, Panel, PanelIn, Project
<1>2. kind \in Kinds /\ "git" \in Steps /\ None \in Awaited /\ kind \notin LoadKinds
  BY DEF Kinds, Steps, Awaited, OperationKinds, RemoteKinds, LoadKinds
<1>3. r \in TaskState /\ r.kind = kind /\ r.step = "git" /\ r.arg = arg
  BY <1>1, <1>2, TaskType
<1>4. tasks' = Start(tasks, 1, r)
  BY DEF RunOperation
<1> HIDE DEF r
<1>5. ArgOK(r) /\ ~Shows(r) /\ r.step \notin {"read", "await"}
  BY <1>2, <1>3 DEF ArgOK, Shows, LoadKinds
<1>6. TasksIn(tasks, git')
  BY StayTasks DEF ScmInv, Panel
<1>7. TasksIn(tasks', git') /\ Keeps(tasks, tasks')
  BY <1>1, <1>3, <1>4, <1>5, <1>6, RequestTurnTasks
<1>8. StoreTurn
  BY StoreMoves DEF ScmInv, RunOperation, Env
<1>9. operation' \in OperationKinds \cup {None} /\ background' \in Project
  BY DEF RunOperation, ScmInv, Panel, PanelIn
<1> QED
  BY <1>7, <1>8, <1>9, QuietTurn DEF RunOperation, Env, Lists

LEMMA OperationsTurn ==
  ASSUME ScmInv, \/ StageFiles \/ StageAll \/ Pull \/ SwitchBranch \/ RetryPush \/ FetchRemote
                 \/ \E then \in {"push", "end"} : CommitStaged(then)
  PROVE  Turn
<1>1. /\ \A kind \in {"stage", "pull", "switch", "push", "fetch", "stageAll", "commit"} :
            kind \in OperationKinds
      /\ None \in Args /\ "push" \in Args /\ "end" \in Args /\ Status \subseteq Args
  BY StringArgs DEF OperationKinds, RemoteKinds, Args
<1>2. git \in GitState /\ tree \in Trees /\ Good(git, tree)
  BY DEF ScmInv, GitInv
<1>3. git' = git => Sound(git, git', tree) /\ ReadsStay(git, git')
  BY <1>2, SoundSelf DEF ReadsStay
<1>4. ASSUME NEW kind \in {"stage", "pull", "switch", "push", "fetch"},
             RunOperation(kind, None), UNCHANGED git
      PROVE  Turn
  BY <1>1, <1>3, <1>4, RunOperationTurn
<1>5. ASSUME NEW then \in {"push", "end"}, CommitStaged(then)
      PROVE  Turn
  <2>1. then \in Args /\ "commit" \in OperationKinds
    BY <1>1
  <2> QED
    BY <1>3, <1>5, <2>1, RunOperationTurn DEF CommitStaged
<1>6. CASE StageAll
  <2> DEFINE s == git.snapshots[current]
             left == Guess(s.ver)
  <2>1. current \in Projects /\ s \in Status
    <3>1. current \in Projects
      BY <1>6 DEF StageAll, ScmInv, Panel, PanelIn, Project
    <3> QED
      BY <1>2, <1>6, <3>1 DEF StageAll, GitState, MaybeStatus
  <2>2. left \in MaybeStatus /\ ~IsRead(left)
    BY <2>1, StatusGuess
  <2>3. git' = applyFromGitStatus(git, current, left) /\ RunOperation("stageAll", s)
    BY <1>6 DEF StageAll
  <2> HIDE DEF s, left
  <2>4. Sound(git, git', tree) /\ ReadsStay(git, git')
    BY <1>2, <2>1, <2>2, <2>3, ApplySound, GuessReads
  <2>5. s \in Args /\ "stageAll" \in OperationKinds
    BY <1>1, <2>1
  <2> QED
    BY <2>1, <2>3, <2>4, <2>5, RunOperationTurn
<1>7. CASE StageFiles \/ Pull \/ SwitchBranch \/ RetryPush \/ FetchRemote
  BY <1>4, <1>7 DEF StageFiles, Pull, SwitchBranch, RetryPush, FetchRemote
<1> QED
  BY <1>5, <1>6, <1>7

LEMMA AskDiscardTurn ==
  ASSUME ScmInv, AskDiscard
  PROVE  Turn
<1> DEFINE r == Task("discard", current, "confirm", None, None)
<1>1. current \in Projects /\ Room(1)
  <2>1. Room(2) /\ 2 \in Nat \ {0} /\ current # None
    BY DEF AskDiscard, MayStart
  <2> QED
    BY <2>1, RoomForOne DEF ScmInv, Panel, PanelIn, Project
<1>2. "discard" \in Kinds /\ "confirm" \in Steps /\ None \in Awaited /\ None \in Args
  BY DEF Kinds, Steps, Awaited, OperationKinds, Args
<1>3. r \in TaskState /\ r.kind = "discard" /\ r.step = "confirm"
  BY <1>1, <1>2, TaskType
<1>4. tasks' = Start(tasks, 1, r) /\ UNCHANGED <<git, Env, panelVars>>
  BY DEF AskDiscard
<1> HIDE DEF r
<1>5. ArgOK(r) /\ ~Shows(r) /\ r.step \notin {"read", "await"}
  BY <1>3 DEF ArgOK, Shows, LoadKinds
<1>6. TasksIn(tasks', git') /\ Keeps(tasks, tasks')
  BY <1>1, <1>3, <1>4, <1>5, RequestTurnTasks DEF ScmInv, Panel
<1>7. StoreTurn
  BY <1>4, StoreSame DEF ScmInv, Env
<1> QED
  BY <1>4, <1>6, <1>7, QuietTurn DEF ScmInv, Panel, PanelIn, Env, panelVars

LEMMA AutoFetchTurn ==
  ASSUME ScmInv, AutoFetch
  PROVE  Turn
<1> DEFINE r == Task("auto", current, "git", None, None)
<1>1. current \in Projects /\ Room(1)
  <2>1. Room(2) /\ 2 \in Nat \ {0} /\ current # None
    BY DEF AutoFetch
  <2> QED
    BY <2>1, RoomForOne DEF ScmInv, Panel, PanelIn, Project
<1>2. "auto" \in Kinds /\ "git" \in Steps /\ None \in Awaited /\ None \in Args
  BY DEF Kinds, Steps, Awaited, Args
<1>3. r \in TaskState /\ r.kind = "auto" /\ r.step = "git"
  BY <1>1, <1>2, TaskType
<1>4. tasks' = Start(tasks, 1, r) /\ background' = current
      /\ UNCHANGED <<git, Env, operation, Lists, pane>>
  BY DEF AutoFetch
<1> HIDE DEF r
<1>5. ArgOK(r) /\ ~Shows(r) /\ r.step \notin {"read", "await"}
  BY <1>3 DEF ArgOK, Shows, LoadKinds
<1>6. TasksIn(tasks', git') /\ Keeps(tasks, tasks')
  BY <1>1, <1>3, <1>4, <1>5, RequestTurnTasks DEF ScmInv, Panel
<1>7. StoreTurn
  BY <1>4, StoreSame DEF ScmInv, Env
<1> QED
  BY <1>4, <1>6, <1>7, QuietTurn DEF ScmInv, Panel, PanelIn, Env, Lists

LEMMA OpenBranchMenuTurn ==
  ASSUME ScmInv, OpenBranchMenu
  PROVE  Turn
<1> DEFINE r == Task("branches", current, "asks", None, None)
<1>1. current \in Projects /\ Room(1) /\ tasks' = Start(tasks, 1, r)
      /\ UNCHANGED <<git, Env, panelVars>>
  BY DEF OpenBranchMenu, ScmInv, Panel, PanelIn, Project
<1>2. r \in TaskState /\ ArgOK(r) /\ ~Shows(r) /\ r.step \notin {"read", "await"}
  BY <1>1, AsksType
<1> HIDE DEF r
<1>3. TasksIn(tasks', git') /\ Keeps(tasks, tasks')
  BY <1>1, <1>2, RequestTurnTasks DEF ScmInv, Panel
<1>4. StoreTurn
  BY <1>1, StoreSame DEF ScmInv, Env
<1> QED
  BY <1>1, <1>3, <1>4, QuietTurn DEF ScmInv, Panel, PanelIn, Env, panelVars

LEMMA LoadMoreTurn ==
  ASSUME ScmInv, LoadMore
  PROVE  Turn
<1> DEFINE r == Task("more", current, "asks", None, Len(list.pages))
<1>1. current \in Projects /\ Room(1) /\ tasks' = Start(tasks, 1, r) /\ loadingMore' = TRUE
      /\ UNCHANGED <<git, Env, operation, background, tab, list, cache, picked, pane>>
  BY DEF LoadMore, ScmInv, Panel, PanelIn, Project
<1>2. Len(list.pages) \in Nat
  <2>1. list.pages \in Seq(Nat)
    BY DEF ScmInv, Panel, PanelIn, History
  <2> QED
    BY <2>1
<1>3. r \in TaskState /\ ArgOK(r) /\ ~Shows(r) /\ r.step \notin {"read", "await"}
  BY <1>1, <1>2, AsksType
<1> HIDE DEF r
<1>4. TasksIn(tasks', git') /\ Keeps(tasks, tasks')
  BY <1>1, <1>3, RequestTurnTasks DEF ScmInv, Panel
<1>5. StoreTurn
  BY <1>1, StoreSame DEF ScmInv, Env
<1>6. list' \in History /\ cache' \in [Projects -> History] /\ HistoryOfProject'
  BY <1>1, ListKept DEF Env
<1> QED
  BY <1>1, <1>4, <1>5, <1>6, StillTurn DEF ScmInv, Panel, PanelIn, Env

LEMMA BumpSame ==
  ASSUME NEW ts, NEW K, NEW k \in Slots, ts[k] = None \/ ts[k].kind \notin K
  PROVE  Bump(ts, K)[k] = ts[k]
BY DEF Bump

\* What a turn that only touches the diffs leaves of the calls for files.
LEMMA FilesKept ==
  ASSUME NEW ts, NEW us, FreshOnes(ts),
         \A k \in Slots : Shows(us[k]) => us[k] = ts[k] \/ us[k].kind = "diff",
         \A k \in Slots : Shows(ts[k]) /\ ts[k].kind = "files" => us[k] = ts[k],
         \A k, l \in Slots : (/\ Shows(us[k]) /\ us[k].kind = "diff"
                              /\ Shows(us[l]) /\ us[l].kind = "diff") => k = l
  PROVE  /\ FreshOnes(us)
         /\ \A arg : MadeWith(ts, "files", arg) => MadeWith(us, "files", arg)
         /\ Pending(ts, "files") => Pending(us, "files")
<1>1. FreshOnes(us)
  BY DEF FreshOnes
<1>2. \A arg : MadeWith(ts, "files", arg) => MadeWith(us, "files", arg)
  BY DEF MadeWith
<1>3. Pending(ts, "files") => Pending(us, "files")
  BY DEF Pending
<1> QED
  BY <1>1, <1>2, <1>3

\* A turn in which the user opens or closes a diff.
LEMMA DiffTurn ==
  ASSUME ScmInv, ~resetDue, NEW file \in Files \cup {None},
         picked' = [picked EXCEPT !.file = file],
         TasksIn(tasks', git), FreshOnes(tasks'), ShownOf(tasks', current),
         \A arg : MadeWith(tasks, "files", arg) => MadeWith(tasks', "files", arg),
         Pending(tasks, "files") => Pending(tasks', "files"),
         MadeWith(tasks', "diff", [rev |-> picked.rev, file |-> file]),
         pane' \in Panes, pane'.files = pane.files, pane'.remotes = pane.remotes,
         pane'.branches = pane.branches, pane'.diff \in {pane.diff, None},
         pane'.diff # None => Pending(tasks', "diff"),
         UNCHANGED <<git, Env, operation, background, tab, list, loadingMore, cache>>
  PROVE  Turn
<1>1. StoreTurn
  BY StoreSame DEF ScmInv, Env
<1>2. picked' \in Picks /\ picked'.rev = picked.rev /\ picked'.file = file
  BY DEF ScmInv, Panel, PanelIn, Picks
<1>3. PanelIn' /\ HistoryOfProject'
  BY <1>2, ListKept DEF ScmInv, Panel, PanelIn, Env
<1>4. /\ PanesOf(tasks, pane, current) /\ UNCHANGED <<current, resetDue>>
      /\ tab = "history" => FilesFollow(tasks, pane.files, picked)
  BY DEF ScmInv, Panel, PanesInv, Env
<1>5. PanesOf(tasks', pane', current')
  BY <1>4 DEF PanesOf
<1>6. tab' = "history" => FilesFollow(tasks', pane'.files, picked')
  BY <1>2, <1>4 DEF FilesFollow
<1>7. DiffFollows(tasks', pane'.diff, picked')
  BY <1>2 DEF DiffFollows
<1>8. PanesInv'
  BY <1>5, <1>6, <1>7 DEF PanesInv
<1> QED
  BY <1>1, <1>3, <1>8 DEF Turn, Panel, Env

LEMMA CloseDiffTurn ==
  ASSUME ScmInv, ~resetDue, CloseDiff
  PROVE  Turn
<1> DEFINE us == Bump(tasks, {"diff"})
<1>1. TasksIn(tasks, git) /\ FreshOnes(tasks) /\ ShownOf(tasks, current)
  BY DEF ScmInv, Panel, PanesInv, PanesOf
<1>2. /\ TasksIn(us, git)
      /\ \A k \in Slots : Shows(us[k]) => us[k] = tasks[k] /\ tasks[k].kind # "diff"
  BY <1>1, BumpTasks
<1>3. \A k \in Slots : Shows(tasks[k]) /\ tasks[k].kind = "files" => us[k] = tasks[k]
  BY BumpSame
<1>4. /\ tasks' = us /\ picked' = [picked EXCEPT !.file = None]
      /\ pane' = [pane EXCEPT !.diff = None]
      /\ UNCHANGED <<git, Env, operation, background, tab, list, loadingMore, cache>>
  BY DEF CloseDiff
<1> HIDE DEF us
<1>5. /\ FreshOnes(us)
      /\ \A arg : MadeWith(tasks, "files", arg) => MadeWith(us, "files", arg)
      /\ Pending(tasks, "files") => Pending(us, "files")
  <2>1. /\ \A k \in Slots : Shows(us[k]) => us[k] = tasks[k] \/ us[k].kind = "diff"
        /\ \A k, l \in Slots : (/\ Shows(us[k]) /\ us[k].kind = "diff"
                                /\ Shows(us[l]) /\ us[l].kind = "diff") => k = l
    BY <1>2
  <2> QED
    BY <1>1, <1>3, <2>1, FilesKept
<1>6. ShownOf(us, current) /\ \A arg : MadeWith(us, "diff", arg)
  BY <1>1, <1>2 DEF ShownOf, MadeWith
<1>7. /\ pane' \in Panes /\ pane'.files = pane.files /\ pane'.diff = None
      /\ pane'.remotes = pane.remotes /\ pane'.branches = pane.branches
  BY <1>4 DEF ScmInv, Panel, PanelIn, Panes
<1> QED
  BY <1>2, <1>4, <1>5, <1>6, <1>7, DiffTurn

LEMMA PickFileTurn ==
  ASSUME ScmInv, ~resetDue, NEW file \in Files, PickFile(file)
  PROVE  Turn
<1> DEFINE bs == Bump(tasks, {"diff"})
           arg == [rev |-> picked.rev, file |-> file]
           r == Task("diff", current, "asks", None, arg)
           us == Start(bs, 1, r)
<1>1. TasksIn(tasks, git) /\ FreshOnes(tasks) /\ ShownOf(tasks, current) /\ pane \in Panes
  BY DEF ScmInv, Panel, PanelIn, PanesInv, PanesOf
<1>2. FreeSlot(1) \in Slots /\ tasks[FreeSlot(1)] = None /\ current \in Projects
  BY RoomIsFree DEF PickFile, ScmInv, Panel, PanelIn, Project
<1>3. /\ TasksIn(bs, git)
      /\ \A k \in Slots : Shows(bs[k]) => bs[k] = tasks[k] /\ tasks[k].kind # "diff"
  BY <1>1, BumpTasks
<1>4. \A k \in Slots : Shows(tasks[k]) /\ tasks[k].kind = "files" => bs[k] = tasks[k]
  BY BumpSame
<1>5. arg \in Pick
  <2>1. picked.rev \in Nat
    BY DEF PickFile, ScmInv, Panel, PanelIn, Picks, Page
  <2> QED
    BY <2>1 DEF Pick
<1>6. tasks' = us /\ picked' = [picked EXCEPT !.file = file]
      /\ UNCHANGED <<git, Env, operation, background, tab, list, loadingMore, cache, pane>>
  BY DEF PickFile
<1>7. arg = [rev |-> picked.rev, file |-> file]
  OBVIOUS
<1> HIDE DEF arg, bs
<1>8. "diff" \in Kinds /\ "asks" \in Steps /\ None \in Awaited /\ arg \in Args
  BY <1>5 DEF Kinds, LoadKinds, Steps, Awaited, Args
<1>9. /\ r \in TaskState /\ r # None /\ r.kind = "diff" /\ r.step = "asks" /\ r.arg = arg
      /\ r.path = current /\ r.fresh
  BY <1>2, <1>8, TaskType
<1> HIDE DEF r
<1>10. ArgOK(r) /\ Shows(r) /\ r.step # "read" /\ r.step # "await"
  BY <1>5, <1>9 DEF ArgOK, Shows
<1>11. /\ TasksIn(us, git)
       /\ \A k \in Slots : k # FreeSlot(1) => us[k] = bs[k]
       /\ us[FreeSlot(1)] = r
  BY <1>2, <1>3, <1>9, <1>10, StartTasks
<1> HIDE DEF us
<1>12. ~Shows(tasks[FreeSlot(1)])
  BY <1>2 DEF Shows
<1>13. /\ \A k \in Slots : Shows(us[k]) => us[k] = tasks[k] \/ us[k].kind = "diff"
       /\ \A k \in Slots : Shows(us[k]) /\ us[k].kind = "diff" => k = FreeSlot(1)
       /\ \A k \in Slots : Shows(tasks[k]) /\ tasks[k].kind = "files" => us[k] = tasks[k]
  BY <1>3, <1>4, <1>9, <1>11, <1>12
<1>14. /\ FreshOnes(us)
       /\ \A a : MadeWith(tasks, "files", a) => MadeWith(us, "files", a)
       /\ Pending(tasks, "files") => Pending(us, "files")
  <2>1. \A k, l \in Slots : (/\ Shows(us[k]) /\ us[k].kind = "diff"
                             /\ Shows(us[l]) /\ us[l].kind = "diff") => k = l
    BY <1>13
  <2> QED
    BY <1>1, <1>13, <2>1, FilesKept
<1>15. ShownOf(us, current)
  BY <1>1, <1>3, <1>9, <1>11 DEF ShownOf
<1>16. MadeWith(us, "diff", arg) /\ Pending(us, "diff")
  BY <1>2, <1>9, <1>10, <1>11, <1>13 DEF MadeWith, Pending
<1> QED
  BY <1>1, <1>6, <1>7, <1>11, <1>14, <1>15, <1>16, DiffTurn

LEMMA PickCommitTurn ==
  ASSUME ScmInv, NEW page \in Pages, PickCommit(page)
  PROVE  Turn
<1> DEFINE pick == [picked EXCEPT !.hash = page]
<1>1. /\ FreeSlot(1) \in Slots /\ current \in Projects
      /\ UNCHANGED <<git, Env, operation, background, tab, list, loadingMore, cache>>
  BY RoomIsFree DEF PickCommit, ScmInv, Panel, PanelIn, Project
<1>2. page \in Nat
  BY ScmConstants DEF Pages
<1>3. pick \in Picks
  BY <1>2 DEF ScmInv, Panel, PanelIn, Picks, Page
<1>4. HistoryEffect(tasks, 1, tab', list', pick, pane)
  BY <1>1 DEF PickCommit
<1> HIDE DEF pick
<1>5. StoreTurn
  BY <1>1, StoreSame DEF ScmInv, Env
<1>6. TasksIn(tasks, git') /\ Keeps(tasks, tasks)
  BY <1>1, KeepsSelf DEF ScmInv, Panel
<1>7. list' \in History /\ cache' \in [Projects -> History] /\ HistoryOfProject'
  BY <1>1, ListKept DEF Env
<1> QED
  BY <1>1, <1>3, <1>4, <1>5, <1>6, <1>7, RedrawTurn DEF ScmInv, Panel, PanelIn, Env

LEMMA OpenTabTurn ==
  ASSUME ScmInv, NEW t \in {"changes", "history"}, OpenTab(t)
  PROVE  Turn
<1>1. /\ FreeSlot(1) \in Slots /\ current \in Projects /\ tab' = t
      /\ UNCHANGED <<git, Env, operation, background, list, loadingMore, cache>>
      /\ HistoryEffect(tasks, 1, t, list, picked, pane)
  BY RoomIsFree DEF OpenTab, ScmInv, Panel, PanelIn, Project
<1>2. HistoryEffect(tasks, 1, tab', list', picked, pane)
  BY <1>1
<1>3. StoreTurn
  BY <1>1, StoreSame DEF ScmInv, Env
<1>4. TasksIn(tasks, git') /\ Keeps(tasks, tasks)
  BY <1>1, KeepsSelf DEF ScmInv, Panel
<1>5. list' \in History /\ cache' \in [Projects -> History] /\ HistoryOfProject'
  BY <1>1, ListKept DEF Env
<1> QED
  BY <1>1, <1>2, <1>3, <1>4, <1>5, RedrawTurn DEF ScmInv, Panel, PanelIn, Env

LEMMA UserActsTurn ==
  ASSUME ScmInv, UserActs
  PROVE  Turn
<1>1. ~resetDue
  BY DEF UserActs
<1>2. CASE \/ StageFiles \/ StageAll \/ Pull \/ SwitchBranch \/ RetryPush \/ FetchRemote
           \/ \E then \in {"push", "end"} : CommitStaged(then)
  BY <1>2, OperationsTurn
<1>3. CASE AskDiscard \/ AutoFetch \/ OpenBranchMenu \/ LoadMore
  BY <1>3, AskDiscardTurn, AutoFetchTurn, OpenBranchMenuTurn, LoadMoreTurn
<1>4. CASE CloseDiff
  BY <1>1, <1>4, CloseDiffTurn
<1>5. CASE \E page \in Pages : PickCommit(page)
  BY <1>5, PickCommitTurn
<1>6. CASE \E file \in Files : PickFile(file)
  BY <1>1, <1>6, PickFileTurn
<1>7. CASE \E t \in {"changes", "history"} : OpenTab(t)
  BY <1>7, OpenTabTurn
<1> QED
  BY <1>2, <1>3, <1>4, <1>5, <1>6, <1>7 DEF UserActs

----------------------------------------------------------------------------
(* The turns of the outside and of the store.                              *)

\* The store moves, the panel and its calls do not.
LEMMA AsideTurn ==
  ASSUME ScmInv, StoreTurn, ReadsStay(git, git'), UNCHANGED <<current, resetDue, panelVars, tasks>>
  PROVE  Turn
<1>1. TasksIn(tasks', git') /\ Keeps(tasks, tasks')
  BY StayTasks, KeepsSelf DEF ScmInv, Panel
<1> QED
  BY <1>1, QuietTurn DEF ScmInv, Panel, PanelIn, panelVars

LEMMA ScheduleSound ==
  ASSUME NEW g \in GitState, NEW t \in Trees, Good(g, t), NEW p \in Project
  PROVE  /\ Sound(g, scheduleRefresh(g, p), t) /\ ReadsStay(g, scheduleRefresh(g, p))
         /\ scheduleRefresh(g, p).asked = g.asked
<1>1. CASE p = None
  BY <1>1, SoundSelf DEF scheduleRefresh, ReadsStay
<1>2. CASE p \in Projects
  <2>1. scheduleRefresh(g, p) = [g EXCEPT !.timers = @ \cup {p}]
    BY <1>2, GitConstants DEF scheduleRefresh
  <2>2. g.timers \cup {p} \in SUBSET Projects
    BY <1>2 DEF GitState
  <2>3. Sound(g, scheduleRefresh(g, p), t)
    BY <2>1, <2>2, TimersSound
  <2> QED
    BY <2>1, <2>3 DEF ReadsStay, GitState
<1> QED
  BY <1>1, <1>2 DEF Project

LEMMA ScheduledTurn ==
  ASSUME ScmInv, NEW p \in Project, git' = scheduleRefresh(git, p),
         UNCHANGED <<tree, current, resetDue, panelVars, tasks>>
  PROVE  Turn
<1>1. Sound(git, git', tree) /\ ReadsStay(git, git')
  BY ScheduleSound DEF ScmInv, GitInv
<1>2. StoreTurn
  BY <1>1, StoreMoves DEF ScmInv
<1> QED
  BY <1>1, <1>2, AsideTurn

LEMMA PollTurn ==
  ASSUME ScmInv, NEW p \in Projects, PollProject(p)
  PROVE  Turn
<1>1. /\ git' = refresh(git, p, TRUE, TRUE, FALSE, tree[p]) /\ CanRefresh(git, p)
      /\ UNCHANGED <<tree, current, resetDue, panelVars, tasks>>
  BY DEF PollProject, Env
<1>2. Sound(git, git', tree) /\ ReadsStay(git, git')
  BY <1>1, RefreshSound, RefreshReads DEF ScmInv, GitInv
<1>3. StoreTurn
  BY <1>1, <1>2, StoreMoves DEF ScmInv
<1> QED
  BY <1>1, <1>2, <1>3, AsideTurn

LEMMA TimedTurn ==
  ASSUME ScmInv, NEW p \in Projects, TimedRefresh(p)
  PROVE  Turn
<1> DEFINE g == [git EXCEPT !.timers = @ \ {p}]
<1>1. /\ TimerFires(p) /\ UNCHANGED <<tree, current, resetDue, panelVars, tasks>>
      /\ git \in GitState /\ tree \in Trees /\ Good(git, tree)
  BY DEF TimedRefresh, Env, ScmInv, GitInv
<1>2. Sound(git, git', tree)
  BY <1>1, TimerSound
<1>3. Sound(git, g, tree)
  <2>1. git.timers \ {p} \in SUBSET Projects
    BY <1>1 DEF GitState
  <2> QED
    BY <1>1, <2>1, TimersSound
<1>4. g \in GitState /\ Good(g, tree)
  BY <1>3 DEF Sound
<1>5. CanRefresh(g, p) /\ g.reads = git.reads
  BY <1>1 DEF TimerFires, CanRefresh, FreeReads, GitState
<1>6. git' = refresh(g, p, TRUE, FALSE, FALSE, tree[p])
  BY <1>1 DEF TimerFires
<1> HIDE DEF g
<1>7. ReadsStay(g, git')
  BY <1>1, <1>4, <1>5, <1>6, RefreshReads
<1>8. ReadsStay(git, git')
  BY <1>5, <1>7 DEF ReadsStay
<1>9. StoreTurn
  BY <1>1, <1>2, StoreMoves DEF ScmInv
<1> QED
  BY <1>1, <1>8, <1>9, AsideTurn

LEMMA FileChangesTurn ==
  ASSUME ScmInv, NEW p \in Projects, FileChanges(p)
  PROVE  Turn
<1>1. /\ tree' = Edited(p) /\ UNCHANGED <<current, resetDue, panelVars, tasks>>
      /\ git' = git \/ git' = scheduleRefresh(git, git.projectPath)
      /\ git \in GitState /\ tree \in Trees /\ Good(git, tree)
  BY DEF FileChanges, ScmInv, GitInv
<1>2. git.projectPath \in Project
  BY <1>1 DEF GitState, Project
<1>3. Sound(git, git', tree) /\ ReadsStay(git, git') /\ git'.asked = git.asked
  <2>1. CASE git' = git
    BY <1>1, <2>1, SoundSelf DEF ReadsStay
  <2>2. CASE git' = scheduleRefresh(git, git.projectPath)
    BY <1>1, <1>2, <2>2, ScheduleSound
  <2> QED
    BY <1>1, <2>1, <2>2
<1>4. tree' \in Trees /\ \A q \in Projects : tree'[q] >= tree[q]
  BY <1>1, EditedTrees DEF ScmInv
<1>5. StoreTurn
  BY <1>3, <1>4 DEF StoreTurn
<1> QED
  BY <1>1, <1>3, <1>5, AsideTurn

LEMMA ReadTurn ==
  ASSUME ScmInv, NEW i \in Reads, ReadStep(i), NEW failed \in BOOLEAN,
         tasks' = Settle(tasks, git', failed), UNCHANGED <<Env, panelVars>>
  PROVE  Turn
<1>1. Sound(git, git', tree)
  BY ReadStepSound DEF ScmInv, GitInv
<1>2. StoreTurn
  BY <1>1, StoreMoves DEF ScmInv, Env
<1>3. TasksIn(tasks', git') /\ Keeps(tasks, tasks')
  BY SettleTasks DEF ScmInv, Panel
<1> QED
  BY <1>2, <1>3, QuietTurn DEF ScmInv, Panel, PanelIn, Env, panelVars

LEMMA ReadsTurn ==
  ASSUME ScmInv, NEW i \in Reads, ReadAnswers(i) \/ ReadGoesWrong(i)
  PROVE  Turn
<1>1. CASE ReadAnswers(i)
  <2>1. ReadStep(i) /\ tasks' = Settle(tasks, git', FALSE) /\ UNCHANGED <<Env, panelVars>>
    BY <1>1 DEF ReadAnswers, ReadStep
  <2> QED
    BY <2>1, ReadTurn
<1>2. CASE ReadGoesWrong(i)
  <2> DEFINE full == git.reads[i].phase = "full"
  <2>1. full \in BOOLEAN
    OBVIOUS
  <2>2. /\ ReadStep(i) /\ UNCHANGED <<Env, panelVars>>
        /\ tasks' = Settle(tasks, git', full) \/ tasks' = Settle(tasks, git', FALSE)
    BY <1>2, Zenon DEF ReadGoesWrong, ReadStep
  <2> HIDE DEF full
  <2> QED
    BY <2>1, <2>2, ReadTurn
<1> QED
  BY <1>1, <1>2

\* A switch leaves the panel to its timeout.
LEMMA SwitchProjectTurn ==
  ASSUME ScmInv, NEW p \in Project, SwitchProject(p)
  PROVE  Turn
<1>1. /\ current' = p /\ resetDue' = TRUE /\ UNCHANGED <<tree, panelVars, tasks>>
      /\ git \in GitState /\ tree \in Trees /\ Good(git, tree)
  BY DEF SwitchProject, ScmInv, GitInv
<1>2. Sound(git, git', tree) /\ ReadsStay(git, git')
  <2>1. CASE p = None
    <3>1. git' = clear(git)
      BY <2>1 DEF SwitchProject
    <3> QED
      BY <1>1, <3>1, ClearSound DEF clear, GitState, ReadsStay
  <2>2. CASE p \in Projects
    <3>1. git' = refresh(git, p, FALSE, TRUE, FALSE, tree[p]) /\ CanRefresh(git, p)
      BY <2>2, GitConstants DEF SwitchProject
    <3> QED
      BY <1>1, <2>2, <3>1, RefreshSound, RefreshReads
  <2> QED
    BY <2>1, <2>2 DEF Project
<1>3. StoreTurn
  BY <1>1, <1>2, StoreMoves DEF ScmInv
<1>4. PanelIn' /\ HistoryOfProject'
  BY <1>1 DEF ScmInv, Panel, PanelIn, panelVars, HistoryOfProject
<1>5. TasksIn(tasks', git')
  BY <1>1, <1>2, StayTasks DEF ScmInv, Panel
<1>6. PanesInv'
  BY <1>1 DEF ScmInv, Panel, PanesInv
<1> QED
  BY <1>3, <1>4, <1>5, <1>6 DEF Turn, Panel

----------------------------------------------------------------------------
(* The panel of a new project.                                             *)

\* The panel after its reset: no file or diff is awaited, only a history
\* that was in the cache has its first commit looked up.
LEMMA SeededTurn ==
  ASSUME ScmInv, StoreTurn, NEW ts, TasksIn(ts, git'), \A k \in Slots : ~Shows(ts[k]),
         resetDue' = FALSE, operation' = None, current \in Projects,
         NEW l \in History, l.of \in {current, None}, list' = l,
         HistoryEffect(ts, 4, tab, l, NoPick, EmptyPane),
         UNCHANGED <<current, background, tab, loadingMore, cache>>
  PROVE  Turn
<1>1. NoPick \in Picks /\ EmptyPane \in Panes
  BY DEF NoPick, Picks, Page, EmptyPane, Panes, Project
<1>2. TasksIn(tasks', git') /\ picked' \in Picks /\ pane' \in Panes
  BY <1>1, EffectTypes
<1>3. FreshOnes(ts) /\ ShownOf(ts, current)
  BY DEF FreshOnes, ShownOf
<1>4. EmptyPane.files = None /\ PanesOf(ts, EmptyPane, current)
  BY <1>3 DEF EmptyPane, PanesOf
<1>5. /\ FreshOnes(tasks')
      /\ PanesOf(tasks', pane', current)
      /\ tab = "history" => FilesFollow(tasks', pane'.files, picked')
      /\ tab = "history" /\ l.pages # <<>> => DiffFollows(tasks', pane'.diff, picked')
  BY <1>1, <1>3, <1>4, EffectPanes
<1>6. PanelIn' /\ HistoryOfProject'
  BY <1>2 DEF ScmInv, Panel, PanelIn, HistoryOfProject
<1>7. PanesInv'
  BY <1>5 DEF PanesInv, DetailShown
<1> QED
  BY <1>2, <1>6, <1>7 DEF Turn, Panel

\* What the reset starts before the effect on the history.
SeededTasks(g, mode, l, load) ==
  LET dropped == Bump(tasks, {"remotes", "commits", "files", "diff"})
      ts == WithRefresh(dropped, 1, g, current, mode)
      logs == IF load /\ l = NoList THEN LoadCommits(ts, 2, current) ELSE ts
  IN  IF load THEN LoadRemotes(logs, 3, current) ELSE logs

LEMMA SeededTasksIn ==
  ASSUME NEW g, TasksIn(tasks, g), current \in Projects, NEW mode \in Modes,
         g.inFlight[current] \in Reads, g.reads[g.inFlight[current]] # None,
         NEW l, NEW load \in BOOLEAN
  PROVE  /\ TasksIn(SeededTasks(g, mode, l, load), g)
         /\ \A k \in Slots : ~Shows(SeededTasks(g, mode, l, load)[k])
<1> DEFINE dropped == Bump(tasks, {"remotes", "commits", "files", "diff"})
           ts == WithRefresh(dropped, 1, g, current, mode)
           logs == LoadCommits(ts, 2, current)
<1>1. TasksIn(dropped, g)
  BY BumpTasks
<1>2. \A k \in Slots : ~Shows(dropped[k])
  <2>1. \A k \in Slots : Shows(dropped[k])
          => /\ dropped[k] = tasks[k]
             /\ tasks[k].kind \notin {"remotes", "commits", "files", "diff"}
    BY BumpTasks
  <2> QED
    BY <2>1 DEF Shows
<1> HIDE DEF dropped
<1>3. TasksIn(ts, g) /\ \A k \in Slots : ~Shows(ts[k])
  BY <1>1, <1>2, WithRefreshTasks
<1> HIDE DEF ts
<1>4. TasksIn(logs, g) /\ \A k \in Slots : ~Shows(logs[k])
  BY <1>3, LoadCommitsTasks
<1> HIDE DEF logs
<1>5. ASSUME NEW us, us \in {ts, logs}
      PROVE  /\ TasksIn(us, g) /\ TasksIn(LoadRemotes(us, 3, current), g)
             /\ \A k \in Slots : ~Shows(us[k]) /\ ~Shows(LoadRemotes(us, 3, current)[k])
  BY <1>3, <1>4, <1>5, LoadRemotesTasks
<1>6. SeededTasks(g, mode, l, load) \in
        {ts, logs, LoadRemotes(ts, 3, current), LoadRemotes(logs, 3, current)}
  BY DEF SeededTasks, ts, logs, dropped
<1> QED
  BY <1>5, <1>6

\* The branches of the reset in which a project is open.
LEMMA SeedsTurn ==
  ASSUME ScmInv, current \in Projects, NEW mode \in {"hard", "soft"}, NEW reuse \in BOOLEAN,
         NEW l \in {NoList, cache[current]}, NEW load \in BOOLEAN,
         CanRefresh(git, current), git' = Refreshed(git, current, mode, reuse), list' = l,
         HistoryEffect(SeededTasks(git', mode, l, load), 4, tab, l, NoPick, EmptyPane),
         resetDue' = FALSE, operation' = None,
         UNCHANGED <<tree, current, background, tab, loadingMore, cache>>
  PROVE  Turn
<1>1. /\ Sound(git, git', tree) /\ ReadsStay(git, git')
      /\ git'.inFlight[current] \in Reads /\ git'.reads[git'.inFlight[current]] # None
  BY RefreshedFacts DEF ScmInv, GitInv
<1>2. StoreTurn
  BY <1>1, StoreMoves DEF ScmInv
<1>3. TasksIn(tasks, git') /\ mode \in Modes
  BY <1>1, StayTasks DEF ScmInv, Panel, Modes
<1>4. /\ TasksIn(SeededTasks(git', mode, l, load), git')
      /\ \A k \in Slots : ~Shows(SeededTasks(git', mode, l, load)[k])
  BY <1>1, <1>3, SeededTasksIn
<1>5. l \in History /\ l.of \in {current, None}
  <2>1. NoList \in History /\ NoList.of = None
    BY NoListType
  <2>2. cache[current] \in History /\ cache[current].of \in {current, None}
    BY DEF ScmInv, Panel, PanelIn, HistoryOfProject
  <2> QED
    BY <2>1, <2>2
<1> QED
  BY <1>2, <1>4, <1>5, SeededTurn

LEMMA NoProjectTurn ==
  ASSUME ScmInv, current = None, resetDue' = FALSE, operation' = None,
         git' = [git EXCEPT !.snapshots = [p \in Projects |-> None]],
         tasks' = Bump(tasks, {"remotes", "commits", "files", "diff"}),
         list' = NoList, picked' = NoPick, pane' = EmptyPane,
         UNCHANGED <<tree, current, background, tab, loadingMore, cache>>
  PROVE  Turn
<1>1. git \in GitState /\ tree \in Trees /\ Good(git, tree)
  BY DEF ScmInv, GitInv
<1>2. Sound(git, git', tree) /\ ReadsStay(git, git')
  <2>1. git' \in GitState
    BY <1>1 DEF GitState, MaybeStatus
  <2>2. /\ git'.inFlight = git.inFlight /\ git'.reads = git.reads /\ git'.asked = git.asked
        /\ git'.refreshing = git.refreshing /\ git'.projectPath = git.projectPath
        /\ \A p \in Projects : git'.snapshots[p] = None
    BY <1>1 DEF GitState
  <2>3. Good(git', tree)
    BY <1>1, <2>2 DEF Good, EntriesIn, RefreshingIn, FreshIn, PastIn
  <2>4. Step(git, git', tree)
    BY <2>2 DEF Step, IsRead
  <2> QED
    BY <2>1, <2>2, <2>3, <2>4 DEF Sound, ReadsStay
<1>3. StoreTurn
  BY <1>2, StoreMoves DEF ScmInv
<1>4. TasksIn(tasks, git)
  BY DEF ScmInv, Panel
<1>5. TasksIn(tasks', git)
  BY <1>4, BumpTasks
<1>6. TasksIn(tasks', git')
  BY <1>2, <1>5, StayTasks
<1>7. \A k \in Slots : ~Shows(tasks'[k])
  <2>1. \A k \in Slots : Shows(tasks'[k])
          => /\ tasks'[k] = tasks[k]
             /\ tasks[k].kind \notin {"remotes", "commits", "files", "diff"}
    BY <1>4, BumpTasks
  <2> QED
    BY <2>1 DEF Shows
<1>8. NoPick \in Picks /\ EmptyPane \in Panes /\ NoList \in History /\ NoList.of = None
  BY NoListType DEF NoPick, Picks, Page, EmptyPane, Panes, Project
<1>9. PanelIn' /\ HistoryOfProject'
  BY <1>8 DEF ScmInv, Panel, PanelIn, HistoryOfProject
<1>10. PanesInv'
  BY <1>7 DEF PanesInv, FreshOnes, PanesOf, ShownOf, FilesFollow, DiffFollows, MadeWith,
              EmptyPane, NoPick
<1> QED
  BY <1>3, <1>6, <1>9, <1>10 DEF Turn, Panel

LEMMA ResetPanelTurn ==
  ASSUME ScmInv, ResetPanel
  PROVE  Turn
<1> DEFINE Seeds(mode, reuse, l, load) ==
             /\ CanRefresh(git, current) /\ git' = Refreshed(git, current, mode, reuse)
             /\ list' = l
             /\ HistoryEffect(SeededTasks(git', mode, l, load), 4, tab, l, NoPick, EmptyPane)
<1>1. /\ resetDue' = FALSE /\ operation' = None
      /\ UNCHANGED <<tree, current, background, tab, loadingMore, cache>>
  BY DEF ResetPanel
<1>2. \/ /\ current = None
         /\ git' = [git EXCEPT !.snapshots = [p \in Projects |-> None]]
         /\ tasks' = Bump(tasks, {"remotes", "commits", "files", "diff"})
         /\ list' = NoList /\ picked' = NoPick /\ pane' = EmptyPane
      \/ /\ current # None
         /\ \/ Seeds("hard", FALSE, NoList, FALSE)
            \/ Seeds("hard", TRUE, NoList, FALSE)
            \/ Seeds("soft", TRUE, NoList, FALSE)
            \/ \E l \in {NoList, cache[current]} : Seeds("soft", TRUE, l, TRUE)
  BY DEF ResetPanel, SeededTasks
<1>3. CASE current = None
  BY <1>1, <1>2, <1>3, NoProjectTurn
<1>4. CASE current # None
  <2>1. current \in Projects
    BY <1>4 DEF ScmInv, Panel, PanelIn, Project
  <2>2. ASSUME NEW mode \in {"hard", "soft"}, NEW reuse \in BOOLEAN,
               NEW l \in {NoList, cache[current]}, NEW load \in BOOLEAN,
               Seeds(mode, reuse, l, load)
        PROVE  Turn
    BY <1>1, <2>1, <2>2, SeedsTurn
  <2> HIDE DEF Seeds
  <2> QED
    BY <1>2, <1>4, <2>2
<1> QED
  BY <1>3, <1>4

----------------------------------------------------------------------------
(* The invariant of the panel.                                             *)

LEMMA CallsTurn ==
  ASSUME ScmInv, NEW k \in Slots, Answers(k) \/ Failures(k) \/ Decides(k)
  PROVE  Turn
<1>1. CASE Answers(k)
  <2>1. UNCHANGED <<Env, moves>> /\ UNCHANGED Env
    BY <1>1 DEF Answers
  <2>2. CASE LogAnswers(k) \/ MoreAnswers(k)
    BY <2>1, <2>2, LogAnswersTurn, MoreAnswersTurn
  <2>3. CASE FilesAnswer(k) \/ DiffAnswers(k)
    BY <2>1, <2>3, PaneAnswersTurn
  <2>4. CASE RemotesAnswer(k) \/ BranchesAnswer(k)
    BY <2>1, <2>4, MenusTurn
  <2>5. CASE CommandAnswers(k) \/ CommandRejects(k) \/ FetchedBranches(k)
    BY <2>1, <2>5, CommandAnswersTurn, CommandRejectsTurn, FetchedBranchesTurn
  <2> QED
    BY <1>1, <2>2, <2>3, <2>4, <2>5 DEF Answers
<1>2. CASE Failures(k)
  <2>1. UNCHANGED Env
    BY <1>2 DEF Failures
  <2>2. CASE LogFails(k) \/ MoreFails(k) \/ CommandFails(k)
    BY <2>1, <2>2, LogFailsTurn, MoreFailsTurn, CommandFailsTurn
  <2>3. CASE FilesFail(k) \/ DiffFails(k)
    BY <2>1, <2>3, PaneAnswersTurn
  <2> QED
    BY <1>2, <2>2, <2>3 DEF Failures
<1>3. CASE Decides(k)
  BY <1>3, AnswerDiscardTurn DEF Decides
<1> QED
  BY <1>1, <1>2, <1>3

LEMMA OutsideTurn ==
  ASSUME ScmInv, Outside
  PROVE  Turn
<1>1. CASE \E p \in Projects \cup {None} : SwitchProject(p)
  BY <1>1, SwitchProjectTurn DEF Project
<1>2. CASE \E p \in Projects : FileChanges(p) \/ PollProject(p)
  BY <1>2, FileChangesTurn, PollTurn
<1>3. CASE \E i \in Reads : ReadGoesWrong(i)
  BY <1>3, ReadsTurn
<1> QED
  BY <1>1, <1>2, <1>3 DEF Outside

LEMMA TreesTurn ==
  ASSUME ScmInv, TreesRefresh \/ TreesRefreshed \/ PeriodicRefresh
  PROVE  Turn
<1>1. current \in Project /\ git.projectPath \in Project
  BY DEF ScmInv, Panel, PanelIn, GitInv, GitState, Project
<1>2. CASE TreesRefresh
  <2>1. UNCHANGED <<git, tree, current, resetDue, panelVars, tasks>>
    BY <1>2 DEF TreesRefresh
  <2>2. StoreTurn /\ ReadsStay(git, git')
    BY <2>1, StoreSame DEF ScmInv, ReadsStay
  <2> QED
    BY <2>1, <2>2, AsideTurn
<1>3. CASE TreesRefreshed
  BY <1>1, <1>3, ScheduledTurn DEF TreesRefreshed
<1>4. CASE PeriodicRefresh
  BY <1>1, <1>4, ScheduledTurn DEF PeriodicRefresh, Env
<1> QED
  BY <1>2, <1>3, <1>4

LEMMA ScmTurn ==
  ASSUME ScmInv, ScmNext
  PROVE  Turn
<1>1. Busy \subseteq Slots
  BY DEF Busy
<1>2. git.timers \subseteq Projects
  BY DEF ScmInv, GitInv, GitState
<1>3. CASE \E k \in Busy : Resumes(k)
  BY <1>1, <1>3, ResumesTurn
<1>4. CASE UserActs \/ Outside \/ ResetPanel
  BY <1>4, UserActsTurn, OutsideTurn, ResetPanelTurn
<1>5. CASE TreesRefresh \/ TreesRefreshed \/ PeriodicRefresh
  BY <1>5, TreesTurn
<1>6. CASE \E p \in git.timers : TimedRefresh(p)
  BY <1>2, <1>6, TimedTurn
<1>7. CASE \E i \in Reads : ReadAnswers(i)
  BY <1>7, ReadsTurn
<1>8. CASE \E k \in Busy : Failures(k) \/ Answers(k) \/ Decides(k)
  BY <1>1, <1>8, CallsTurn
<1>9. CASE \E k \in Busy : CommandRuns(k)
  BY <1>1, <1>9, CommandRunsTurn
<1> QED
  BY <1>3, <1>4, <1>5, <1>6, <1>7, <1>8, <1>9 DEF ScmNext

\* A read that begins leaves what is shown as it is.
LEMMA RefreshShows ==
  ASSUME NEW g \in GitState, NEW t \in Trees, NEW p \in Projects, Good(g, t),
         g.inFlight[p] = None, NEW reuse \in BOOLEAN, NEW full \in BOOLEAN, NEW now \in Versions
  PROVE  refresh(g, p, FALSE, reuse, full, now).snapshots = g.snapshots
<1> DEFINE a == activate(g, p)
           i == CHOOSE j \in FreeReads(a) : TRUE
<1>1. a \in GitState /\ a.snapshots = g.snapshots /\ a.inFlight = g.inFlight
  BY ActivateSound DEF Sound
<1> HIDE DEF a
<1>2. refresh(g, p, FALSE, reuse, full, now) = StartRead(a, p, full, now, i)
  BY <1>1 DEF refresh, a
<1> HIDE DEF i
<1>3. StartRead(a, p, full, now, i).snapshots = a.snapshots
  BY <1>1 DEF StartRead, GitState
<1> QED
  BY <1>1, <1>2, <1>3

LEMMA ScmStart ==
  ASSUME ScmInit
  PROVE  ScmInv /\ tree = [p \in Projects |-> 0] /\ \A p \in Projects : ~IsRead(git.snapshots[p])
<1>1. 0 \in Versions /\ None \in MaybeStatus
  BY GitConstants DEF Versions, MaybeStatus
<1>2. scope.opened \in Project /\ current = scope.opened /\ tree = [p \in Projects |-> 0]
  BY ScmConstants DEF ScmInit, Project
<1>3. EmptyStore \in GitState /\ tree \in Trees
  BY <1>1, <1>2 DEF EmptyStore, GitState, Trees
<1>4. Good(EmptyStore, tree)
  <2>1. EntriesIn(EmptyStore) /\ FreshIn(EmptyStore) /\ PastIn(EmptyStore, tree)
    BY <1>2 DEF EmptyStore, EntriesIn, FreshIn, PastIn
  <2>2. RefreshingIn(EmptyStore)
    BY Zenon DEF EmptyStore, RefreshingIn
  <2> QED
    BY <2>1, <2>2 DEF Good
<1>5. Sound(EmptyStore, git, tree)
  <2>1. CASE scope.opened = None
    BY <1>3, <1>4, <2>1, SoundSelf DEF ScmInit
  <2>2. CASE scope.opened \in Projects
    <3>1. git = refresh(EmptyStore, scope.opened, FALSE, TRUE, FALSE, tree[scope.opened])
      BY <1>2, <2>2, GitConstants DEF ScmInit
    <3>2. CanRefresh(EmptyStore, scope.opened)
      BY GitConstants DEF CanRefresh, EmptyStore, FreeReads
    <3> QED
      BY <1>3, <1>4, <2>2, <3>1, <3>2, RefreshSound
  <2> QED
    BY <1>2, <2>1, <2>2 DEF Project
<1>6. GitInv
  BY <1>3, <1>5 DEF Sound, GitInv
<1>7. \A p \in Projects : ~IsRead(git.snapshots[p])
  <2>1. git.snapshots = EmptyStore.snapshots
    <3>1. CASE scope.opened = None
      BY <3>1 DEF ScmInit
    <3>2. CASE scope.opened \in Projects
      <4>1. git = refresh(EmptyStore, scope.opened, FALSE, TRUE, FALSE, 0)
        BY <3>2, GitConstants DEF ScmInit
      <4>2. EmptyStore.inFlight[scope.opened] = None
        BY <3>2 DEF EmptyStore
      <4> QED
        BY <1>1, <1>3, <1>4, <3>2, <4>1, <4>2, RefreshShows
    <3> QED
      BY <1>2, <3>1, <3>2 DEF Project
  <2>2. \A p \in Projects : EmptyStore.snapshots[p] = None
    BY DEF EmptyStore
  <2> QED
    BY <2>1, <2>2 DEF IsRead
<1>8. NoPick \in Picks /\ EmptyPane \in Panes /\ NoList \in History /\ NoList.of = None
  BY NoListType DEF NoPick, Picks, Page, EmptyPane, Panes, Project
<1>9. PanelIn /\ HistoryOfProject
  BY <1>2, <1>8 DEF ScmInit, PanelIn, HistoryOfProject, Project
<1>10. TasksIn(tasks, git) /\ PanesInv
  BY DEF ScmInit, TasksIn, PanesInv, FreshOnes, Shows
<1> QED
  BY <1>2, <1>6, <1>7, <1>9, <1>10 DEF ScmInv, Panel

\* Every step of the panel keeps the invariant, and is a turn of the store.
LEMMA ScmInductive == ScmSpec => []ScmInv
<1>1. ScmInit => ScmInv
  BY ScmStart
<1>2. ScmInv /\ [ScmNext]_scmVars => ScmInv'
  <2>1. ASSUME ScmInv, ScmNext
        PROVE  ScmInv'
    <3>1. Turn
      BY <2>1, ScmTurn
    <3>2. GitInv'
      BY <2>1, <3>1, StoreTurnInv DEF Turn, ScmInv
    <3> QED
      BY <3>1, <3>2 DEF Turn, ScmInv
  <2>2. ASSUME ScmInv, UNCHANGED scmVars
        PROVE  ScmInv'
    <3>1. Turn
      <4>1. StoreTurn /\ ReadsStay(git, git')
        BY <2>2, StoreSame DEF ScmInv, scmVars, ReadsStay
      <4> QED
        BY <2>2, <4>1, AsideTurn DEF scmVars
    <3>2. GitInv'
      BY <2>2, <3>1, StoreTurnInv DEF Turn, ScmInv
    <3> QED
      BY <3>1, <3>2 DEF Turn, ScmInv
  <2> QED
    BY <2>1, <2>2
<1> QED
  BY <1>1, <1>2, PTL DEF ScmSpec

\* The store, the panel and the calls under way keep their ranges: a refresh
\* waits for a read that runs, a command for a refresh that is under way.
THEOREM ScmTypeCorrect == ScmSpec => []scmTypeOK
<1>1. ScmInv => scmTypeOK
  <2> SUFFICES ASSUME ScmInv PROVE scmTypeOK
    OBVIOUS
  <2>1. gitTypeOK
    BY DEF ScmInv, GitInv, gitTypeOK, Trees
  <2>2. PanelIn /\ TasksIn(tasks, git)
    BY DEF ScmInv, Panel
  <2>3. DOMAIN tasks = Slots
    BY <2>2 DEF TasksIn
  <2>4. ASSUME NEW k \in Busy
        PROVE  /\ tasks[k].kind \in Kinds /\ tasks[k].path \in Projects /\ tasks[k].step \in Steps
               /\ tasks[k].fresh \in BOOLEAN /\ tasks[k].loads \in BOOLEAN /\ ArgOK(tasks[k])
               /\ tasks[k].step = "read" => git.reads[tasks[k].on] # None
               /\ tasks[k].step = "await" => tasks[k].on \in Busy
    <3>1. k \in Slots /\ tasks[k] \in TaskState /\ tasks[k] # None
      BY <2>2 DEF Busy, TasksIn
    <3>2. /\ tasks[k].kind \in Kinds /\ tasks[k].path \in Projects /\ tasks[k].step \in Steps
          /\ tasks[k].fresh \in BOOLEAN /\ tasks[k].loads \in BOOLEAN
      BY <3>1 DEF TaskState
    <3> QED
      BY <2>2, <3>1, <3>2 DEF TasksIn, Busy
  <2> QED
    BY <2>1, <2>2, <2>3, <2>4 DEF scmTypeOK, PanelIn, Picks, Panes
<1> QED
  BY <1>1, ScmInductive, PTL

\* Under the panel, the watcher and the polling too, the spinner turns
\* exactly while the active project is read.
THEOREM PanelSpinner == ScmSpec => []RefreshingIsReading
<1>1. ScmInv => RefreshingIsReading
  BY DEF ScmInv, GitInv, Good, RefreshingIn, RefreshingIsReading
<1> QED
  BY <1>1, ScmInductive, PTL

\* Once the panel has reset itself, its history and the cache it comes from
\* are of their project: loadCommits, loadMoreCommits and the reset agree.
THEOREM HistoriesAtHome == ScmSpec => []HistoryOfProject
<1>1. ScmInv => HistoryOfProject
  BY DEF ScmInv, Panel
<1> QED
  BY <1>1, ScmInductive, PTL

\* The files and the diff shown are those of the commit and the file picked,
\* or a call that is still the current request will replace them.
THEOREM PanesAreCurrent == ScmSpec => []PanesMatch
<1>1. ScmInv => PanesMatch
  <2> SUFFICES ASSUME ScmInv, ~resetDue PROVE PanesMatch
    BY DEF PanesMatch
  <2>1. /\ PanesOf(tasks, pane, current)
        /\ tab = "history" => FilesFollow(tasks, pane.files, picked)
        /\ DetailShown => DiffFollows(tasks, pane.diff, picked)
    BY DEF ScmInv, Panel, PanesInv
  <2>2. \A kind \in {"files", "diff"} :
          Pending(tasks, kind) => \E k \in Running({kind}) : tasks[k].fresh
    BY DEF Pending, Shows, Running, Busy
  <2>3. /\ pane.remotes \in {current, None} /\ pane.branches \in {current, None}
        /\ pane.files # None => pane.files.of = current
        /\ pane.diff # None => pane.diff.of = current
    BY <2>1 DEF PanesOf
  <2>4. pane.files # None /\ DetailShown
          => \/ pane.files.rev = picked.rev
             \/ \E k \in Running({"files"}) : tasks[k].fresh
    BY <2>1, <2>2 DEF FilesFollow, DetailShown
  <2>5. pane.diff # None /\ DetailShown
          => \/ pane.diff.pick = [rev |-> picked.rev, file |-> picked.file]
             \/ \E k \in Running({"diff"}) : tasks[k].fresh
    BY <2>1, <2>2 DEF DiffFollows
  <2> QED
    BY <2>3, <2>4, <2>5 DEF PanesMatch
<1> QED
  BY <1>1, ScmInductive, PTL

\* The store under its real callers implements FreshBadge: no badge goes back
\* behind a change that was announced.
THEOREM PanelBadgesAreFresh == ScmSpec => BadgesStayFresh
<1>1. ScmInit => Badge!BadgeInit
  <2> SUFFICES ASSUME ScmInit PROVE Badge!BadgeInit
    OBVIOUS
  <2>1. ScmInv /\ tree = [p \in Projects |-> 0] /\ \A p \in Projects : ~IsRead(git.snapshots[p])
    BY ScmStart
  <2>2. git.snapshots \in [Projects -> MaybeStatus] /\ git.asked \in [Projects -> Versions]
    BY <2>1 DEF ScmInv, GitInv, GitState
  <2>3. \A p \in Projects : git.asked[p] = 0
    <3>1. \A p \in Projects : git.asked[p] <= 0 /\ git.asked[p] \in Nat
      BY <2>1, <2>2 DEF ScmInv, GitInv, Good, PastIn, Versions
    <3> QED
      BY <3>1
  <2>4. git.asked = [p \in Projects |-> 0]
    BY <2>2, <2>3
  <2> QED
    BY <2>1, <2>2, <2>4 DEF Badge!BadgeInit
<1>2. ScmInv /\ [ScmNext]_scmVars => [Badge!BadgeNext]_(Badge!badgeVars)
  <2> SUFFICES ASSUME ScmInv, ScmNext PROVE Badge!BadgeNext
    BY DEF scmVars, Badge!badgeVars
  <2>1. StoreTurn
    BY ScmTurn DEF Turn
  <2>2. \A p \in Projects : Badge!Asks(p)
    BY <2>1 DEF StoreTurn, Sound, Step, Badge!Asks
  <2>3. \A p \in Projects : Badge!Shows(p)
    BY <2>1 DEF StoreTurn, Sound, Step, Badge!Shows
  <2> QED
    BY <2>1, <2>2, <2>3 DEF StoreTurn, Badge!BadgeNext
<1> QED
  BY <1>1, <1>2, ScmInductive, PTL DEF ScmSpec, BadgesStayFresh, Badge!BadgeSpec
=============================================================================
