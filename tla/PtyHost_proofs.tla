----------------------------- MODULE PtyHost_proofs -----------------------------
(***************************************************************************)
(* Proofs about PtyRing and PtyHost, for any number of terminals and any   *)
(* sizes.  Of one buffer, reads larger than it included: whatever could be *)
(* held and is newer than the evicted point is held, hence every replay    *)
(* that can_replay grants is complete.  Of the registry: a process that    *)
(* left it is never forgotten and the daemon leaves no process behind; the *)
(* byte counters are exact, the buffers together never exceed the budget   *)
(* while the host lock is free, and an eviction empties a buffer it saw in *)
(* use only after those it saw detached.                                   *)
(*                                                                         *)
(* The accounts are sums over blocks and over terminals.  The library's    *)
(* induction theorems take an operator, which the provers cannot           *)
(* instantiate; induction is therefore proved here for sets of numbers,    *)
(* from the well-foundedness of their order, and used on sets defined in   *)
(* the proofs.                                                             *)
(***************************************************************************)
EXTENDS PtyHost, PtyRing, NaturalsInduction, WellFoundedInduction, SequenceTheorems, TLAPS

-------------------------------------------------------------------------------
(* One buffer over time (PtyRing) *)

\* What the proofs need of a ring's type; the byte counter is left to TLC.
Shape ==
    buffer = [blocks |-> buffer.blocks, bytes |-> buffer.bytes,
            nextSeq |-> buffer.nextSeq, evictedThrough |-> buffer.evictedThrough]

SeqType ==
    /\ buffer.nextSeq \in Nat
    /\ buffer.evictedThrough \in Nat \cup {NoneEvicted}
    /\ buffer.blocks \in Seq(Block)
    /\ oversized \subseteq Nat

RingInv == Shape /\ SeqType /\ Contiguous

\* The parts of the invariant as numbers and positions.
LEMMA Positions ==
    ASSUME RingInv
    PROVE  /\ Len(buffer.blocks) \in Nat /\ DOMAIN buffer.blocks = 1..Len(buffer.blocks)
           /\ buffer.nextSeq \in Nat
           /\ buffer.evictedThrough \in Int /\ buffer.evictedThrough >= -1
           /\ \A i \in 1..Len(buffer.blocks) :
                 /\ buffer.blocks[i] \in Block
                 /\ buffer.blocks[i].seq \in Nat /\ buffer.blocks[i].seq \in Held
<1>1. /\ buffer.blocks \in Seq(Block) /\ buffer.nextSeq \in Nat
      /\ buffer.evictedThrough \in Nat \cup {-1}
  BY DEF RingInv, SeqType, NoneEvicted
<1>2. Len(buffer.blocks) \in Nat /\ DOMAIN buffer.blocks = 1..Len(buffer.blocks)
  BY <1>1, LenProperties
<1>3. ASSUME NEW i \in 1..Len(buffer.blocks)
      PROVE  /\ buffer.blocks[i] \in Block
             /\ buffer.blocks[i].seq \in Nat /\ buffer.blocks[i].seq \in Held
  <2>1. buffer.blocks[i] \in Block
    BY <1>1, ElementOfSeq
  <2>2. QED
    BY <1>2, <2>1 DEF Block, Held
<1>4. QED
  BY <1>1, <1>2, <1>3

\* The blocks after popping k of them and appending one.
LEMMA AfterPush ==
    ASSUME NEW bs \in Seq(Block), NEW k \in 0..Len(bs), NEW b \in Block, NEW a,
           a = Append(SubSeq(bs, k + 1, Len(bs)), b)
    PROVE  /\ a \in Seq(Block) /\ DOMAIN a = 1..(Len(bs) - k + 1)
           /\ \A i \in 1..(Len(bs) - k) : a[i] = bs[k + i]
           /\ a[Len(bs) - k + 1] = b
<1> DEFINE rest == SubSeq(bs, k + 1, Len(bs))
<1>1. Len(bs) \in Nat /\ k \in Nat
  BY LenProperties
<1>2. /\ rest \in Seq(Block)
      /\ Len(rest) = Len(bs) - k
      /\ \A i \in 1..Len(rest) : rest[i] = bs[k + i]
  <2>1. \A i \in (k + 1)..Len(bs) : bs[i] \in Block
    BY <1>1, ElementOfSeq
  <2>2. k + 1 \in Int /\ Len(bs) \in Int
    BY <1>1
  <2>3. /\ rest \in Seq(Block)
        /\ Len(rest) = IF k + 1 <= Len(bs) THEN Len(bs) - (k + 1) + 1 ELSE 0
        /\ \A i \in 1..(Len(bs) - (k + 1) + 1) : rest[i] = bs[(k + 1) + i - 1]
    BY ONLY <2>1, <2>2, SubSeqProperties
  <2>4. Len(rest) = Len(bs) - k
    BY <2>3, <1>1
  <2>5. ASSUME NEW i \in 1..Len(rest) PROVE rest[i] = bs[k + i]
    <3>1. i \in 1..(Len(bs) - (k + 1) + 1) /\ (k + 1) + i - 1 = k + i
      BY <2>4, <1>1
    <3>2. QED
      BY <3>1, <2>3
  <2>6. QED
    BY <2>3, <2>4, <2>5
<1>3. /\ a \in Seq(Block)
      /\ Len(a) = Len(rest) + 1
      /\ \A i \in 1..Len(rest) : a[i] = rest[i]
      /\ a[Len(rest) + 1] = b
  <2> HIDE DEF rest
  <2>1. a = Append(rest, b)
    BY DEF rest
  <2>2. /\ Append(rest, b) \in Seq(Block)
        /\ Len(Append(rest, b)) = Len(rest) + 1
        /\ \A i \in 1..Len(rest) : Append(rest, b)[i] = rest[i]
        /\ Append(rest, b)[Len(rest) + 1] = b
    BY ONLY <1>2, b \in Block, AppendProperties
  <2>3. QED
    BY ONLY <2>1, <2>2
<1> HIDE DEF rest
<1>4. DOMAIN a = 1..Len(a)
  BY <1>3, LenProperties
<1>5. QED
  BY <1>2, <1>3, <1>4

-------------------------------------------------------------------------------
\* An oversized block moves the evicted point past everything held.
LEMMA DroppedKeeps ==
    ASSUME RingInv, buffer' = PushDropped(buffer),
           oversized' = oversized \cup {buffer.nextSeq}
    PROVE  RingInv' /\ buffer'.evictedThrough > buffer.evictedThrough
<1>1. /\ buffer'.blocks = buffer.blocks /\ buffer'.nextSeq = buffer.nextSeq + 1
      /\ buffer'.evictedThrough = buffer.nextSeq /\ Shape'
  BY DEF PushDropped, RingInv, Shape
<1>2. buffer.nextSeq \in Nat /\ buffer.evictedThrough \in Int
  BY Positions
<1>3. Held' = Held /\ \A h \in Held : h \in Nat /\ h < buffer.nextSeq /\ h \notin oversized
  <2>1. \A h \in Held : h \in Nat
    BY Positions DEF Held
  <2>2. QED
    BY <1>1, <2>1 DEF Held, RingInv, Contiguous, InOrder
<1>4. SeqType'
  <2>1. oversized' \subseteq Nat
    BY <1>2 DEF RingInv, SeqType
  <2>2. buffer'.nextSeq \in Nat /\ buffer'.evictedThrough \in Nat
    BY <1>1, <1>2
  <2>3. QED
    BY <1>1, <2>1, <2>2 DEF RingInv, SeqType
<1>5. InOrder'
  <2>1. \A h \in Held : h < buffer.nextSeq + 1 /\ h # buffer.nextSeq
    BY <1>2, <1>3
  <2>2. \A o \in oversized' : o < buffer.nextSeq + 1
    <3>1. oversized \subseteq Nat /\ \A o \in oversized : o < buffer.nextSeq
      BY DEF RingInv, SeqType, Contiguous, InOrder
    <3>2. QED
      BY <1>2, <3>1
  <2>3. \A i, j \in DOMAIN buffer.blocks :
            i < j => buffer.blocks[i].seq < buffer.blocks[j].seq
    BY DEF RingInv, Contiguous, InOrder
  <2>4. buffer'.evictedThrough < buffer'.nextSeq
    BY <1>1, <1>2
  <2>5. QED
    BY <1>1, <1>3, <2>1, <2>2, <2>3, <2>4 DEF InOrder
<1>6. NoGap'
  <2> SUFFICES ASSUME NEW s \in (0..(buffer'.nextSeq - 1)) \ oversized',
                      s > buffer'.evictedThrough \/ \E h \in Held : h < s
               PROVE  s \in Held
    BY <1>3 DEF NoGap
  <2>1. s \in (0..(buffer.nextSeq - 1)) \ oversized
    BY <1>1, <1>2
  <2>2. \E h \in Held : h < s
    BY <1>1, <1>2, <2>1
  <2>3. QED
    BY <2>1, <2>2 DEF RingInv, Contiguous, NoGap
<1>7. Ahead'
  BY <1>3 DEF Ahead
<1>8. buffer'.evictedThrough > buffer.evictedThrough
  BY <1>1, <1>2 DEF RingInv, Contiguous, InOrder
<1>9. QED
  BY <1>1, <1>4, <1>5, <1>6, <1>7, <1>8 DEF RingInv, Contiguous

\* Any other block: the evicted point is the last block popped, if any was.
LEMMA KeptKeeps ==
    ASSUME RingInv, NEW n \in Nat, NEW k \in 0..Len(buffer.blocks),
           buffer' = PushKept(buffer, n, k), UNCHANGED oversized
    PROVE  RingInv' /\ (~Overtaken => buffer'.evictedThrough >= buffer.evictedThrough)
<1> DEFINE bs == buffer.blocks
           L == Len(buffer.blocks)
           b == [seq |-> buffer.nextSeq, len |-> n]
<1>1. /\ L \in Nat /\ DOMAIN bs = 1..L /\ k \in Nat /\ k <= L
      /\ buffer.nextSeq \in Nat /\ buffer.evictedThrough \in Int /\ buffer.evictedThrough >= -1
      /\ \A i \in 1..L : bs[i] \in Block /\ bs[i].seq \in Nat /\ bs[i].seq \in Held
  BY Positions
<1>2. /\ \A i, j \in 1..L : i < j => bs[i].seq < bs[j].seq
      /\ \A i \in 1..L : bs[i].seq < buffer.nextSeq /\ bs[i].seq \notin oversized
      /\ \A o \in oversized : o < buffer.nextSeq
      /\ buffer.evictedThrough < buffer.nextSeq
  BY <1>1 DEF RingInv, Contiguous, InOrder
<1>3. /\ buffer'.blocks = Append(SubSeq(bs, k + 1, Len(bs)), b)
      /\ buffer'.nextSeq = buffer.nextSeq + 1 /\ Shape'
      /\ buffer'.evictedThrough = IF k = 0 THEN buffer.evictedThrough ELSE bs[k].seq
  BY DEF PushKept, Shape
<1>4. b \in Block /\ b.seq = buffer.nextSeq
  BY <1>1 DEF Block
<1>5. /\ buffer'.blocks \in Seq(Block) /\ DOMAIN buffer'.blocks = 1..(L - k + 1)
      /\ \A i \in 1..(L - k) : buffer'.blocks[i] = bs[k + i]
      /\ buffer'.blocks[L - k + 1] = b
  <2> HIDE DEF b
  <2>1. buffer.blocks \in Seq(Block)
    BY DEF RingInv, SeqType
  <2>2. QED
    BY <1>3, <1>4, <2>1, AfterPush
<1> DEFINE B == buffer'.blocks
<1> HIDE DEF b, B, bs, L
<1>6. ASSUME NEW i \in 1..(L - k + 1)
      PROVE  /\ i \in 1..(L - k) => (k + i \in 1..L /\ k + i > k /\ B[i].seq = bs[k + i].seq)
             /\ i \notin 1..(L - k) => (i = L - k + 1 /\ B[i].seq = buffer.nextSeq)
  <2>1. CASE i \in 1..(L - k)
    <3>1. k + i \in 1..L /\ k + i > k
      BY <1>1, <2>1
    <3>2. B[i] = bs[k + i]
      BY <1>5, <2>1 DEF B, bs, L
    <3>3. QED
      BY <2>1, <3>1, <3>2
  <2>2. CASE i \notin 1..(L - k)
    <3>1. i = L - k + 1
      BY <1>1, <2>2
    <3>2. B[L - k + 1] = b
      BY <1>5 DEF B, L
    <3>3. QED
      BY <1>4, <2>2, <3>1, <3>2
  <2>3. QED
    BY <2>1, <2>2
<1>7. Held' = {B[i].seq : i \in 1..(L - k + 1)}
  <2>1. DOMAIN B = 1..(L - k + 1)
    BY <1>5 DEF B, L
  <2>2. QED
    BY <2>1 DEF Held, B
<1>8. ASSUME NEW h \in Held'
      PROVE  h = buffer.nextSeq \/ \E j \in 1..L : j > k /\ h = bs[j].seq
  <2>1. PICK i \in 1..(L - k + 1) : h = B[i].seq
    BY <1>7
  <2>2. QED
    BY <1>6, <2>1
<1>9. buffer.nextSeq \in Held' /\ \A j \in 1..L : j > k => bs[j].seq \in Held'
  <2>1. L - k + 1 \in 1..(L - k + 1) /\ B[L - k + 1].seq = buffer.nextSeq
    BY <1>1, <1>6
  <2>2. ASSUME NEW j \in 1..L, j > k PROVE bs[j].seq \in Held'
    <3>1. j - k \in 1..(L - k + 1) /\ j - k \in 1..(L - k) /\ k + (j - k) = j
      BY <1>1, <2>2
    <3>2. B[j - k].seq = bs[j].seq
      BY <1>6, <3>1
    <3>3. QED
      BY <1>7, <3>1, <3>2
  <2>3. QED
    BY <1>7, <2>1, <2>2
<1>10. k # 0 => k \in 1..L /\ buffer'.evictedThrough = bs[k].seq
  BY <1>1, <1>3 DEF bs
<1>11. k = 0 => buffer'.evictedThrough = buffer.evictedThrough
  BY <1>3
<1>12. SeqType'
  <2>1. buffer'.evictedThrough \in Nat \cup {-1}
    BY <1>1, <1>10, <1>11
  <2>2. buffer'.nextSeq \in Nat
    BY <1>1, <1>3
  <2>3. QED
    BY <1>5, <2>1, <2>2 DEF RingInv, SeqType, NoneEvicted
<1>13. InOrder'
  <2>1. ASSUME NEW i \in 1..(L - k + 1), NEW j \in 1..(L - k + 1), i < j
        PROVE  B[i].seq < B[j].seq
    <3>1. i \in 1..(L - k) /\ k + i \in 1..L /\ B[i].seq = bs[k + i].seq
      BY <1>1, <1>6, <2>1
    <3>2. CASE j \in 1..(L - k)
      <4>1. k + j \in 1..L /\ k + i < k + j /\ B[j].seq = bs[k + j].seq
        BY <1>1, <1>6, <2>1, <3>2
      <4>2. QED
        BY <1>2, <3>1, <4>1 DEF bs, L
    <3>3. CASE j \notin 1..(L - k)
      <4>1. B[j].seq = buffer.nextSeq
        BY <1>6, <3>3
      <4>2. QED
        BY <1>2, <3>1, <4>1 DEF bs, L
    <3>4. QED
      BY <3>2, <3>3
  <2>2. \A h \in Held' : h < buffer.nextSeq + 1 /\ h \notin oversized
    <3>1. buffer.nextSeq \notin oversized
      BY <1>1, <1>2
    <3>2. QED
      BY <1>1, <1>2, <1>8, <3>1 DEF bs, L
  <2>3. /\ buffer'.evictedThrough < buffer.nextSeq + 1
        /\ \A o \in oversized : o < buffer.nextSeq + 1
    <3> oversized \subseteq Nat
      BY DEF RingInv, SeqType
    <3>1. CASE k = 0
      BY <1>1, <1>2, <1>11, <3>1
    <3>2. CASE k # 0
      BY <1>1, <1>2, <1>10, <3>2 DEF bs, L
    <3>3. QED
      BY <3>1, <3>2
  <2>4. QED
    BY <1>3, <1>5, <2>1, <2>2, <2>3 DEF InOrder, B
<1>14. ASSUME NEW j \in 1..L, bs[j].seq > buffer'.evictedThrough \/ k = 0
       PROVE  bs[j].seq \in Held'
  <2>1. k # 0 => j > k
    <3> SUFFICES ASSUME k # 0, ~(j > k) PROVE FALSE
      BY <1>1
    <3>1. j = k \/ j < k
      BY <1>1
    <3>2. bs[j].seq <= bs[k].seq /\ bs[j].seq \in Nat /\ bs[k].seq \in Nat
      BY <1>1, <1>2, <1>10, <3>1 DEF bs, L
    <3>3. bs[j].seq > bs[k].seq
      BY <1>10, <1>14
    <3>4. QED
      BY <3>2, <3>3
  <2>2. j > k
    BY <1>1, <2>1
  <2>3. QED
    BY <1>9, <2>2
<1>15. NoGap'
  <2> SUFFICES ASSUME NEW s \in (0..(buffer'.nextSeq - 1)) \ oversized,
                      s > buffer'.evictedThrough \/ \E h \in Held' : h < s
               PROVE  s \in Held'
    BY DEF NoGap
  <2>1. s \in Nat /\ (s = buffer.nextSeq \/ s \in (0..(buffer.nextSeq - 1)) \ oversized)
    BY <1>1, <1>3
  <2>2. CASE s = buffer.nextSeq
    BY <1>9, <2>2
  <2>3. CASE s \in (0..(buffer.nextSeq - 1)) \ oversized
    <3>1. s > buffer'.evictedThrough \/ \E j \in 1..L : j > k /\ bs[j].seq < s
      BY <1>1, <1>8, <2>1, <2>3
    <3>2. k # 0 => s > buffer'.evictedThrough /\ s > bs[k].seq /\ k \in 1..L
      <4> SUFFICES ASSUME k # 0 PROVE s > bs[k].seq
        BY <1>10
      <4>1. ASSUME NEW j \in 1..L, j > k, bs[j].seq < s PROVE s > bs[k].seq
        <5>1. bs[k].seq < bs[j].seq /\ bs[k].seq \in Nat /\ bs[j].seq \in Nat
          BY <1>1, <1>2, <1>10, <4>1 DEF bs, L
        <5>2. QED
          BY <2>1, <4>1, <5>1
      <4>2. QED
        BY <1>10, <3>1, <4>1
    <3>3. s > buffer.evictedThrough \/ \E h \in Held : h < s
      <4>1. CASE k = 0
        BY <1>1, <1>11, <3>1, <4>1 DEF bs, L
      <4>2. CASE k # 0
        BY <1>1, <3>2, <4>2 DEF bs, L
      <4>3. QED
        BY <4>1, <4>2
    <3>4. s \in Held
      BY <2>3, <3>3 DEF RingInv, Contiguous, NoGap
    <3>5. PICK j \in 1..L : bs[j].seq = s
      BY <1>1, <3>4 DEF Held, bs, L
    <3>6. QED
      BY <1>14, <3>2, <3>5
  <2>4. QED
    BY <2>1, <2>2, <2>3
<1>16. Ahead'
  <2> SUFFICES ASSUME NEW h \in Held'
               PROVE  h > buffer'.evictedThrough \/ \E o \in oversized : h < o
    BY DEF Ahead
  <2>1. CASE h = buffer.nextSeq
    <3>1. k # 0 => bs[k].seq < buffer.nextSeq /\ bs[k].seq \in Nat
      BY <1>1, <1>2, <1>10 DEF bs, L
    <3>2. QED
      BY <1>1, <1>2, <1>10, <1>11, <2>1, <3>1
  <2>2. ASSUME NEW j \in 1..L, j > k, h = bs[j].seq
        PROVE  h > buffer'.evictedThrough \/ \E o \in oversized : h < o
    <3>1. CASE k = 0
      <4>1. h \in Held
        BY <1>1, <2>2 DEF bs, L
      <4>2. QED
        BY <1>11, <3>1, <4>1 DEF RingInv, Contiguous, Ahead
    <3>2. CASE k # 0
      <4>1. bs[k].seq < bs[j].seq /\ bs[k].seq \in Nat /\ bs[j].seq \in Nat
        BY <1>1, <1>2, <1>10, <2>2, <3>2 DEF bs, L
      <4>2. QED
        BY <1>10, <2>2, <3>2, <4>1
    <3>3. QED
      BY <3>1, <3>2
  <2>3. QED
    BY <1>8, <2>1, <2>2
<1>17. ~Overtaken => buffer'.evictedThrough >= buffer.evictedThrough
  <2> SUFFICES ASSUME ~Overtaken PROVE buffer'.evictedThrough >= buffer.evictedThrough
    OBVIOUS
  <2>1. CASE k = 0
    BY <1>1, <1>11, <2>1
  <2>2. CASE k # 0
    <3>1. k \in 1..L /\ bs[k].seq \in Held /\ bs[k].seq \in Nat
      BY <1>1, <1>10, <2>2
    <3>2. ~\E o \in oversized : bs[k].seq < o
      BY <1>1, <3>1 DEF Overtaken, bs, L
    <3>3. bs[k].seq > buffer.evictedThrough
      BY <3>1, <3>2 DEF RingInv, Contiguous, Ahead
    <3>4. QED
      BY <1>1, <1>10, <2>2, <3>1, <3>3
  <2>3. QED
    BY <2>1, <2>2
<1>18. QED
  BY <1>3, <1>12, <1>13, <1>15, <1>16, <1>17 DEF RingInv, Contiguous

\* Clearing leaves nothing held, and nothing newer that could have been held.
LEMMA ClearKeeps ==
    ASSUME RingInv, buffer' = Clear(buffer), UNCHANGED oversized
    PROVE  RingInv' /\ (~Overtaken => buffer'.evictedThrough >= buffer.evictedThrough)
<1> DEFINE bs == buffer.blocks
           L == Len(buffer.blocks)
<1>1. /\ L \in Nat /\ DOMAIN bs = 1..L
      /\ buffer.nextSeq \in Nat /\ buffer.evictedThrough \in Int /\ buffer.evictedThrough >= -1
      /\ \A i \in 1..L : bs[i].seq \in Nat /\ bs[i].seq \in Held
  BY Positions
<1>2. /\ \A i, j \in 1..L : i < j => bs[i].seq < bs[j].seq
      /\ \A i \in 1..L : bs[i].seq < buffer.nextSeq
      /\ buffer.evictedThrough < buffer.nextSeq
      /\ \A o \in oversized : o < buffer.nextSeq
  BY <1>1 DEF RingInv, Contiguous, InOrder
<1>3. /\ buffer'.blocks = << >> /\ buffer'.nextSeq = buffer.nextSeq /\ Shape'
      /\ buffer'.evictedThrough = IF bs = << >> THEN buffer.evictedThrough ELSE bs[L].seq
  BY DEF Clear, RingInv, Shape
<1>4. Held' = {}
  <2>1. DOMAIN buffer'.blocks = {}
    BY <1>3, EmptySeq, LenProperties
  <2>2. QED
    BY <2>1 DEF Held
<1>5. /\ bs = << >> => Held = {}
      /\ bs # << >> => L \in 1..L
  <2>1. bs \in Seq(Block)
    BY DEF RingInv, SeqType
  <2>2. bs = << >> => L = 0
    BY EmptySeq
  <2>3. bs # << >> => L # 0
    BY <2>1, EmptySeq
  <2>4. bs = << >> => Held = {}
    BY <1>1, <2>2 DEF Held
  <2>5. QED
    BY <1>1, <2>3, <2>4
<1> HIDE DEF bs, L
<1>6. bs # << >> => \A i \in 1..L : bs[i].seq <= bs[L].seq
  BY <1>1, <1>2, <1>5
<1>7. SeqType'
  <2>1. buffer'.evictedThrough \in Nat \cup {-1}
    BY <1>1, <1>3, <1>5
  <2>2. QED
    BY <1>1, <1>3, <2>1, EmptySeq DEF RingInv, SeqType, NoneEvicted
<1>8. InOrder'
  <2>1. buffer'.evictedThrough < buffer.nextSeq
    BY <1>2, <1>3, <1>5
  <2>2. DOMAIN buffer'.blocks = {}
    BY <1>3, EmptySeq, LenProperties
  <2>3. QED
    BY <1>2, <1>3, <1>4, <2>1, <2>2 DEF InOrder
<1>9. NoGap'
  <2> SUFFICES ASSUME NEW s \in (0..(buffer.nextSeq - 1)) \ oversized,
                      s > buffer'.evictedThrough
               PROVE  FALSE
    BY <1>3, <1>4 DEF NoGap
  <2>1. CASE bs = << >>
    <3>1. s \in Held
      BY <1>3, <2>1 DEF RingInv, Contiguous, NoGap
    <3>2. QED
      BY <1>5, <2>1, <3>1
  <2>2. CASE bs # << >>
    <3>1. L \in 1..L /\ bs[L].seq \in Held /\ bs[L].seq < s /\ bs[L].seq \in Nat
      BY <1>1, <1>3, <1>5, <2>2
    <3>2. s \in Held
      BY <3>1 DEF RingInv, Contiguous, NoGap
    <3>3. PICK i \in 1..L : bs[i].seq = s
      BY <1>1, <3>2 DEF Held, bs, L
    <3>4. s <= bs[L].seq
      BY <1>6, <2>2, <3>3
    <3>5. QED
      BY <1>1, <3>1, <3>4
  <2>3. QED
    BY <2>1, <2>2
<1>10. Ahead'
  BY <1>4 DEF Ahead
<1>11. ~Overtaken => buffer'.evictedThrough >= buffer.evictedThrough
  <2> SUFFICES ASSUME ~Overtaken PROVE buffer'.evictedThrough >= buffer.evictedThrough
    OBVIOUS
  <2>1. CASE bs = << >>
    BY <1>1, <1>3, <2>1
  <2>2. CASE bs # << >>
    <3>1. L \in 1..L /\ bs[L].seq \in Held /\ bs[L].seq \in Nat
      BY <1>1, <1>5, <2>2
    <3>2. ~\E o \in oversized : bs[L].seq < o
      BY <1>1, <3>1 DEF Overtaken, bs
    <3>3. bs[L].seq > buffer.evictedThrough
      BY <3>1, <3>2 DEF RingInv, Contiguous, Ahead
    <3>4. QED
      BY <1>1, <1>3, <2>2, <3>1, <3>3
  <2>3. QED
    BY <2>1, <2>2
<1>12. QED
  BY <1>3, <1>7, <1>8, <1>9, <1>10, <1>11 DEF RingInv, Contiguous

\* A step of the ring, for any block size: the invariant holds, and without a
\* block overtaken by an oversized one the evicted point does not go back.
LEMMA RingStep ==
    ASSUME RingInv, RingNext
    PROVE  RingInv' /\ (~Overtaken => buffer'.evictedThrough >= buffer.evictedThrough)
<1>1. ASSUME NEW n \in 1..ReadBuf, PushBlock(n)
      PROVE  RingInv' /\ (~Overtaken => buffer'.evictedThrough >= buffer.evictedThrough)
  <2>1. n \in Nat /\ buffer' \in Pushed(buffer, n)
    BY <1>1, ReadBufAssumption DEF PushBlock
  <2>2. CASE n > Capacity
    <3>1. buffer' = PushDropped(buffer) /\ oversized' = oversized \cup {buffer.nextSeq}
      BY <1>1, <2>1, <2>2 DEF PushBlock, Pushed
    <3>2. RingInv' /\ buffer'.evictedThrough > buffer.evictedThrough
      BY <3>1, DroppedKeeps
    <3>3. buffer.evictedThrough \in Int /\ buffer'.evictedThrough \in Int
      BY <3>2 DEF RingInv, SeqType, NoneEvicted
    <3>4. QED
      BY <3>2, <3>3
  <2>3. CASE ~(n > Capacity)
    <3>1. PICK k \in 0..Len(buffer.blocks) : buffer' = PushKept(buffer, n, k)
      BY <2>1, <2>3 DEF Pushed
    <3>2. UNCHANGED oversized
      BY <1>1, <2>3 DEF PushBlock
    <3>3. QED
      BY <2>1, <3>1, <3>2, KeptKeeps
  <2>4. QED
    BY <2>2, <2>3
<1>2. CASE Evict
  BY <1>2, ClearKeeps DEF Evict
<1>3. QED
  BY <1>1, <1>2 DEF RingNext

\* The inductive invariant holds throughout, whatever the sizes of the reads
\* and of the buffer.
THEOREM ContiguousInvariant == RingSpec => []RingInv
<1>1. RingInit => RingInv
  <2> SUFFICES ASSUME RingInit PROVE RingInv
    OBVIOUS
  <2>1. /\ buffer.blocks = << >> /\ buffer.nextSeq = 0
        /\ buffer.evictedThrough = -1 /\ Shape /\ oversized = {}
    BY DEF RingInit, EmptyRing, Shape, NoneEvicted
  <2>2. << >> \in Seq(Block) /\ DOMAIN buffer.blocks = {}
    BY <2>1, EmptySeq, LenProperties
  <2>3. Held = {} /\ 0..(0 - 1) = {}
    BY <2>2 DEF Held
  <2>4. QED
    BY <2>1, <2>2, <2>3
    DEF RingInv, SeqType, Contiguous, InOrder, NoGap, Ahead, NoneEvicted
<1>2. RingInv /\ [RingNext]_ringVars => RingInv'
  <2>1. CASE UNCHANGED ringVars
    BY <2>1 DEF ringVars, RingInv, Shape, SeqType, Contiguous, InOrder, NoGap, Ahead, Held
  <2>2. QED
    BY <2>1, RingStep
<1>3. QED
  BY <1>1, <1>2, PTL DEF RingSpec

\* Hence can_replay is honest about such a ring.
LEMMA ContiguousReplay == RingInv => ReplayComplete
<1> SUFFICES ASSUME RingInv, NEW from \in 0..buffer.nextSeq, CanReplay(buffer, from)
             PROVE  ReplaySeqs(buffer, from) = (from..(buffer.nextSeq - 1)) \ oversized
  BY DEF ReplayComplete
<1>1. /\ DOMAIN buffer.blocks = 1..Len(buffer.blocks)
      /\ buffer.nextSeq \in Nat /\ buffer.evictedThrough \in Int
      /\ \A h \in Held : h \in Nat /\ h < buffer.nextSeq /\ h \notin oversized
  BY Positions DEF Held, RingInv, Contiguous, InOrder
<1>2. ReplaySeqs(buffer, from) = {h \in Held : h >= from}
  BY DEF ReplaySeqs, Replay, Held
<1>3. from \in Nat /\ from > buffer.evictedThrough
  BY <1>1 DEF CanReplay
<1>4. ASSUME NEW h \in Held, h >= from PROVE h \in (from..(buffer.nextSeq - 1)) \ oversized
  BY <1>1, <1>3, <1>4
<1>5. ASSUME NEW s \in (from..(buffer.nextSeq - 1)) \ oversized PROVE s \in Held /\ s >= from
  <2>1. s \in (0..(buffer.nextSeq - 1)) \ oversized /\ s > buffer.evictedThrough /\ s >= from
    BY <1>1, <1>3
  <2>2. QED
    BY <2>1 DEF RingInv, Contiguous, NoGap
<1>6. QED
  BY <1>2, <1>4, <1>5

\* Whatever a reconnecting client asks from, and whatever the sizes, a granted
\* replay is everything the terminal printed from there on but for the blocks
\* larger than the whole buffer (RingBuffer::can_replay and replay).
THEOREM ReplayIsComplete == RingSpec => []ReplayComplete
BY ContiguousInvariant, ContiguousReplay, PTL

\* Output lost from the buffer stays lost, as long as no oversized block has
\* been dropped behind one still held: evictedThrough only grows.
THEOREM LossIsPermanent == RingSpec => LostStaysLost
<1> DEFINE Kept == ~Overtaken =>
                      \A from \in 0..buffer.nextSeq :
                          ~CanReplay(buffer, from) => ~CanReplay(buffer', from)
<1>1. RingInv /\ [RingNext]_ringVars => [Kept]_ringVars
  <2> SUFFICES ASSUME RingInv, RingNext, ~Overtaken,
                      NEW from \in 0..buffer.nextSeq, ~CanReplay(buffer, from)
               PROVE  ~CanReplay(buffer', from)
    OBVIOUS
  <2>1. RingInv' /\ buffer'.evictedThrough >= buffer.evictedThrough
    BY RingStep
  <2>2. /\ buffer.evictedThrough \in Int /\ buffer'.evictedThrough \in Int
        /\ buffer.nextSeq \in Nat
    BY <2>1 DEF RingInv, SeqType, NoneEvicted
  <2>3. QED
    BY <2>1, <2>2 DEF CanReplay
<1>2. QED
  BY <1>1, ContiguousInvariant, PTL DEF RingSpec, LostStaysLost

-------------------------------------------------------------------------------
(* The ends of processes *)

ProcType ==
    /\ proc \in [Term -> {"unborn", "running", "dead", "abandoned"}]
    /\ exitedAt \in [Term -> Int]
    /\ now \in Nat
    /\ phase \in {"open", "hup", "forced", "stopped"}

\* An unborn terminal is nowhere; an exited one is dead.
Sane ==
    \A t \in Term :
        /\ proc[t] = "unborn" => t \notin terms \cup killing
        /\ Exited(t) => proc[t] = "dead"

\* A running process that is out of the registry, or about to be taken out by
\* a kill, has a pending reap signal or a sleeping watchdog.
Doomed ==
    \A t \in Term :
        (proc[t] = "running" /\ (t \notin terms \/ t \in killing))
            => t \in reclaimed \cup watchdog

\* Once shutdown has begun, whoever still runs is on its list; once it has
\* force-killed, nobody runs.
Listed ==
    /\ phase = "hup" => \A t \in Term : proc[t] = "running" => t \in snapshot
    /\ phase \in {"forced", "stopped"} => \A t \in Term : proc[t] # "running"

IInv == ProcType /\ Sane /\ Doomed /\ Listed

-------------------------------------------------------------------------------
\* The initial state satisfies the invariant.
LEMMA InitIInv == Init => IInv
  BY DEF Init, IInv, ProcType, Sane, Doomed, Listed, Exited, Never

\* terminate leaves every terminal it was given dead, exited or watched, and
\* revives nobody.
LEMMA TerminateDooms ==
    ASSUME IInv, NEW S, Terminate(S)
    PROVE  /\ proc' \in [Term -> {"unborn", "running", "dead", "abandoned"}]
           /\ watchdog \subseteq watchdog'
           /\ \A t \in Term : proc'[t] = proc[t] \/ (proc'[t] = "dead" /\ t \in S /\ ~Exited(t))
           /\ \A t \in Term : t \in S /\ proc'[t] = "running" => t \in watchdog'
  BY DEF Terminate, IInv, ProcType, Sane

\* A clock reading is not Never.
LEMMA NowIsATime == \A n \in Nat : n # Never
  BY DEF Never

\* Creation adds a running, registered terminal, or an abandoned process.
LEMMA CreateStep ==
    ASSUME IInv, NEW t \in Term, CreateFails(t) \/ \E c \in Clients : Create(t, c)
    PROVE  IInv'
  BY DEF Create, CreateFails, IInv, ProcType, Sane, Doomed, Listed, Exited, link, daemon

\* Output, attach, detach and time touch no process and no membership.
LEMMA QuietStep ==
    ASSUME IInv,
           UNCHANGED <<terms, proc, exitedAt, watchdog, killing, reclaimed, phase, snapshot>>,
           now' \in Nat
    PROVE  IInv'
  BY DEF IInv, ProcType, Sane, Doomed, Listed, Exited

\* A death only removes obligations.
LEMMA DieStep == ASSUME IInv, NEW t \in Term, Die(t) PROVE IInv'
  BY DEF Die, IInv, ProcType, Sane, Doomed, Listed, Exited, link, daemon

\* Only a dead process gets a tombstone.
LEMMA ReaderExitStep == ASSUME IInv, NEW t \in Term, ReaderExit(t) PROVE IInv'
  BY NowIsATime DEF ReaderExit, IInv, ProcType, Sane, Doomed, Listed, Exited, link, daemon

\* A watchdog that leaves has made sure of its terminal.
LEMMA WatchdogStep == ASSUME IInv, NEW t \in Term, WatchdogFires(t) PROVE IInv'
  BY DEF WatchdogFires, IInv, ProcType, Sane, Doomed, Listed, Exited, link, daemon

\* A tombstone's process is dead, so removing it dooms nobody.
LEMMA RemoveExitedStep == ASSUME IInv, NEW t \in Term, RemoveExited(t) PROVE IInv'
  BY DEF RemoveExited, RemoveTerms, IInv, ProcType, Sane, Doomed, Listed, Exited, link, daemon

\* kill arms the watchdog before it takes the terminal out.
LEMMA KillSignalStep == ASSUME IInv, NEW t \in Term, KillSignal(t) PROVE IInv'
  <1>1. Terminate({t}) /\ Live(t)
    BY DEF KillSignal
  <1>2. /\ UNCHANGED <<terms, exitedAt, reclaimed, now, phase, snapshot>>
        /\ killing' = killing \cup {t}
    BY DEF KillSignal, daemon
  <1>3. QED
    BY <1>1, <1>2, TerminateDooms
    DEF Live, IInv, ProcType, Sane, Doomed, Listed, Exited

\* By then the watchdog sleeps, so the removal leaves the terminal doomed.
LEMMA KillRemoveStep == ASSUME IInv, NEW t \in Term, KillRemove(t) PROVE IInv'
  BY DEF KillRemove, RemoveTerms, IInv, ProcType, Sane, Doomed, Listed, Exited, link, daemon

\* reap keeps the running terminals it removed until it has signalled them.
LEMMA ReapStep == ASSUME IInv, Reap PROVE IInv'
  BY DEF Reap, RemoveTerms, IInv, ProcType, Sane, Doomed, Listed, Exited, link, daemon

\* ... and then their watchdogs take over.
LEMMA ReapSignalStep == ASSUME IInv, ReapSignal PROVE IInv'
  <1>1. Terminate(reclaimed) /\ reclaimed' = {}
    BY DEF ReapSignal
  <1>2. UNCHANGED <<terms, exitedAt, killing, now, phase, snapshot>>
    BY DEF ReapSignal, daemon
  <1>3. QED
    BY <1>1, <1>2, TerminateDooms DEF IInv, ProcType, Sane, Doomed, Listed, Exited

\* Shutdown's list holds every running process: the registered ones and the
\* ones removed while running.
LEMMA ShutdownHupStep == ASSUME IInv, ShutdownHup PROVE IInv'
  <1>1. Terminate(ShutdownSet) /\ snapshot' = ShutdownSet /\ phase' = "hup"
    BY DEF ShutdownHup
  <1>2. UNCHANGED <<terms, exitedAt, killing, reclaimed, now>>
    BY DEF ShutdownHup
  <1>3. \A t \in Term : proc[t] = "running" => t \in ShutdownSet
    BY DEF ShutdownSet, Retiring, IInv, Sane
  <1>4. QED
    BY <1>1, <1>2, <1>3, TerminateDooms DEF IInv, ProcType, Sane, Doomed, Listed, Exited

\* Force-killing the list leaves nobody running.
LEMMA ShutdownForceStep == ASSUME IInv, ShutdownForce PROVE IInv'
  BY DEF ShutdownForce, IInv, ProcType, Sane, Doomed, Listed, Exited, link

\* When everybody on the list exited, nobody runs.
LEMMA ShutdownDoneStep == ASSUME IInv, ShutdownDone PROVE IInv'
  BY DEF ShutdownDone, IInv, ProcType, Sane, Doomed, Listed, Exited, link

\* Every step of the daemon preserves the invariant.
LEMMA NextStep == ASSUME IInv, [Next]_vars PROVE IInv'
  <1>1. CASE UNCHANGED vars
    BY <1>1, QuietStep DEF vars, daemon, IInv, ProcType
  <1>2. CASE \E t \in Term, c \in Clients : Create(t, c) \/ Attach(t, c) \/ Detach(t, c)
    <2> PICK t \in Term, c \in Clients : Create(t, c) \/ Attach(t, c) \/ Detach(t, c)
      BY <1>2
    <2>1. CASE Create(t, c)
      BY <2>1, CreateStep
    <2>2. CASE Attach(t, c) \/ Detach(t, c)
      BY <2>2, QuietStep DEF Attach, Detach, daemon, IInv, ProcType
    <2>3. QED
      BY <2>1, <2>2
  <1>3. CASE \E t \in Term, n \in BlockLens : PushOutput(t, n)
    BY <1>3, QuietStep DEF PushOutput, link, daemon, IInv, ProcType
  <1>4. CASE \E t \in Term : \/ CreateFails(t) \/ Die(t) \/ ReaderExit(t)
                             \/ WatchdogFires(t) \/ RemoveExited(t)
                             \/ KillSignal(t) \/ KillRemove(t)
                             \/ EvictRead(t) \/ EvictClear(t)
    <2>1. ASSUME NEW t \in Term, EvictRead(t) \/ EvictClear(t) PROVE IInv'
      BY <2>1, QuietStep DEF EvictRead, EvictClear, link, daemon, IInv, ProcType
    <2>2. QED
      BY <1>4, <2>1, CreateStep, DieStep, ReaderExitStep, WatchdogStep, RemoveExitedStep,
         KillSignalStep, KillRemoveStep
  <1>5. CASE Reap \/ ReapSignal \/ ShutdownHup \/ ShutdownForce \/ ShutdownDone
    BY <1>5, ReapStep, ReapSignalStep, ShutdownHupStep, ShutdownForceStep, ShutdownDoneStep
  <1>6. CASE Tick
    BY <1>6, QuietStep DEF Tick, IInv, ProcType
  <1>7. QED
    BY <1>1, <1>2, <1>3, <1>4, <1>5, <1>6 DEF Next

-------------------------------------------------------------------------------
\* The inductive invariant holds in every reachable state.
THEOREM HostInvariant == Spec => []IInv
  <1>1. Init => IInv
    BY InitIInv
  <1>2. IInv /\ [Next]_vars => IInv'
    BY NextStep
  <1>3. QED
    BY <1>1, <1>2, PTL DEF Spec

\* kill, reap (pty.rs): a process taken out of the registry while it runs
\* always has its killer on the way.
THEOREM RetiredDoomed == Spec => []RetiredIsDoomed
  <1>1. IInv => RetiredIsDoomed
    BY DEF IInv, Doomed, RetiredIsDoomed
  <1>2. QED
    BY <1>1, HostInvariant, PTL

\* shutdown (pty.rs): the daemon leaves no terminal's process behind.
THEOREM NothingLeft == Spec => []NothingLeftBehind
  <1>1. IInv => NothingLeftBehind
    BY DEF IInv, Listed, NothingLeftBehind
  <1>2. QED
    BY <1>1, HostInvariant, PTL

-------------------------------------------------------------------------------
(* Sums *)

\* A set of numbers that is not empty has a least one.
LEMMA Least ==
  ASSUME NEW T \in SUBSET Nat, T # {}
  PROVE  \E x \in T : \A y \in T : x <= y
<1> DEFINE R == {ss \in Nat \X Nat : ss[1] < ss[2]}
<1>1. IsWellFoundedOn(R, Nat)
  BY NatLessThanWellFounded DEF OpToRel
<1>2. PICK x \in T : \A y \in T : <<y, x>> \notin R
  <2> HIDE DEF R
  <2> QED BY <1>1, WFMin
<1>3. \A y \in T : ~(y < x)
  BY <1>2
<1> QED BY <1>2, <1>3

\* Induction, on a set of numbers.
LEMMA Induction ==
  ASSUME NEW S \in SUBSET Nat, 0 \in S, \A n \in S : n + 1 \in S
  PROVE  S = Nat
<1>1. SUFFICES ASSUME Nat \ S # {} PROVE FALSE
  OBVIOUS
<1>2. PICK x \in Nat \ S : \A y \in Nat \ S : x <= y
  BY <1>1, Least
<1>3. x # 0 /\ x - 1 \in Nat /\ x - 1 \notin Nat \ S
  BY <1>2
<1> QED BY <1>2, <1>3

\* f holds the sums of w up to n.
Sums(f, w, n) == f = [k \in 0..n |-> IF k = 0 THEN 0 ELSE f[k - 1] + w[k]]

\* There is a function of the sums ...
LEMMA SumsExist ==
  ASSUME NEW n \in Nat, NEW w
  PROVE  \E f : Sums(f, w, n)
<1> DEFINE T == {m \in Nat : \E f : Sums(f, w, m)}
<1>1. 0 \in T
  <2>1. Sums([k \in 0..0 |-> 0], w, 0)
    BY DEF Sums
  <2> QED
    BY <2>1
<1>2. ASSUME NEW m \in T PROVE m + 1 \in T
  <2>1. PICK f : Sums(f, w, m)
    OBVIOUS
  <2> DEFINE g == [k \in 0..(m + 1) |-> IF k = m + 1 THEN f[m] + w[k] ELSE f[k]]
  <2>2. ASSUME NEW k \in 0..(m + 1)
        PROVE  g[k] = IF k = 0 THEN 0 ELSE g[k - 1] + w[k]
    BY <2>1 DEF Sums
  <2>3. Sums(g, w, m + 1)
    <3> HIDE DEF g
    <3>1. g = [k \in 0..(m + 1) |-> g[k]]
      BY DEF g
    <3> QED
      BY <2>2, <3>1 DEF Sums
  <2> QED
    BY <2>3
<1> HIDE DEF T
<1>3. T = Nat
  BY <1>1, <1>2, Induction DEF T
<1> QED
  BY <1>3 DEF T

\* ... so SumTo is the last value of one ...
LEMMA SumsAre ==
  ASSUME NEW n \in Nat, NEW w
  PROVE  \E f : Sums(f, w, n) /\ SumTo(w, n) = f[n]
<1> DEFINE f == CHOOSE f : Sums(f, w, n)
<1>1. Sums(f, w, n)
  BY SumsExist
<1>2. SumTo(w, n) = f[n]
  BY DEF SumTo, Sums
<1> QED
  BY <1>1, <1>2

\* ... and two of them agree where both are defined.
LEMMA SumsAgree ==
  ASSUME NEW n \in Nat, NEW m \in Nat, NEW w, NEW f, NEW g, Sums(f, w, n), Sums(g, w, m),
         NEW k \in Nat, k <= n, k <= m
  PROVE  f[k] = g[k]
<1> DEFINE T == {i \in Nat : i <= n /\ i <= m => f[i] = g[i]}
<1>1. 0 \in T
  BY DEF Sums
<1>2. ASSUME NEW i \in T PROVE i + 1 \in T
  <2>1. ASSUME i + 1 <= n, i + 1 <= m PROVE f[i + 1] = g[i + 1]
    <3>1. f[i] = g[i]
      BY <2>1
    <3>2. i + 1 \in 0..n /\ i + 1 \in 0..m /\ i + 1 # 0 /\ (i + 1) - 1 = i
      BY <2>1
    <3>3. f[i + 1] = f[i] + w[i + 1] /\ g[i + 1] = g[i] + w[i + 1]
      BY <3>2 DEF Sums
    <3> QED
      BY <3>1, <3>3
  <2> QED
    BY <2>1
<1> HIDE DEF T
<1>3. T = Nat
  BY <1>1, <1>2, Induction DEF T
<1> QED
  BY <1>3 DEF T

\* No number at all.
LEMMA SumNone == ASSUME NEW w PROVE SumTo(w, 0) = 0
<1>1. PICK f : Sums(f, w, 0) /\ SumTo(w, 0) = f[0]
  BY SumsAre
<1> QED
  BY <1>1 DEF Sums

\* One number more.
LEMMA SumNext ==
  ASSUME NEW w, NEW n \in Nat
  PROVE  SumTo(w, n + 1) = SumTo(w, n) + w[n + 1]
<1>1. PICK f : Sums(f, w, n) /\ SumTo(w, n) = f[n]
  BY SumsAre
<1>2. PICK g : Sums(g, w, n + 1) /\ SumTo(w, n + 1) = g[n + 1]
  BY SumsAre
<1>3. f[n] = g[n]
  BY <1>1, <1>2, SumsAgree
<1>4. n + 1 \in 0..(n + 1) /\ n + 1 # 0 /\ (n + 1) - 1 = n
  OBVIOUS
<1>5. g[n + 1] = g[n] + w[n + 1]
  BY <1>2, <1>4 DEF Sums
<1> QED
  BY <1>1, <1>2, <1>3, <1>5

\* Numbers that are natural have a natural sum.
LEMMA SumType ==
  ASSUME NEW n \in Nat, NEW w, \A i \in 1..n : w[i] \in Nat
  PROVE  SumTo(w, n) \in Nat
<1> DEFINE T == {m \in Nat : m <= n => SumTo(w, m) \in Nat}
<1>1. 0 \in T
  BY SumNone
<1>2. ASSUME NEW m \in T PROVE m + 1 \in T
  <2>1. ASSUME m + 1 <= n PROVE SumTo(w, m + 1) \in Nat
    <3>1. SumTo(w, m + 1) = SumTo(w, m) + w[m + 1]
      BY SumNext
    <3>2. SumTo(w, m) \in Nat /\ w[m + 1] \in Nat
      BY <2>1
    <3> QED
      BY <3>1, <3>2
  <2> QED
    BY <2>1
<1> HIDE DEF T
<1>3. T = Nat
  BY <1>1, <1>2, Induction DEF T
<1> QED
  BY <1>3 DEF T

\* The sum of the sums of u and v.
LEMMA SumSplit ==
  ASSUME NEW n \in Nat, NEW w, NEW u, NEW v,
         \A i \in 1..n : u[i] \in Nat /\ v[i] \in Nat /\ w[i] = u[i] + v[i]
  PROVE  SumTo(w, n) = SumTo(u, n) + SumTo(v, n)
<1> DEFINE T == {m \in Nat : m <= n => /\ SumTo(u, m) \in Nat /\ SumTo(v, m) \in Nat
                                      /\ SumTo(w, m) = SumTo(u, m) + SumTo(v, m)}
<1>1. 0 \in T
  BY SumNone
<1>2. ASSUME NEW m \in T PROVE m + 1 \in T
  <2>1. ASSUME m + 1 <= n
        PROVE  /\ SumTo(u, m + 1) \in Nat /\ SumTo(v, m + 1) \in Nat
               /\ SumTo(w, m + 1) = SumTo(u, m + 1) + SumTo(v, m + 1)
    <3>1. /\ SumTo(w, m + 1) = SumTo(w, m) + w[m + 1]
          /\ SumTo(u, m + 1) = SumTo(u, m) + u[m + 1]
          /\ SumTo(v, m + 1) = SumTo(v, m) + v[m + 1]
      BY SumNext
    <3>2. /\ SumTo(u, m) \in Nat /\ SumTo(v, m) \in Nat
          /\ SumTo(w, m) = SumTo(u, m) + SumTo(v, m)
          /\ u[m + 1] \in Nat /\ v[m + 1] \in Nat /\ w[m + 1] = u[m + 1] + v[m + 1]
      BY <2>1
    <3> QED
      BY <3>1, <3>2
  <2> QED
    BY <2>1
<1> HIDE DEF T
<1>3. T = Nat
  BY <1>1, <1>2, Induction DEF T
<1> QED
  BY <1>3 DEF T

\* The sum depends on the numbers alone.
LEMMA SumSame ==
  ASSUME NEW n \in Nat, NEW w, NEW v, \A i \in 1..n : w[i] \in Nat /\ v[i] = w[i]
  PROVE  SumTo(w, n) = SumTo(v, n)
<1> DEFINE T == {m \in Nat : m <= n => SumTo(w, m) = SumTo(v, m)}
<1>1. 0 \in T
  BY SumNone
<1>2. ASSUME NEW m \in T PROVE m + 1 \in T
  <2>1. ASSUME m + 1 <= n PROVE SumTo(w, m + 1) = SumTo(v, m + 1)
    <3>1. /\ SumTo(w, m + 1) = SumTo(w, m) + w[m + 1]
          /\ SumTo(v, m + 1) = SumTo(v, m) + v[m + 1]
      BY SumNext
    <3>2. SumTo(w, m) = SumTo(v, m) /\ v[m + 1] = w[m + 1]
      BY <2>1
    <3> QED
      BY <3>1, <3>2
  <2> QED
    BY <2>1
<1> HIDE DEF T
<1>3. T = Nat
  BY <1>1, <1>2, Induction DEF T
<1> QED
  BY <1>3 DEF T

LEMMA OwnDouble == ASSUME NEW k \in Nat, k = k + k PROVE k = 0
  OBVIOUS

\* Nothing but zeros.
LEMMA SumZero ==
  ASSUME NEW n \in Nat, NEW w, \A i \in 1..n : w[i] = 0
  PROVE  SumTo(w, n) = 0
<1>1. \A i \in 1..n : w[i] \in Nat /\ w[i] = w[i] + w[i]
  OBVIOUS
<1>2. SumTo(w, n) = SumTo(w, n) + SumTo(w, n)
  BY <1>1, SumSplit
<1>3. SumTo(w, n) \in Nat
  BY <1>1, SumType
<1> QED
  BY <1>2, <1>3, OwnDouble, Zenon

\* Only one number counts.
LEMMA SumOne ==
  ASSUME NEW n \in Nat, NEW w, NEW t \in 1..n, w[t] \in Nat,
         \A i \in 1..n : i # t => w[i] = 0
  PROVE  SumTo(w, n) = w[t]
<1> DEFINE T == {m \in Nat : m <= n => SumTo(w, m) = IF t <= m THEN w[t] ELSE 0}
<1>1. 0 \in T
  BY SumNone
<1>2. ASSUME NEW m \in T PROVE m + 1 \in T
  <2>1. ASSUME m + 1 <= n
        PROVE  SumTo(w, m + 1) = IF t <= m + 1 THEN w[t] ELSE 0
    <3>1. SumTo(w, m + 1) = SumTo(w, m) + w[m + 1]
      BY SumNext
    <3>2. SumTo(w, m) = IF t <= m THEN w[t] ELSE 0
      BY <2>1
    <3>3. m + 1 # t => w[m + 1] = 0
      BY <2>1
    <3> QED
      BY <3>1, <3>2, <3>3
  <2> QED
    BY <2>1
<1> HIDE DEF T
<1>3. T = Nat
  BY <1>1, <1>2, Induction DEF T
<1> QED
  BY <1>3 DEF T

\* The first k numbers, and then the others.
LEMMA SumShift ==
  ASSUME NEW k \in Nat, NEW n \in Nat, NEW all \in Nat, all = k + n, NEW w, NEW v,
         \A i \in 1..n : w[k + i] \in Nat /\ v[i] = w[k + i],
         SumTo(w, k) \in Nat
  PROVE  SumTo(w, all) = SumTo(w, k) + SumTo(v, n)
<1> DEFINE T == {m \in Nat : m <= n => /\ SumTo(v, m) \in Nat
                                      /\ SumTo(w, k + m) = SumTo(w, k) + SumTo(v, m)}
<1>1. 0 \in T
  BY SumNone
<1>2. ASSUME NEW m \in T PROVE m + 1 \in T
  <2>1. ASSUME m + 1 <= n
        PROVE  /\ SumTo(v, m + 1) \in Nat
               /\ SumTo(w, k + (m + 1)) = SumTo(w, k) + SumTo(v, m + 1)
    <3>1. SumTo(w, (k + m) + 1) = SumTo(w, k + m) + w[(k + m) + 1]
      BY SumNext
    <3>2. SumTo(v, m + 1) = SumTo(v, m) + v[m + 1]
      BY SumNext
    <3>3. v[m + 1] = w[k + (m + 1)] /\ w[k + (m + 1)] \in Nat
      BY <2>1
    <3>4. k + (m + 1) = (k + m) + 1
      OBVIOUS
    <3>5. SumTo(v, m) \in Nat /\ SumTo(w, k + m) = SumTo(w, k) + SumTo(v, m)
      BY <2>1
    <3> QED
      BY <3>1, <3>2, <3>3, <3>4, <3>5
  <2> QED
    BY <2>1
<1> HIDE DEF T
<1>3. T = Nat
  BY <1>1, <1>2, Induction DEF T
<1>4. SumTo(w, k + n) = SumTo(w, k) + SumTo(v, n)
  BY <1>3 DEF T
<1> QED
  BY <1>4

-------------------------------------------------------------------------------
(* The bytes of blocks *)

\* What a block of a sequence is.
LEMMA BlockAt ==
    ASSUME NEW bs \in Seq(Block)
    PROVE  /\ Len(bs) \in Nat
           /\ \A i \in 1..Len(bs) : bs[i].seq \in Nat /\ bs[i].len \in Nat
<1>1. Len(bs) \in Nat
  BY LenProperties
<1>2. ASSUME NEW i \in 1..Len(bs) PROVE bs[i].seq \in Nat /\ bs[i].len \in Nat
  <2>1. bs[i] \in Block
    BY ElementOfSeq
  <2>2. QED
    BY <2>1 DEF Block
<1>3. QED
  BY <1>1, <1>2

\* Blocks hold a natural number of bytes.
LEMMA TotalIsNat == ASSUME NEW bs \in Seq(Block) PROVE TotalLen(bs) \in Nat
<1> DEFINE w == [i \in 1..Len(bs) |-> bs[i].len]
<1>1. Len(bs) \in Nat /\ \A i \in 1..Len(bs) : w[i] \in Nat
  BY BlockAt
<1>2. TotalLen(bs) = SumTo(w, Len(bs))
  BY DEF TotalLen
<1> HIDE DEF w
<1>3. QED
  BY <1>1, <1>2, SumType

\* No blocks, no bytes.
LEMMA TotalNone == TotalLen(<< >>) = 0
<1>1. Len(<< >>) = 0
  OBVIOUS
<1>2. QED
  BY <1>1, SumNone DEF TotalLen

\* A part of a sequence of blocks.
LEMMA Part ==
    ASSUME NEW bs \in Seq(Block), NEW j \in 1..(Len(bs) + 1), NEW k \in 0..Len(bs), j <= k + 1
    PROVE  /\ SubSeq(bs, j, k) \in Seq(Block)
           /\ Len(SubSeq(bs, j, k)) = (k + 1) - j
           /\ \A i \in 1..((k + 1) - j) : SubSeq(bs, j, k)[i] = bs[(j - 1) + i]
<1>1. Len(bs) \in Nat /\ j \in Int /\ k \in Int
  BY LenProperties
<1>2. \A i \in j..k : bs[i] \in Block
  BY <1>1, ElementOfSeq
<1>3. /\ SubSeq(bs, j, k) \in Seq(Block)
      /\ Len(SubSeq(bs, j, k)) = IF j <= k THEN k - j + 1 ELSE 0
      /\ \A i \in 1..(k - j + 1) : SubSeq(bs, j, k)[i] = bs[j + i - 1]
  BY ONLY <1>1, <1>2, SubSeqProperties
<1>4. Len(SubSeq(bs, j, k)) = (k + 1) - j
  BY <1>1, <1>3
<1>5. ASSUME NEW i \in 1..((k + 1) - j) PROVE SubSeq(bs, j, k)[i] = bs[(j - 1) + i]
  <2>1. i \in 1..(k - j + 1) /\ j + i - 1 = (j - 1) + i
    BY <1>1
  <2>2. QED
    BY <2>1, <1>3
<1>6. QED
  BY <1>3, <1>4, <1>5

\* The blocks up to the k-th and the others hold all the bytes.
LEMMA TotalCut ==
    ASSUME NEW bs \in Seq(Block), NEW k \in 0..Len(bs)
    PROVE  TotalLen(bs) = TotalLen(SubSeq(bs, 1, k)) + TotalLen(SubSeq(bs, k + 1, Len(bs)))
<1> DEFINE n == Len(bs)
           first == SubSeq(bs, 1, k)
           rest == SubSeq(bs, k + 1, n)
           w == [i \in 1..n |-> bs[i].len]
           u == [i \in 1..Len(first) |-> first[i].len]
           v == [i \in 1..Len(rest) |-> rest[i].len]
<1>1. n \in Nat /\ k \in Nat /\ k <= n
  BY LenProperties
<1>2. \A i \in 1..n : w[i] \in Nat
  BY BlockAt
<1>3. Len(first) = k /\ \A i \in 1..k : first[i] = bs[i]
  <2>1. /\ 1 \in 1..(Len(bs) + 1) /\ 1 <= k + 1 /\ (k + 1) - 1 = k
        /\ \A i \in 1..k : (1 - 1) + i = i
    BY <1>1
  <2>2. /\ Len(first) = (k + 1) - 1
        /\ \A i \in 1..((k + 1) - 1) : first[i] = bs[(1 - 1) + i]
    BY <2>1, Part
  <2>3. QED
    BY <2>1, <2>2
<1>4. Len(rest) = n - k /\ \A i \in 1..(n - k) : rest[i] = bs[k + i]
  <2>1. /\ k + 1 \in 1..(Len(bs) + 1) /\ Len(bs) \in 0..Len(bs) /\ k + 1 <= Len(bs) + 1
        /\ (Len(bs) + 1) - (k + 1) = Len(bs) - k /\ (k + 1) - 1 = k
    BY <1>1
  <2>2. /\ Len(rest) = (Len(bs) + 1) - (k + 1)
        /\ \A i \in 1..((Len(bs) + 1) - (k + 1)) : rest[i] = bs[((k + 1) - 1) + i]
    BY <2>1, Part
  <2>3. QED
    BY <2>1, <2>2
<1>5. SumTo(w, k) = SumTo(u, k)
  <2>1. \A i \in 1..k : w[i] \in Nat /\ u[i] = w[i]
    BY <1>1, <1>2, <1>3
  <2> HIDE DEF w, u
  <2>2. QED
    BY <1>1, <2>1, SumSame
<1>6. SumTo(w, n) = SumTo(w, k) + SumTo(v, n - k)
  <2>1. \A i \in 1..(n - k) : k + i \in 1..n
    BY <1>1
  <2>2. \A i \in 1..(n - k) : w[k + i] \in Nat /\ v[i] = w[k + i]
    BY <1>1, <1>2, <1>4, <2>1
  <2>3. \A i \in 1..k : w[i] \in Nat
    BY <1>1, <1>2
  <2> HIDE DEF w, v, n
  <2>4. SumTo(w, k) \in Nat
    BY <1>1, <2>3, SumType
  <2>5. n - k \in Nat
    BY <1>1
  <2> DEFINE m == n - k
  <2>6. m \in Nat /\ \A i \in 1..m : w[k + i] \in Nat /\ v[i] = w[k + i]
    BY <2>2, <2>5
  <2> HIDE DEF m
  <2>7. n = k + m
    BY <1>1 DEF m
  <2>8. SumTo(w, n) = SumTo(w, k) + SumTo(v, m)
    BY <1>1, <2>4, <2>6, <2>7, SumShift
  <2>9. QED
    BY <2>8 DEF m
<1>7. /\ TotalLen(bs) = SumTo(w, n)
      /\ TotalLen(first) = SumTo(u, k) /\ TotalLen(rest) = SumTo(v, n - k)
  BY <1>3, <1>4 DEF TotalLen
<1> HIDE DEF n, first, rest, w, u, v
<1>8. TotalLen(bs) = TotalLen(first) + TotalLen(rest)
  BY <1>5, <1>6, <1>7
<1>9. QED
  BY <1>8 DEF first, rest, n

\* One block more.
LEMMA TotalAppend ==
    ASSUME NEW bs \in Seq(Block), NEW b \in Block
    PROVE  TotalLen(Append(bs, b)) = TotalLen(bs) + b.len
<1> DEFINE n == Len(bs)
           after == Append(bs, b)
           w == [i \in 1..n |-> bs[i].len]
           v == [i \in 1..Len(after) |-> after[i].len]
<1>1. n \in Nat /\ Len(after) = n + 1 /\ after[n + 1] = b /\ \A i \in 1..n : after[i] = bs[i]
  BY AppendProperties, LenProperties
<1>2. v[n + 1] = b.len
  BY <1>1
<1>3. \A i \in 1..n : w[i] \in Nat /\ v[i] = w[i]
  BY <1>1, BlockAt
<1>4. TotalLen(bs) = SumTo(w, n) /\ TotalLen(after) = SumTo(v, n + 1)
  BY <1>1 DEF TotalLen
<1> HIDE DEF n, after, w, v
<1>5. SumTo(v, n + 1) = SumTo(v, n) + v[n + 1]
  BY <1>1, SumNext
<1>6. SumTo(w, n) = SumTo(v, n)
  BY <1>1, <1>3, SumSame
<1>7. QED
  BY <1>2, <1>4, <1>5, <1>6 DEF after

-------------------------------------------------------------------------------
(* One ring *)

\* The byte counter is the bytes of the blocks.
RingOK(r) == r \in Ring /\ r.bytes = TotalLen(r.blocks)

\* A new ring.
LEMMA EmptyRingOK == RingOK(EmptyRing) /\ EmptyRing.bytes = 0
<1>1. << >> \in Seq(Block) /\ 0 \in 0..Capacity
  BY CapacityAssumption
<1>2. QED
  BY <1>1, TotalNone DEF RingOK, Ring, EmptyRing

\* A push keeps the counter exact and within the capacity, and what was
\* pushed is in a ring that took it.
LEMMA PushedOK ==
    ASSUME NEW r, RingOK(r), NEW n \in Nat \ {0}, NEW a \in Pushed(r, n)
    PROVE  RingOK(a) /\ (r.bytes # 0 => a.bytes # 0)
<1>1. /\ r \in Ring /\ r.blocks \in Seq(Block) /\ r.bytes \in 0..Capacity /\ r.nextSeq \in Nat
      /\ r.evictedThrough \in Nat \cup {NoneEvicted} /\ r.bytes = TotalLen(r.blocks)
      /\ Capacity \in Nat
  BY CapacityAssumption DEF RingOK, Ring
<1>2. CASE n > Capacity
  <2>1. a = PushDropped(r)
    BY <1>2 DEF Pushed
  <2>2. r.nextSeq + 1 \in Nat
    BY <1>1
  <2>3. /\ a = [blocks |-> a.blocks, bytes |-> a.bytes, nextSeq |-> a.nextSeq,
                evictedThrough |-> a.evictedThrough]
        /\ a.blocks = r.blocks /\ a.bytes = r.bytes /\ a.nextSeq = r.nextSeq + 1
        /\ a.evictedThrough = r.nextSeq
    BY <1>1, <2>1 DEF PushDropped, Ring
  <2>4. a \in Ring
    BY <1>1, <2>2, <2>3 DEF Ring
  <2>5. QED
    BY <1>1, <2>3, <2>4 DEF RingOK
<1>3. CASE ~(n > Capacity)
  <2>1. PICK k \in 0..Len(r.blocks) : Pops(r, n, k) /\ a = PushKept(r, n, k)
    BY <1>3 DEF Pushed
  <2> DEFINE first == SubSeq(r.blocks, 1, k)
             rest == SubSeq(r.blocks, k + 1, Len(r.blocks))
             b == [seq |-> r.nextSeq, len |-> n]
  <2>2. Len(r.blocks) \in Nat /\ k \in Nat /\ b \in Block /\ b.len = n
    BY <1>1, LenProperties DEF Block
  <2>3. first \in Seq(Block) /\ rest \in Seq(Block)
    <3>1. /\ 1 \in 1..(Len(r.blocks) + 1) /\ 1 <= k + 1 /\ k + 1 \in 1..(Len(r.blocks) + 1)
          /\ Len(r.blocks) \in 0..Len(r.blocks) /\ k + 1 <= Len(r.blocks) + 1
      BY <2>2
    <3>2. QED
      BY <1>1, <3>1, Part
  <2>4. TotalLen(r.blocks) = TotalLen(first) + TotalLen(rest)
    BY <1>1, TotalCut
  <2>5. TotalLen(first) \in Nat /\ TotalLen(rest) \in Nat
    BY <2>3, TotalIsNat
  <2>6. /\ a.blocks = Append(rest, b) /\ a.bytes = r.bytes - TotalLen(first) + n
        /\ a.nextSeq = r.nextSeq + 1
        /\ a = [blocks |-> a.blocks, bytes |-> a.bytes, nextSeq |-> a.nextSeq,
                evictedThrough |-> a.evictedThrough]
        /\ a.evictedThrough = IF k = 0 THEN r.evictedThrough ELSE r.blocks[k].seq
    BY <2>1 DEF PushKept
  <2>7. r.bytes - TotalLen(first) + n <= Capacity
    <3>1. CASE Fits(r, n, k)
      BY <3>1 DEF Fits
    <3>2. CASE k = Len(r.blocks)
      <4>1. rest = << >>
        BY <1>1, <2>2, <3>2, EmptySeq
      <4>2. TotalLen(rest) = 0
        BY <4>1, TotalNone
      <4> HIDE DEF first, rest
      <4>3. QED
        BY <4>2, <2>4, <2>5, <1>1, <1>3
    <3>3. QED
      BY <2>1, <3>1, <3>2 DEF Pops
  <2>8. TotalLen(a.blocks) = TotalLen(rest) + n /\ a.blocks \in Seq(Block)
    <3> HIDE DEF rest, b
    <3>1. TotalLen(Append(rest, b)) = TotalLen(rest) + b.len
      BY <2>2, <2>3, TotalAppend
    <3>2. Append(rest, b) \in Seq(Block)
      BY <2>2, <2>3, AppendProperties
    <3>3. QED
      BY <2>2, <2>6, <3>1, <3>2
  <2>9. a.evictedThrough \in Nat \cup {NoneEvicted}
    <3>1. k # 0 => k \in 1..Len(r.blocks)
      BY <2>2
    <3>2. k # 0 => r.blocks[k].seq \in Nat
      BY <1>1, <3>1, BlockAt
    <3>3. QED
      BY <1>1, <2>6, <3>2
  <2> HIDE DEF first, rest, b
  <2>10. a.bytes = TotalLen(rest) + n /\ a.bytes \in 0..Capacity /\ a.bytes # 0
    BY <1>1, <2>4, <2>5, <2>6, <2>7, SMTT(30)
  <2>11. a \in Ring
    <3>1. a.nextSeq \in Nat
      BY <1>1, <2>6
    <3>2. QED
      BY <2>6, <2>8, <2>9, <2>10, <3>1 DEF Ring
  <2>12. QED
    BY <2>8, <2>10, <2>11 DEF RingOK
<1>4. QED
  BY <1>2, <1>3

\* A ring that has been cleared.
LEMMA ClearOK == ASSUME NEW r, RingOK(r) PROVE RingOK(Clear(r)) /\ Clear(r).bytes = 0
<1>1. /\ r \in Ring /\ r.blocks \in Seq(Block)
      /\ r.evictedThrough \in Nat \cup {NoneEvicted}
  BY DEF RingOK, Ring
<1>2. r.blocks # << >> => r.blocks[Len(r.blocks)].seq \in Nat
  <2>1. r.blocks # << >> => Len(r.blocks) \in 1..Len(r.blocks)
    BY <1>1, LenProperties, EmptySeq
  <2>2. QED
    BY <1>1, <2>1, BlockAt
<1>3. /\ << >> \in Seq(Block) /\ 0 \in 0..Capacity
  BY CapacityAssumption
<1>4. Clear(r) \in Ring /\ Clear(r).bytes = 0 /\ Clear(r).blocks = << >>
  BY <1>1, <1>2, <1>3 DEF Clear, Ring
<1>5. QED
  BY <1>4, TotalNone DEF RingOK

-------------------------------------------------------------------------------
(* The bytes of sets of terminals *)

\* Rings by terminal, as far as the accounting looks at them.
Counting(r) == \A t \in Term : r[t].bytes \in Nat

\* Terminals hold a natural number of bytes.
LEMMA BytesIsNat == ASSUME NEW S, NEW r, Counting(r) PROVE Bytes(S, r) \in Nat
<1> DEFINE w == [t \in Term |-> IF t \in S THEN r[t].bytes ELSE 0]
<1>1. NumTerms \in Nat /\ \A t \in 1..NumTerms : w[t] \in Nat
  BY HostAssumption DEF Counting, Term
<1>2. Bytes(S, r) = SumTo(w, NumTerms)
  BY DEF Bytes
<1> HIDE DEF w
<1>3. QED
  BY <1>1, <1>2, SumType

\* Terminals that hold as many bytes in both count as many.
LEMMA BytesSame ==
    ASSUME NEW S, NEW T, NEW r, NEW s, Counting(r),
           \A t \in Term : (IF t \in S THEN r[t].bytes ELSE 0) = (IF t \in T THEN s[t].bytes ELSE 0)
    PROVE  Bytes(S, r) = Bytes(T, s)
<1> DEFINE w == [t \in Term |-> IF t \in S THEN r[t].bytes ELSE 0]
           v == [t \in Term |-> IF t \in T THEN s[t].bytes ELSE 0]
<1>1. NumTerms \in Nat /\ \A t \in 1..NumTerms : w[t] \in Nat /\ v[t] = w[t]
  BY HostAssumption DEF Counting, Term
<1>2. Bytes(S, r) = SumTo(w, NumTerms) /\ Bytes(T, s) = SumTo(v, NumTerms)
  BY DEF Bytes
<1> HIDE DEF w, v
<1>3. QED
  BY <1>1, <1>2, SumSame

\* Terminals with empty rings hold nothing.
LEMMA BytesZero ==
    ASSUME NEW S, NEW r, \A t \in Term : t \in S => r[t].bytes = 0
    PROVE  Bytes(S, r) = 0
<1> DEFINE w == [t \in Term |-> IF t \in S THEN r[t].bytes ELSE 0]
<1>1. NumTerms \in Nat /\ \A t \in 1..NumTerms : w[t] = 0
  BY HostAssumption DEF Term
<1>2. Bytes(S, r) = SumTo(w, NumTerms)
  BY DEF Bytes
<1> HIDE DEF w
<1>3. QED
  BY <1>1, <1>2, SumZero

\* One terminal holds what its ring does.
LEMMA BytesOne ==
    ASSUME NEW t \in Term, NEW r, Counting(r)
    PROVE  Bytes({t}, r) = r[t].bytes
<1> DEFINE w == [u \in Term |-> IF u \in {t} THEN r[u].bytes ELSE 0]
<1>1. /\ NumTerms \in Nat /\ t \in 1..NumTerms
      /\ w[t] = r[t].bytes /\ w[t] \in Nat
      /\ \A u \in 1..NumTerms : u # t => w[u] = 0
  BY HostAssumption DEF Counting, Term
<1>2. Bytes({t}, r) = SumTo(w, NumTerms)
  BY DEF Bytes
<1> HIDE DEF w
<1>3. QED
  BY <1>1, <1>2, SumOne

\* A part of a set and the rest of it.
LEMMA BytesSplit ==
    ASSUME NEW S, NEW T, NEW r, Counting(r), T \subseteq S
    PROVE  Bytes(S, r) = Bytes(T, r) + Bytes(S \ T, r)
<1> DEFINE w == [t \in Term |-> IF t \in S THEN r[t].bytes ELSE 0]
           u == [t \in Term |-> IF t \in T THEN r[t].bytes ELSE 0]
           v == [t \in Term |-> IF t \in S \ T THEN r[t].bytes ELSE 0]
<1>1. /\ NumTerms \in Nat
      /\ \A t \in 1..NumTerms : u[t] \in Nat /\ v[t] \in Nat /\ w[t] = u[t] + v[t]
  BY HostAssumption DEF Counting, Term
<1>2. /\ Bytes(S, r) = SumTo(w, NumTerms) /\ Bytes(T, r) = SumTo(u, NumTerms)
      /\ Bytes(S \ T, r) = SumTo(v, NumTerms)
  BY DEF Bytes
<1> HIDE DEF w, u, v
<1>3. QED
  BY <1>1, <1>2, SumSplit

\* saturating_sub never goes below zero, nor below the difference.
LEMMA Subtraction ==
    ASSUME NEW a \in Nat, NEW b \in Nat
    PROVE  Minus(a, b) \in Nat /\ Minus(a, b) >= a - b /\ (a >= b => Minus(a, b) = a - b)
BY DEF Minus

-------------------------------------------------------------------------------
(* The accounting *)

\* An eviction under way has emptied every terminal it has come past, and
\* comes past one only after it has looked at all; nobody evicts while the
\* host lock is free.
Underway ==
    /\ unread # {} => uncleared = terms
    /\ evictor # Nobody => \A t \in terms \ uncleared : ring[t].bytes = 0
    /\ HostLockFree => uncleared = {}

\* The byte counter of each ring is exact, and the host's total is not below
\* what the registered terminals hold; a terminal that was never created
\* holds nothing.
Accounts ==
    /\ TypeOK
    /\ \A t \in Term : RingOK(ring[t])
    /\ \A t \in Term : proc[t] = "unborn" => t \notin terms /\ ring[t].bytes = 0
    /\ Bytes(terms, ring) <= totalBytes
    /\ Underway
    /\ BudgetHard

\* What the accounts say of the counters.
LEMMA Counted == ASSUME Accounts PROVE Counting(ring) /\ totalBytes \in Nat
<1>1. ASSUME NEW t \in Term PROVE ring[t].bytes \in Nat
  <2>1. ring[t] \in Ring /\ Capacity \in Nat
    BY CapacityAssumption DEF Accounts, TypeOK
  <2>2. QED
    BY <2>1 DEF Ring
<1>2. QED
  BY <1>1 DEF Counting, Accounts, TypeOK

\* A step that changes one registered terminal's ring changes what all hold
\* by as much.
LEMMA OneRing ==
    ASSUME Accounts, NEW t \in terms, NEW r, RingOK(r), ring' = [ring EXCEPT ![t] = r]
    PROVE  /\ ring' \in [Term -> Ring] /\ \A u \in Term : RingOK(ring'[u])
           /\ r.bytes \in Nat /\ ring[t].bytes \in Nat /\ ring[t].bytes <= Bytes(terms, ring)
           /\ Bytes(terms, ring) \in Nat
           /\ Bytes(terms, ring') = Bytes(terms, ring) - ring[t].bytes + r.bytes
<1>1. /\ ring \in [Term -> Ring] /\ t \in Term /\ terms \subseteq Term
      /\ r \in Ring /\ Capacity \in Nat
  BY CapacityAssumption DEF Accounts, TypeOK, RingOK
<1>2. /\ ring' \in [Term -> Ring] /\ ring'[t] = r
      /\ \A u \in Term : u # t => ring'[u] = ring[u]
  BY <1>1
<1>3. \A u \in Term : RingOK(ring'[u])
  BY <1>2 DEF Accounts
<1>4. Counting(ring)
  BY Counted
<1>5. Counting(ring')
  <2>1. ASSUME NEW u \in Term PROVE ring'[u].bytes \in Nat
    <3>1. ring'[u] \in Ring
      BY <1>2
    <3>2. QED
      BY <1>1, <3>1 DEF Ring
  <2>2. QED
    BY <2>1 DEF Counting
<1>6. /\ Bytes(terms, ring) = Bytes({t}, ring) + Bytes(terms \ {t}, ring)
      /\ Bytes(terms, ring') = Bytes({t}, ring') + Bytes(terms \ {t}, ring')
  BY <1>4, <1>5, BytesSplit
<1>7. Bytes({t}, ring) = ring[t].bytes /\ Bytes({t}, ring') = r.bytes
  BY <1>1, <1>2, <1>4, <1>5, BytesOne
<1>8. Bytes(terms \ {t}, ring) = Bytes(terms \ {t}, ring')
  <2> DEFINE rest == terms \ {t}
             after == ring'
  <2>1. \A u \in Term : (IF u \in rest THEN ring[u].bytes ELSE 0)
                            = (IF u \in rest THEN after[u].bytes ELSE 0)
    BY <1>2
  <2> HIDE DEF rest, after
  <2>2. Bytes(rest, ring) = Bytes(rest, after)
    BY <1>4, <2>1, BytesSame
  <2>3. QED
    BY <2>2 DEF rest, after
<1>9. ring[t].bytes \in Nat /\ r.bytes \in Nat /\ Bytes(terms \ {t}, ring) \in Nat
  BY <1>1, <1>2, <1>4, <1>5, BytesIsNat DEF Counting
<1>10. QED
  BY <1>2, <1>3, <1>6, <1>7, <1>8, <1>9

\* Output is buffered and accounted: the counters stay exact and the total
\* high enough, and an eviction begins unless it is within the budget.
LEMMA PushAccounts ==
    ASSUME Accounts, NEW t \in Term, NEW n \in BlockLens, PushOutput(t, n)
    PROVE  Accounts' /\ \A u \in Term : ring[u].bytes # 0 => ring'[u].bytes # 0
<1>1. PICK after \in Pushed(ring[t], n) :
         /\ ring' = [ring EXCEPT ![t] = after]
         /\ totalBytes' = totalBytes + Minus(after.bytes, ring[t].bytes)
  BY DEF PushOutput
<1>2. /\ UNCHANGED <<terms, proc, link, exitedAt, watchdog, killing, reclaimed, daemon, picture>>
      /\ HostLockFree /\ t \in terms
      /\ IF totalBytes' <= Budget THEN UNCHANGED eviction
         ELSE evictor' = t /\ unread' = terms /\ uncleared' = terms
  BY DEF PushOutput, Live, eviction
<1>3. TypeOK /\ n \in Nat \ {0} /\ Budget \in Nat /\ ring \in [Term -> Ring]
  BY HostAssumption DEF Accounts, TypeOK
<1>4. RingOK(after) /\ (ring[t].bytes # 0 => after.bytes # 0)
  <2>1. RingOK(ring[t])
    BY DEF Accounts
  <2>2. QED
    BY <1>3, <2>1, PushedOK
<1>5. /\ ring' \in [Term -> Ring] /\ \A u \in Term : RingOK(ring'[u])
      /\ after.bytes \in Nat /\ ring[t].bytes \in Nat /\ ring[t].bytes <= Bytes(terms, ring)
      /\ Bytes(terms, ring) \in Nat
      /\ Bytes(terms, ring') = Bytes(terms, ring) - ring[t].bytes + after.bytes
  BY <1>1, <1>2, <1>4, OneRing
<1>6. /\ Minus(after.bytes, ring[t].bytes) \in Nat
      /\ Minus(after.bytes, ring[t].bytes) >= after.bytes - ring[t].bytes
  BY <1>5, Subtraction
<1>7. totalBytes \in Nat /\ Bytes(terms, ring) <= totalBytes
  BY Counted DEF Accounts
<1>8. totalBytes' \in Nat /\ Bytes(terms, ring') <= totalBytes'
  BY <1>1, <1>5, <1>6, <1>7
<1>9. uncleared = {} /\ unread = {}
  BY <1>2, <1>3 DEF Accounts, Underway, TypeOK
<1>10. t # Nobody
  BY DEF Term, Nobody
<1>11. TypeOK'
  BY <1>2, <1>3, <1>5, <1>8, <1>9 DEF TypeOK, link, eviction, daemon
<1>12. \A u \in Term : proc'[u] = "unborn" => u \notin terms' /\ ring'[u].bytes = 0
  <2>1. ASSUME NEW u \in Term, proc'[u] = "unborn" PROVE u \notin terms' /\ ring'[u].bytes = 0
    <3>1. u \notin terms /\ ring[u].bytes = 0
      BY <1>2, <2>1 DEF Accounts
    <3>2. u # t
      BY <1>2, <3>1
    <3>3. QED
      BY <1>1, <1>2, <1>3, <3>1, <3>2
  <2>2. QED
    BY <2>1
<1>13. Underway' /\ BudgetHard'
  <2>1. CASE totalBytes' <= Budget
    <3>1. UNCHANGED <<evictor, unread, uncleared>>
      BY <1>2, <2>1 DEF eviction
    <3>2. evictor' = Nobody /\ unread' = {} /\ uncleared' = {}
      BY <1>2, <1>9, <3>1 DEF HostLockFree
    <3>3. Underway'
      BY <3>2 DEF Underway, HostLockFree
    <3>4. Bytes(terms, ring') \in Nat
      BY <1>5
    <3>5. Bytes(terms, ring') <= Budget
      BY <1>3, <1>8, <2>1, <3>4
    <3>6. QED
      BY <1>2, <3>3, <3>5 DEF BudgetHard
  <2>2. CASE ~(totalBytes' <= Budget)
    <3>1. evictor' = t /\ unread' = terms' /\ uncleared' = terms'
      BY <1>2, <2>2
    <3>2. QED
      BY <1>10, <3>1 DEF Underway, HostLockFree, BudgetHard
  <2>3. QED
    BY <2>1, <2>2
<1>14. \A u \in Term : ring[u].bytes # 0 => ring'[u].bytes # 0
  BY <1>1, <1>3, <1>4
<1>15. Bytes(terms', ring') <= totalBytes'
  BY <1>2, <1>8
<1>16. QED
  BY <1>5, <1>11, <1>12, <1>13, <1>14, <1>15 DEF Accounts

\* The next candidate's ring is emptied and taken off the total; when nobody
\* is left, every ring is empty.
LEMMA ClearAccounts ==
    ASSUME Accounts, NEW t \in Term, EvictClear(t)
    PROVE  Accounts' /\ \A u \in Term : u # t => ring'[u] = ring[u]
<1> DEFINE after == IF ring[t].bytes = 0 THEN ring[t] ELSE Clear(ring[t])
<1>1. /\ ring' = [ring EXCEPT ![t] = after]
      /\ totalBytes' = Minus(totalBytes, ring[t].bytes)
      /\ UNCHANGED <<terms, proc, link, exitedAt, unread, watchdog, killing, reclaimed, daemon>>
      /\ t \in uncleared /\ unread = {}
      /\ IF uncleared = {t} \/ totalBytes' <= Budget
         THEN evictor' = Nobody /\ uncleared' = {} /\ picture' = NoPicture
         ELSE uncleared' = uncleared \ {t} /\ UNCHANGED <<evictor, picture>>
  <2>1. TypeOK /\ ring \in [Term -> Ring]
    BY DEF Accounts, TypeOK
  <2>2. QED
    BY <2>1 DEF EvictClear
<1>2. TypeOK /\ t \in terms /\ Budget \in Nat /\ ring \in [Term -> Ring] /\ evictor # Nobody
  BY <1>1, HostAssumption DEF Accounts, TypeOK, Underway, HostLockFree
<1>3. RingOK(after) /\ after.bytes = 0
  <2>1. RingOK(ring[t])
    BY DEF Accounts
  <2>2. RingOK(Clear(ring[t])) /\ Clear(ring[t]).bytes = 0
    BY <2>1, ClearOK
  <2>3. QED
    BY <2>1, <2>2
<1> HIDE DEF after
<1>4. /\ ring' \in [Term -> Ring] /\ \A u \in Term : RingOK(ring'[u])
      /\ after.bytes \in Nat /\ ring[t].bytes \in Nat /\ ring[t].bytes <= Bytes(terms, ring)
      /\ Bytes(terms, ring) \in Nat
      /\ Bytes(terms, ring') = Bytes(terms, ring) - ring[t].bytes + after.bytes
  BY <1>1, <1>2, <1>3, OneRing
<1>5. /\ Minus(totalBytes, ring[t].bytes) \in Nat
      /\ Minus(totalBytes, ring[t].bytes) >= totalBytes - ring[t].bytes
      /\ totalBytes \in Nat /\ Bytes(terms, ring) <= totalBytes
  BY <1>4, Subtraction, Counted DEF Accounts
<1>6. totalBytes' \in Nat /\ Bytes(terms, ring') <= totalBytes'
  BY <1>1, <1>3, <1>4, <1>5
<1>7. ring'[t].bytes = 0 /\ \A u \in Term : u # t => ring'[u] = ring[u]
  BY <1>1, <1>2, <1>3
<1>8. NoPicture \in [Term -> [attached : BOOLEAN, since : 0..MaxNow \cup {Never}]]
  BY DEF NoPicture
<1>9. TypeOK'
  BY <1>1, <1>2, <1>4, <1>6, <1>8 DEF TypeOK, link, daemon
<1>10. \A u \in Term : proc'[u] = "unborn" => u \notin terms' /\ ring'[u].bytes = 0
  BY <1>1, <1>7 DEF Accounts
<1>11. \A u \in terms \ uncleared : ring'[u].bytes = 0
  BY <1>2, <1>7 DEF Accounts, Underway, TypeOK
<1>12. Underway' /\ BudgetHard'
  <2>1. CASE uncleared = {t} \/ totalBytes' <= Budget
    <3>1. evictor' = Nobody /\ uncleared' = {} /\ unread' = {}
      BY <1>1, <2>1
    <3>2. Bytes(terms, ring') <= Budget
      <4>1. CASE uncleared = {t}
        <5>1. \A u \in Term : u \in terms => ring'[u].bytes = 0
          BY <1>7, <1>11, <4>1
        <5>2. QED
          BY <1>2, <5>1, BytesZero
      <4>2. CASE totalBytes' <= Budget
        <5>1. Bytes(terms, ring') \in Nat
          BY <1>3, <1>4
        <5>2. QED
          BY <1>2, <1>6, <4>2, <5>1
      <4>3. QED
        BY <2>1, <4>1, <4>2
    <3>3. QED
      BY <1>1, <3>1, <3>2 DEF Underway, BudgetHard, HostLockFree
  <2>2. CASE ~(uncleared = {t} \/ totalBytes' <= Budget)
    <3>1. /\ evictor' # Nobody /\ uncleared' = uncleared \ {t} /\ unread' = {}
          /\ terms' = terms
      BY <1>1, <1>2, <2>2
    <3>2. \A u \in terms \ (uncleared \ {t}) : ring'[u].bytes = 0
      BY <1>7, <1>11
    <3>3. QED
      BY <3>1, <3>2 DEF Underway, BudgetHard, HostLockFree
  <2>3. QED
    BY <2>1, <2>2
<1>13. Bytes(terms', ring') <= totalBytes'
  BY <1>1, <1>6
<1>14. QED
  BY <1>4, <1>7, <1>9, <1>10, <1>12, <1>13 DEF Accounts

\* Removing terminals takes what they hold off the total.
LEMMA RemoveAccounts ==
    ASSUME Accounts, NEW S, RemoveTerms(S)
    PROVE  /\ terms' \subseteq Term /\ totalBytes' \in Nat
           /\ Bytes(terms', ring) <= totalBytes' /\ Bytes(terms', ring) <= Budget
           /\ terms' \subseteq terms
           /\ HostLockFree /\ unread = {} /\ uncleared = {}
<1> DEFINE G == S \cap terms
<1>1. /\ terms' = terms \ G /\ totalBytes' = Minus(totalBytes, Bytes(G, ring))
      /\ G \subseteq terms /\ terms \subseteq Term
      /\ Bytes(terms, ring) <= totalBytes /\ Bytes(terms, ring) <= Budget
      /\ HostLockFree /\ unread = {} /\ uncleared = {}
  BY DEF RemoveTerms, Accounts, TypeOK, BudgetHard, Underway
<1> HIDE DEF G
<1>2. Counting(ring) /\ totalBytes \in Nat /\ Budget \in Nat
  BY Counted, HostAssumption
<1>3. Bytes(terms, ring) = Bytes(G, ring) + Bytes(terms \ G, ring)
  BY <1>1, <1>2, BytesSplit
<1>4. Bytes(G, ring) \in Nat /\ Bytes(terms \ G, ring) \in Nat
  BY <1>2, BytesIsNat
<1>5. Minus(totalBytes, Bytes(G, ring)) \in Nat
      /\ Minus(totalBytes, Bytes(G, ring)) >= totalBytes - Bytes(G, ring)
  BY <1>2, <1>4, Subtraction
<1>6. QED
  BY <1>1, <1>2, <1>3, <1>4, <1>5

\* The accounts of a new daemon.
LEMMA InitAccounts == Init => Accounts
<1> SUFFICES ASSUME Init PROVE Accounts
  OBVIOUS
<1>1. /\ \A t \in Term : ring[t] = EmptyRing /\ RingOK(ring[t]) /\ ring[t].bytes = 0
      /\ ring \in [Term -> Ring]
  BY EmptyRingOK DEF Init, RingOK
<1>2. Bytes(terms, ring) = 0
  BY <1>1, BytesZero
<1>3. Budget \in Nat /\ 0 \in 0..MaxNow
  BY HostAssumption
<1>4. TypeOK
  BY <1>1, <1>3 DEF Init, TypeOK, NoPicture
<1>5. QED
  BY <1>1, <1>2, <1>3, <1>4 DEF Init, Accounts, BudgetHard, Underway

\* A step that leaves the rings alone keeps the accounts.
LEMMA SameRings ==
    ASSUME Accounts, TypeOK', UNCHANGED <<terms, ring, totalBytes, eviction>>,
           \A t \in Term : proc'[t] = "unborn" => proc[t] = "unborn"
    PROVE  Accounts'
BY DEF Accounts, BudgetHard, Bytes, Underway, HostLockFree, eviction

\* terminate and the other ends of a process bring nobody back to unborn.
LEMMA TerminateType ==
    ASSUME TypeOK, NEW S, S \subseteq Term, Terminate(S)
    PROVE  /\ proc' \in [Term -> {"unborn", "running", "dead", "abandoned"}]
           /\ watchdog' \subseteq Term
           /\ \A t \in Term : proc'[t] = "unborn" => proc[t] = "unborn"
BY DEF Terminate, TypeOK

\* Every step of the daemon keeps the accounts.
LEMMA NextAccounts == ASSUME Accounts, [Next]_vars PROVE Accounts'
<1> USE DEF Never
<1>1. TypeOK
  BY DEF Accounts
<1>2. CASE UNCHANGED vars
  <2>1. TypeOK'
    BY <1>1, <1>2 DEF TypeOK, vars, link, eviction, daemon
  <2>2. QED
    BY <1>2, <2>1, SameRings DEF vars
<1>3. ASSUME NEW t \in Term, NEW c \in Clients, Create(t, c) PROVE Accounts'
  <2>1. TypeOK' /\ UNCHANGED eviction /\ evictor = Nobody
    BY <1>1, <1>3 DEF TypeOK, Create, link, eviction, daemon, HostLockFree
  <2>2. /\ terms' = terms \cup {t} /\ ring' = ring /\ totalBytes' = totalBytes
        /\ ring[t].bytes = 0 /\ terms \subseteq Term
        /\ \A u \in Term : proc'[u] = "unborn" => proc[u] = "unborn"
    BY <1>1, <1>3 DEF Accounts, TypeOK, Create
  <2>3. Bytes(terms', ring') = Bytes(terms, ring)
    <3>1. \A u \in Term : (IF u \in terms THEN ring[u].bytes ELSE 0)
                              = (IF u \in terms \cup {t} THEN ring[u].bytes ELSE 0)
      BY <2>2
    <3>2. Bytes(terms, ring) = Bytes(terms \cup {t}, ring)
      BY <3>1, Counted, BytesSame
    <3>3. QED
      BY <2>2, <3>2
  <2>4. \A u \in Term : proc'[u] = "unborn" => u # t
    BY <1>1, <1>3 DEF TypeOK, Create
  <2>5. Underway'
    BY <1>1, <2>1 DEF Accounts, Underway, HostLockFree, eviction, TypeOK
  <2>6. BudgetHard'
    BY <2>1, <2>3 DEF Accounts, BudgetHard, HostLockFree
  <2>7. QED
    BY <2>1, <2>2, <2>3, <2>4, <2>5, <2>6 DEF Accounts
<1>4. ASSUME NEW t \in Term, CreateFails(t) PROVE Accounts'
  <2>1. TypeOK'
    BY <1>1, <1>4 DEF TypeOK, CreateFails, link, eviction, daemon
  <2>2. QED
    BY <1>1, <1>4, <2>1, SameRings DEF CreateFails, TypeOK
<1>5. ASSUME NEW t \in Term, NEW c \in Clients, Attach(t, c) \/ Detach(t, c) PROVE Accounts'
  <2>1. TypeOK'
    BY <1>1, <1>5, ZenonT(60) DEF TypeOK, Attach, Detach, eviction, daemon
  <2>2. QED
    BY <1>5, <2>1, SameRings DEF Attach, Detach
<1>6. ASSUME NEW t \in Term, NEW n \in BlockLens, PushOutput(t, n) PROVE Accounts'
  BY <1>6, PushAccounts
<1>7. ASSUME NEW t \in Term, Die(t) \/ ReaderExit(t) \/ WatchdogFires(t) PROVE Accounts'
  <2>1. /\ TypeOK'
        /\ UNCHANGED <<terms, ring, totalBytes, eviction>>
        /\ \A u \in Term : proc'[u] = "unborn" => proc[u] = "unborn"
    BY <1>1, <1>7 DEF TypeOK, Die, ReaderExit, WatchdogFires, link, eviction, daemon
  <2>2. QED
    BY <2>1, SameRings
<1>8. ASSUME NEW t \in Term, RemoveExited(t) \/ KillRemove(t) PROVE Accounts'
  <2>1. RemoveTerms({t}) /\ UNCHANGED <<ring, proc, eviction>>
    BY <1>8 DEF RemoveExited, KillRemove
  <2>2. /\ terms' \subseteq Term /\ totalBytes' \in Nat
        /\ Bytes(terms', ring) <= totalBytes' /\ Bytes(terms', ring) <= Budget
        /\ terms' \subseteq terms
        /\ HostLockFree /\ unread = {} /\ uncleared = {}
    BY <2>1, RemoveAccounts
  <2>3. TypeOK'
    BY <1>1, <1>8, <2>2 DEF TypeOK, RemoveExited, KillRemove, link, eviction, daemon
  <2>4. QED
    BY <2>1, <2>2, <2>3 DEF Accounts, BudgetHard, Underway, HostLockFree, eviction
<1>9. ASSUME NEW t \in Term, KillSignal(t) PROVE Accounts'
  <2>1. /\ proc' \in [Term -> {"unborn", "running", "dead", "abandoned"}]
        /\ watchdog' \subseteq Term
        /\ \A u \in Term : proc'[u] = "unborn" => proc[u] = "unborn"
    BY <1>1, <1>9, TerminateType DEF KillSignal
  <2>2. TypeOK'
    BY <1>1, <1>9, <2>1 DEF TypeOK, KillSignal, link, eviction, daemon
  <2>3. QED
    BY <1>9, <2>1, <2>2, SameRings DEF KillSignal
<1>10. CASE Reap
  <2>1. PICK S : S \subseteq terms /\ RemoveTerms(S) /\ reclaimed' \subseteq S
    BY <1>10 DEF Reap
  <2>2. UNCHANGED <<ring, proc, eviction>>
    BY <1>10 DEF Reap
  <2>3. /\ terms' \subseteq Term /\ totalBytes' \in Nat
        /\ Bytes(terms', ring) <= totalBytes' /\ Bytes(terms', ring) <= Budget
        /\ terms' \subseteq terms
        /\ HostLockFree /\ unread = {} /\ uncleared = {}
    BY <2>1, RemoveAccounts
  <2>4. TypeOK'
    BY <1>1, <1>10, <2>1, <2>3 DEF TypeOK, Reap, link, eviction, daemon
  <2>5. QED
    BY <2>2, <2>3, <2>4 DEF Accounts, BudgetHard, Underway, HostLockFree, eviction
<1>11. CASE ReapSignal
  <2>1. /\ proc' \in [Term -> {"unborn", "running", "dead", "abandoned"}]
        /\ watchdog' \subseteq Term
        /\ \A u \in Term : proc'[u] = "unborn" => proc[u] = "unborn"
    <3>1. reclaimed \subseteq Term /\ Terminate(reclaimed)
      BY <1>1, <1>11 DEF ReapSignal, TypeOK
    <3>2. QED
      BY <1>1, <3>1, TerminateType
  <2>2. TypeOK'
    BY <1>1, <1>11, <2>1 DEF TypeOK, ReapSignal, link, eviction, daemon
  <2>3. QED
    BY <1>11, <2>1, <2>2, SameRings DEF ReapSignal
<1>12. CASE ShutdownHup
  <2>1. ShutdownSet \subseteq Term /\ Terminate(ShutdownSet)
    BY <1>1, <1>12 DEF ShutdownHup, ShutdownSet, Retiring, TypeOK
  <2>2. /\ proc' \in [Term -> {"unborn", "running", "dead", "abandoned"}]
        /\ watchdog' \subseteq Term
        /\ \A u \in Term : proc'[u] = "unborn" => proc[u] = "unborn"
    BY <1>1, <2>1, TerminateType
  <2>3. TypeOK'
    BY <1>1, <1>12, <2>1, <2>2 DEF TypeOK, ShutdownHup, link, eviction
  <2>4. QED
    BY <1>12, <2>2, <2>3, SameRings DEF ShutdownHup
<1>13. CASE ShutdownForce \/ ShutdownDone
  <2>1. /\ TypeOK'
        /\ UNCHANGED <<terms, ring, totalBytes, eviction>>
        /\ \A u \in Term : proc'[u] = "unborn" => proc[u] = "unborn"
    BY <1>1, <1>13 DEF TypeOK, ShutdownForce, ShutdownDone, link, eviction
  <2>2. QED
    BY <2>1, SameRings
<1>14. CASE Tick
  <2>1. now' \in 0..MaxNow
    BY <1>1, <1>14, HostAssumption DEF TypeOK, Tick
  <2>2. TypeOK'
    BY <1>1, <1>14, <2>1 DEF TypeOK, Tick, link, eviction
  <2>3. QED
    BY <1>14, <2>2, SameRings DEF Tick
<1>15. ASSUME NEW t \in Term, EvictRead(t) PROVE Accounts'
  <2>1. /\ UNCHANGED <<terms, proc, ring, totalBytes, evictor, uncleared>>
        /\ t \in unread /\ unread' = unread \ {t}
    BY <1>15 DEF EvictRead
  <2>2. TypeOK'
    BY <1>1, <1>15 DEF TypeOK, EvictRead, link, daemon
  <2>3. Underway'
    BY <2>1 DEF Accounts, Underway, HostLockFree
  <2>4. QED
    BY <2>1, <2>2, <2>3 DEF Accounts, BudgetHard, HostLockFree, Bytes
<1>16. ASSUME NEW t \in Term, EvictClear(t) PROVE Accounts'
  BY <1>16, ClearAccounts
<1>17. QED
  BY <1>2, <1>3, <1>4, <1>5, <1>6, <1>7, <1>8, <1>9, <1>10, <1>11, <1>12, <1>13, <1>14,
     <1>15, <1>16 DEF Next

-------------------------------------------------------------------------------
\* The types, the exact counters and the bound hold in every reachable state.
THEOREM HostAccounts == Spec => []Accounts
  <1>1. Init => Accounts
    BY InitAccounts
  <1>2. Accounts /\ [Next]_vars => Accounts'
    BY NextAccounts
  <1>3. QED
    BY <1>1, <1>2, PTL DEF Spec

\* Every variable of the registry keeps its type, the rings included.
THEOREM HostTypeCorrect == Spec => []TypeOK
  <1>1. Accounts => TypeOK
    BY DEF Accounts
  <1>2. QED
    BY <1>1, HostAccounts, PTL

\* push_output, evict_locked, remove_term_locked (pty.rs): the buffers of the
\* registered terminals together never exceed the budget while the host lock
\* is free.
THEOREM BudgetIsHard == Spec => []BudgetHard
  <1>1. Accounts => BudgetHard
    BY DEF Accounts
  <1>2. QED
    BY <1>1, HostAccounts, PTL

\* evict_locked (pty.rs): the buffer of a terminal the eviction saw in use is
\* emptied only when no terminal it saw detached has anything left.
THEOREM DetachedPayFirst == Spec => DetachedPaysFirst
  <1> DEFINE PaysFirst ==
               \A t \in terms :
                  (picture[t].attached /\ ring[t].bytes # 0 /\ ring'[t].bytes = 0)
                     => \A u \in terms : ~picture[u].attached => ring[u].bytes = 0
  <1>1. Accounts /\ [Next]_vars => [PaysFirst]_vars
    <2> SUFFICES ASSUME Accounts, Next PROVE PaysFirst
      OBVIOUS
    <2>1. CASE ring' = ring
      BY <2>1
    <2>2. ASSUME NEW t \in Term, NEW n \in BlockLens, PushOutput(t, n) PROVE PaysFirst
      BY <2>2, PushAccounts DEF Accounts, TypeOK
    <2>3. ASSUME NEW t \in Term, EvictClear(t) PROVE PaysFirst
      <3>1. /\ t \in uncleared /\ \A u \in uncleared \ {t} : EvictBefore(t, u)
            /\ \A u \in Term : u # t => ring'[u] = ring[u]
        BY <2>3, ClearAccounts DEF EvictClear
      <3>2. /\ evictor # Nobody /\ terms \subseteq Term
            /\ \A u \in terms \ uncleared : ring[u].bytes = 0
            /\ \A u \in Term : picture[u].attached \in BOOLEAN
        BY <3>1 DEF Accounts, Underway, TypeOK, HostLockFree
      <3>3. SUFFICES ASSUME picture[t].attached, NEW u \in terms, ~picture[u].attached
                     PROVE  ring[u].bytes = 0
        BY <3>1, <3>2
      <3>4. ~EvictBefore(t, u) /\ u # t
        BY <3>2, <3>3 DEF EvictBefore
      <3>5. QED
        BY <3>1, <3>2, <3>4
    <2>4. \/ ring' = ring
          \/ \E t \in Term, n \in BlockLens : PushOutput(t, n)
          \/ \E t \in Term : EvictClear(t)
      BY DEF Next, Create, CreateFails, Attach, Detach, Die, ReaderExit, WatchdogFires,
             RemoveExited, KillSignal, KillRemove, Reap, ReapSignal, ShutdownHup,
             ShutdownForce, ShutdownDone, Tick, EvictRead
    <2>5. QED
      BY <2>1, <2>2, <2>3, <2>4
  <1>2. QED
    BY <1>1, HostAccounts, PTL DEF Spec, DetachedPaysFirst
===============================================================================
