------------------------------ MODULE RingBuffer ------------------------------
(***************************************************************************)
(* The output ring buffer of one daemon terminal                           *)
(* (qingcode-server/src/pty.rs, struct RingBuffer), as operators on a      *)
(* record value, so that the single-terminal module PtyRing and the        *)
(* registry module PtyHost share one definition of it.                     *)
(*                                                                         *)
(* A block of output is its sequence number and its length; the bytes      *)
(* themselves are abstracted.  `evictedThrough` is the code's Option<u64>: *)
(* None is NoneEvicted (-1), so "None, or from_seq > through" is           *)
(* `from > evictedThrough` for every from >= 0.                            *)
(*                                                                         *)
(* An operator named X_fault is X with one plausible bug; no specification *)
(* uses it.  Substituting it for X breaks the property it was written for, *)
(* which shows that the property depends on that detail of the code.       *)
(***************************************************************************)
EXTENDS Integers, Sequences

CONSTANT Capacity      \* scrollback_bytes of the terminal

ASSUME CapacityAssumption == Capacity \in Nat

NoneEvicted == -1

Block == [seq : Nat, len : Nat]

Ring == [blocks : Seq(Block), bytes : 0..Capacity, nextSeq : Nat,
         evictedThrough : Nat \cup {NoneEvicted}]

EmptyRing == [blocks |-> << >>, bytes |-> 0, nextSeq |-> 0,
              evictedThrough |-> NoneEvicted]

\* w[1] + ... + w[n], as a recursive function, which can be reasoned about.
SumTo(w, n) ==
    LET sum[k \in 0..n] == IF k = 0 THEN 0 ELSE sum[k - 1] + w[k]
    IN  sum[n]

\* Bytes of a sequence of blocks.
TotalLen(bs) == SumTo([i \in 1..Len(bs) |-> bs[i].len], Len(bs))

\* The loop of push stops as soon as n more bytes fit, or the deque is empty:
\* k is the number of oldest blocks it pops.
Fits(r, n, k) == r.bytes - TotalLen(SubSeq(r.blocks, 1, k)) + n <= Capacity

Pops(r, n, k) ==
    /\ Fits(r, n, k) \/ k = Len(r.blocks)
    /\ \A j \in 0..(k - 1) : ~Fits(r, n, j)

\* push of a block that exceeds the whole buffer: only the counters move.
PushDropped(r) ==
    [r EXCEPT !.nextSeq = @ + 1, !.evictedThrough = r.nextSeq]

\* push of any other block, after popping k blocks.
PushKept(r, n, k) ==
    [blocks |-> Append(SubSeq(r.blocks, k + 1, Len(r.blocks)),
                       [seq |-> r.nextSeq, len |-> n]),
     bytes |-> r.bytes - TotalLen(SubSeq(r.blocks, 1, k)) + n,
     nextSeq |-> r.nextSeq + 1,
     evictedThrough |-> IF k = 0 THEN r.evictedThrough ELSE r.blocks[k].seq]

\* push: the ring afterwards, as the set of its possible values (exactly one).
Pushed(r, n) ==
    IF n > Capacity THEN {PushDropped(r)}
    ELSE {PushKept(r, n, k) : k \in {j \in 0..Len(r.blocks) : Pops(r, n, j)}}

\* Mutant: the loss is not recorded.
Clear_forgetsLoss(r) ==
    [r EXCEPT !.blocks = << >>, !.bytes = 0, !.evictedThrough = NoneEvicted]

\* clear: drop every block; the counters say how far the loss reaches.
Clear(r) ==
    [r EXCEPT !.blocks = << >>, !.bytes = 0,
              !.evictedThrough = IF r.blocks = << >> THEN @
                                 ELSE r.blocks[Len(r.blocks)].seq]

\* Mutant: one block too many is promised.
CanReplay_offByOne(r, from) == from <= r.nextSeq /\ from >= r.evictedThrough

\* can_replay: does the buffer claim to cover every block from `from` on?
CanReplay(r, from) == from <= r.nextSeq /\ from > r.evictedThrough

\* replay: the blocks an attach at `from` is given.  They are sent in deque
\* order, which is increasing in seq (PtyRing!InOrder), so a set says it all.
Replay(r, from) == {i \in DOMAIN r.blocks : r.blocks[i].seq >= from}

ReplaySeqs(r, from) == {r.blocks[i].seq : i \in Replay(r, from)}
===============================================================================
