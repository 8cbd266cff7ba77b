-------------------------------- MODULE PtyRing --------------------------------
(***************************************************************************)
(* One terminal's output buffer over time: the reader thread pushes what   *)
(* it reads (at most ReadBuf bytes a time, pty.rs read_loop), and the      *)
(* host clears the whole buffer when the daemon-wide budget is exceeded    *)
(* (pty.rs evict_locked).                                                  *)
(*                                                                         *)
(* The promise to a reconnecting client is that when can_replay(from) says *)
(* yes, the replay is the output from `from` on.  A block larger than the  *)
(* whole buffer is dropped by push; --scrollback-bytes takes any number    *)
(* (main.rs), so a read may exceed the buffer and both orders of ReadBuf   *)
(* and Capacity are states of the program.                                 *)
(***************************************************************************)
EXTENDS RingBuffer

CONSTANTS ReadBuf,     \* READ_BUF_BYTES, the largest block a read returns
          MaxBlocks    \* bound: blocks pushed in a behaviour

ASSUME ReadBufAssumption == ReadBuf \in Nat \ {0}
ASSUME MaxBlocksAssumption == MaxBlocks \in Nat

VARIABLES buffer,      \* TermState.ring
          oversized    \* history: the blocks larger than the whole buffer

ringVars == <<buffer, oversized>>

RingInit == buffer = EmptyRing /\ oversized = {}

\* push_output on this ring; empty reads are skipped there.
PushBlock(n) ==
    /\ buffer.nextSeq < MaxBlocks
    /\ buffer' \in Pushed(buffer, n)
    /\ oversized' = IF n > Capacity THEN oversized \cup {buffer.nextSeq} ELSE oversized

\* evict_locked on this ring; it skips a ring that holds no bytes.
Evict ==
    /\ buffer.bytes # 0
    /\ buffer' = Clear(buffer)
    /\ UNCHANGED oversized

RingNext ==
    \/ \E n \in 1..ReadBuf : PushBlock(n)
    \/ Evict

RingSpec == RingInit /\ [][RingNext]_ringVars

-------------------------------------------------------------------------------
\* The record has its type; nothing is ever pushed past the bound.
RingTypeOK ==
    /\ buffer \in Ring /\ buffer.nextSeq <= MaxBlocks
    /\ oversized \subseteq 0..MaxBlocks

\* When can_replay says yes the replay is the whole output from `from` on, but
\* for the blocks no buffer of this size could ever hold (none, as long as
\* reads fit the buffer).
ReplayComplete ==
    \A from \in 0..buffer.nextSeq :
        CanReplay(buffer, from) =>
            ReplaySeqs(buffer, from) = (from..(buffer.nextSeq - 1)) \ oversized

\* A block older than an oversized one is still in the buffer.
Overtaken == \E i \in DOMAIN buffer.blocks : \E o \in oversized : buffer.blocks[i].seq < o

\* Output that could no longer be replayed never becomes replayable again: a
\* client sent to the screen snapshot once is not later offered a replay
\* with a hole in it.  This ends where push drops an oversized block and keeps
\* older ones: popping one of those takes evicted_through back behind it.
LostStaysLost ==
    [][~Overtaken =>
          \A from \in 0..buffer.nextSeq :
              ~CanReplay(buffer, from) => ~CanReplay(buffer', from)]_ringVars

\* The inductive invariant behind both.  The blocks are in order; whatever is
\* newer than the evicted point, or than some block held, and could be held,
\* is held; a block held is newer than the evicted point or was overtaken.
Held == {buffer.blocks[i].seq : i \in DOMAIN buffer.blocks}

InOrder ==
    /\ \A i, j \in DOMAIN buffer.blocks :
          i < j => buffer.blocks[i].seq < buffer.blocks[j].seq
    /\ \A s \in Held : s < buffer.nextSeq /\ s \notin oversized
    /\ \A o \in oversized : o < buffer.nextSeq
    /\ buffer.evictedThrough < buffer.nextSeq

NoGap ==
    \A s \in (0..(buffer.nextSeq - 1)) \ oversized :
        (s > buffer.evictedThrough \/ \E h \in Held : h < s) => s \in Held

Ahead ==
    \A h \in Held : h > buffer.evictedThrough \/ \E o \in oversized : h < o

Contiguous == InOrder /\ NoGap /\ Ahead
===============================================================================
