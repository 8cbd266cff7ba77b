----------------------------- MODULE OrderedDelivery -----------------------------
(***************************************************************************)
(* What the daemon promises a client about one terminal, whatever happens  *)
(* inside: the frames a connection is sent form either the stream of a     *)
(* terminal it created, or the answer to one attach.  An attach is         *)
(* answered, then the missed blocks come in order, then the end mark, then *)
(* the live blocks from exactly where the replay stopped; the exit comes   *)
(* last and once, and not at all when the answer already told it.  At any  *)
(* time the connection may be closed.                                      *)
(***************************************************************************)
EXTENDS Naturals

CONSTANTS
    Conn,
    MaxSeq         \* bound: blocks of the terminal

VARIABLE out       \* per connection: the last frame it was sent, `frames` in all

\* A frame is its kind k and a block number: for "reply" the first block to
\* replay, for "rep" and "data" the block they carry.  `upto` and `exited` are
\* what the reply said: where live output starts, and whether the exit is told.
Nothing == [k |-> "none", seq |-> 0, upto |-> 0, exited |-> FALSE, frames |-> 0]
Closed == [Nothing EXCEPT !.k = "closed"]

After(o, kind, s) == [o EXCEPT !.k = kind, !.seq = s, !.frames = @ + 1]
AfterReply(o, from, upto, exited) ==
    [After(o, "reply", from) EXCEPT !.upto = upto, !.exited = exited]

Unopened(c) == out[c].k = "none"
Replaying(c) == out[c].k \in {"reply", "rep"}
\* After a reply that told the exit, the stream is over with its end mark.
IsLive(c) == out[c].k \in {"created", "end", "data"} /\ ~out[c].exited

\* The block number the next frame with a block must have.
Expected(c) == IF out[c].k \in {"rep", "data"} THEN out[c].seq + 1 ELSE out[c].seq

Becomes(c, o) == out' = [out EXCEPT ![c] = o]
Put(c, kind, s) == Becomes(c, After(out[c], kind, s))

Create(c) == Unopened(c) /\ Put(c, "created", 0)
Refuse(c) == Unopened(c) /\ Put(c, "refused", 0)
Reply(c) ==
    /\ Unopened(c)
    /\ \E from, upto \in 0..MaxSeq, exited \in BOOLEAN :
          from <= upto /\ Becomes(c, AfterReply(out[c], from, upto, exited))

ReplayBlock(c) == Replaying(c) /\ Expected(c) < out[c].upto /\ Put(c, "rep", Expected(c))
EndReplay(c) == Replaying(c) /\ Expected(c) = out[c].upto /\ Put(c, "end", out[c].upto)
FailReplay(c) == Replaying(c) /\ Put(c, "fail", 0)

LiveBlock(c) == IsLive(c) /\ Put(c, "data", Expected(c))
Exit(c) == IsLive(c) /\ Put(c, "exit", 0)

\* The client detaches: whatever still comes is not listened to.
Leave(c) == IsLive(c) /\ Put(c, "left", 0)

Close(c) == out[c] # Closed /\ Becomes(c, Closed)

Init == out = [c \in Conn |-> Nothing]

Next == \E c \in Conn :
    /\ out'[c] # out[c]
    /\ \/ Create(c) \/ Refuse(c) \/ Reply(c)
       \/ ReplayBlock(c) \/ EndReplay(c) \/ FailReplay(c)
       \/ LiveBlock(c) \/ Exit(c) \/ Leave(c) \/ Close(c)

Spec == Init /\ [][Next]_out
===============================================================================
