----------------------------- MODULE PtyInput_proofs -----------------------------
(***************************************************************************)
(* Proofs about PtyInput: until the application restarts the shell gets    *)
(* the bytes as typed and an acknowledgement is never wrong, for any       *)
(* number of connections, chunks and bytes per chunk (a restart breaks it: *)
(* see AckedIsWritten).  That no request runs ahead of the daemon   *)
(* holds over any number of restarts.                                      *)
(***************************************************************************)
EXTENDS PtyInput, TLAPS

\* The client is at most one number behind the daemon: its outstanding request.
Numbers ==
    /\ cseq <= nextSeq /\ nextSeq <= cseq + 1
    /\ fresh => nextSeq = cseq /\ cur = NoConn /\ \A c \in Conn : conn[c] = "new"
    /\ life = 0

\* The last chunk that has left the queue.
Base == IF IsEmpty(sending) THEN cseq ELSE sending.to

\* What is being sent and what waits are the chunks after cseq, in order.
Queue ==
    /\ ~IsEmpty(sending) => sending.from = cseq + 1
    /\ pending = <<>> => Base = typed
    /\ pending # <<>> => pending[1].from = Base + 1 /\ pending[Len(pending)].to = typed
    /\ \A k \in 1..Len(pending) : pending[k].from <= pending[k].to
    /\ \A k \in 1..Len(pending) : k > 1 => pending[k].from = pending[k - 1].to + 1

\* A request's number is the place of its chunk; no request is ahead of the
\* client, and the current one is the chunk the client waits for.
RequestOf(c) ==
    /\ conn[c] = "new" => step[c] = "none"
    /\ step[c] # "none" => reqChunk[c] = reqSeq[c] + 1 /\ reqSeq[c] <= cseq
    /\ (c = cur /\ step[c] # "none") => ~IsEmpty(sending) /\ reqSeq[c] = cseq
    /\ step[c] = "ok" => reqSeq[c] < nextSeq
    /\ step[c] = "writing" <=> gate = c
    /\ step[c] = "writing" => reqSeq[c] = nextSeq /\ off[c] = partial.off

Requests ==
    /\ \A c \in Conn : RequestOf(c)
    /\ cur # NoConn => conn[cur] # "new"
    /\ partial.off > 0 => partial.seq = nextSeq

\* Where the written bytes end.
Ends ==
    /\ written = <<>> <=> (nextSeq = 0 /\ partial.off = 0)
    /\ written # <<>> =>
         written[Len(written)] = IF partial.off > 0 THEN <<nextSeq + 1, partial.off>>
                                 ELSE <<nextSeq, ChunkLen>>

\* Which bytes are written, and that only written chunks are acknowledged.
Complete ==
    /\ \A i \in 1..nextSeq : Whole(i)
    /\ \A j \in 1..partial.off : \E k \in 1..Len(written) : written[k] = <<nextSeq + 1, j>>
    /\ acked \subseteq 1..cseq

IInv == TypeOK /\ Numbers /\ Queue /\ Requests /\ Ends /\ InOrder /\ Complete

-------------------------------------------------------------------------------
\* The initial state satisfies the invariant.
LEMMA InitIInv == Init => IInv
  <1> SUFFICES ASSUME Init PROVE IInv
    OBVIOUS
  <1> USE InputAssumption DEF Init
  <1>1. TypeOK
    <2>1. /\ written \in Seq((1..MaxTyped) \X (1..ChunkLen)) /\ pending \in Seq(Ranges)
          /\ sending \in Ranges /\ partial \in [seq : Nat, off : 0..ChunkLen]
      BY DEF NoPartial, Nothing, Range, Ranges
    <2>2. /\ conn \in [Conn -> {"new", "up", "gone"}] /\ reqSeq \in [Conn -> Nat]
          /\ step \in [Conn -> {"none", "sent", "waiting", "writing", "ok", "error", "lost"}]
          /\ reqChunk \in [Conn -> 0..MaxTyped] /\ off \in [Conn -> 0..ChunkLen]
      OBVIOUS
    <2>3. exited \in BOOLEAN /\ fresh \in BOOLEAN
      BY Zenon
    <2>4. /\ nextSeq \in Nat /\ gate \in Conn \cup {NoConn}
          /\ cur \in Conn \cup {NoConn} /\ cseq \in Nat
          /\ typed \in 0..MaxTyped /\ acked \subseteq 1..MaxTyped /\ life \in 0..Restarts
      OBVIOUS
    <2>5. QED
      BY ONLY <2>1, <2>2, <2>3, <2>4 DEF TypeOK
  <1>2. Numbers /\ Requests
    BY DEF Numbers, Requests, RequestOf, NoPartial, Conn, NoConn
  <1>3. Queue
    BY DEF Queue, Base, IsEmpty, Nothing, Range
  <1>4. Ends /\ InOrder /\ Complete
    BY DEF Ends, InOrder, Complete, NoPartial
  <1>5. QED
    BY <1>1, <1>2, <1>3, <1>4 DEF IInv

\* Steps that write nothing and advance no number of the daemon's leave alone
\* what is said about the bytes.
LEMMA BytesQuiet ==
    ASSUME IInv, UNCHANGED <<nextSeq, partial, written>>, acked' \subseteq 1..cseq'
    PROVE  Ends' /\ InOrder' /\ Complete'
  BY DEF IInv, Numbers, Ends, InOrder, Complete, Whole

\* Steps of the daemon leave the queue alone.
LEMMA QueueQuiet ==
    ASSUME IInv, UNCHANGED <<cseq, pending, sending, typed>>
    PROVE  Queue'
  BY DEF IInv, Queue, Base, IsEmpty

\* A new input is queued behind everything typed before.
LEMMA TypeStep == ASSUME IInv, NEW n \in 1..MaxTyped, Type(n) PROVE IInv'
  <1> USE InputAssumption
  <1>1. TypeOK'
    <2>1. typed \in 0..MaxTyped /\ typed + n <= MaxTyped /\ pending \in Seq(Ranges)
      BY DEF Type, IInv, TypeOK
    <2>2. Range(typed + 1, typed + n) \in Ranges /\ typed + n \in 0..MaxTyped
      BY <2>1 DEF Range, Ranges
    <2>3. pending' \in Seq(Ranges) /\ typed' \in 0..MaxTyped
      BY <2>1, <2>2 DEF Type
    <2>4. UNCHANGED <<pty, conn, request, cur, cseq, sending, fresh, acked, life>>
      BY DEF Type
    <2>5. QED
      BY <2>3, <2>4 DEF IInv, TypeOK, Ranges, pty, request
  <1>2. Numbers' /\ Requests'
    BY DEF Type, IInv, Numbers, Requests, RequestOf, pty, request, IsEmpty
  <1>3. Queue'
    <2>1. /\ pending \in Seq(Ranges) /\ typed \in Nat /\ n >= 1 /\ n \in Nat
          /\ pending' = Append(pending, Range(typed + 1, typed + n))
          /\ typed' = typed + n
          /\ UNCHANGED <<cseq, sending>>
      BY DEF Type, IInv, TypeOK
    <2>2. Len(pending') = Len(pending) + 1
      BY <2>1
    <2>3. \A k \in 1..Len(pending) : pending'[k] = pending[k]
      BY <2>1
    <2>4. pending'[Len(pending) + 1] = Range(typed + 1, typed + n)
      BY <2>1
    <2>5. Base' = Base /\ Base \in Nat
      BY <2>1 DEF Base, IsEmpty, IInv, TypeOK, Ranges
    <2>6. Len(pending) \in Nat /\ pending' # <<>> /\ (pending = <<>> <=> Len(pending) = 0)
      BY <2>1
    <2>7. Range(typed + 1, typed + n).from = typed + 1 /\ Range(typed + 1, typed + n).to = typed + n
      BY DEF Range
    <2>8. \A k \in 1..Len(pending) : pending'[k] = pending[k] /\ pending[k] \in Ranges
      BY <2>1, <2>3
    <2>9. \A k \in 1..Len(pending') : pending'[k].from <= pending'[k].to
      BY <2>1, <2>2, <2>4, <2>6, <2>7, <2>8 DEF IInv, Queue
    <2>10. pending'[1].from = Base + 1 /\ pending'[Len(pending')].to = typed'
      BY <2>1, <2>2, <2>4, <2>6, <2>7, <2>8 DEF IInv, Queue
    <2>11. \A k \in 1..Len(pending') : k > 1 => pending'[k].from = pending'[k - 1].to + 1
      BY <2>1, <2>2, <2>4, <2>6, <2>7, <2>8 DEF IInv, Queue
    <2>12. QED
      BY <2>1, <2>5, <2>6, <2>9, <2>10, <2>11 DEF IInv, Queue, IsEmpty
  <1>4. Ends' /\ InOrder' /\ Complete'
    BY BytesQuiet DEF Type, IInv, Complete, pty
  <1>5. QED
    BY <1>1, <1>2, <1>3, <1>4 DEF IInv

\* A client that has just started finds no requests of its own under way.
LEMMA ConnectStep == ASSUME IInv, NEW c \in Conn, Connect(c) PROVE IInv'
  <1> USE InputAssumption
  <1>1. TypeOK'
    BY DEF Connect, IInv, TypeOK, pty, request
  <1>2. UNCHANGED <<pty, request, cseq, pending, sending, typed, acked>>
    BY DEF Connect, IInv, Numbers
  <1>3. Numbers'
    BY <1>2 DEF Connect, IInv, Numbers, pty
  <1>4. Requests'
    BY <1>2, ZenonT(60) DEF Connect, IInv, TypeOK, Requests, RequestOf, pty, request, Conn, NoConn, IsEmpty
  <1>5. Queue' /\ Ends' /\ InOrder' /\ Complete'
    BY <1>2, BytesQuiet, QueueQuiet DEF pty, IInv, Complete
  <1>6. QED
    BY <1>1, <1>3, <1>4, <1>5 DEF IInv

\* The head of the queue follows the last chunk acknowledged.
LEMMA PopStep == ASSUME IInv, Pop PROVE IInv'
  <1> USE InputAssumption
  <1>1. /\ pending \in Seq(Ranges) /\ pending # <<>> /\ IsEmpty(sending)
        /\ sending' = pending[1] /\ pending' = Tail(pending)
        /\ UNCHANGED <<pty, conn, request, cur, cseq, fresh, typed, acked, life>>
    BY DEF Pop, IInv, TypeOK
  <1>2. /\ pending' \in Seq(Ranges) /\ sending' \in Ranges
        /\ Len(pending') = Len(pending) - 1 /\ Len(pending) \in Nat /\ Len(pending) >= 1
        /\ \A k \in 1..Len(pending') : pending'[k] = pending[k + 1]
    BY <1>1
  <1>3. TypeOK'
    BY <1>1, <1>2 DEF IInv, TypeOK, pty, request
  <1>4. pending[1].from = cseq + 1 /\ pending[1].from <= pending[1].to
    BY <1>1, <1>2 DEF IInv, Queue, Base
  <1>5. Numbers' /\ Requests'
    BY <1>1, <1>4 DEF IInv, Numbers, Requests, RequestOf, pty, request, IsEmpty
  <1>6. Queue'
    <2>1. Base' = pending[1].to /\ sending'.from = cseq' + 1
      BY <1>1, <1>2, <1>4 DEF Base, IsEmpty, Ranges
    <2>2. \A k \in 1..Len(pending') : pending'[k].from <= pending'[k].to
      BY <1>2 DEF IInv, Queue
    <2>3. \A k \in 1..Len(pending') : pending'[k].from = pending[k].to + 1
      BY <1>1, <1>2 DEF IInv, Queue
    <2>4. Len(pending') >= 1 => pending'[Len(pending')].to = typed'
      BY <1>1, <1>2 DEF IInv, Queue
    <2>5. Len(pending') = 0 => pending[1].to = typed'
      BY <1>1, <1>2 DEF IInv, Queue
    <2>6. (pending' = <<>> <=> Len(pending') = 0) /\ Len(pending') \in Nat
      BY <1>2
    <2>7. \A k \in 1..Len(pending') : k > 1 => pending'[k].from = pending'[k - 1].to + 1
      BY <1>2, <2>3
    <2>8. pending' = <<>> => Base' = typed'
      BY <2>1, <2>5, <2>6
    <2>9. pending' # <<>> => /\ pending'[1].from = Base' + 1
                            /\ pending'[Len(pending')].to = typed'
      BY <2>1, <2>3, <2>4, <2>6
    <2>10. QED
      BY <2>1, <2>2, <2>7, <2>8, <2>9 DEF Queue
  <1>7. Ends' /\ InOrder' /\ Complete'
    BY <1>1, BytesQuiet DEF IInv, Complete, pty
  <1>8. QED
    BY <1>3, <1>5, <1>6, <1>7 DEF IInv

\* A request is the chunk after the last one acknowledged.
LEMMA SendStep == ASSUME IInv, NEW c \in Conn, Send(c) PROVE IInv'
  <1> USE InputAssumption
  <1>1. sending.from = cseq + 1 /\ sending.from \in 1..MaxTyped
    BY DEF Send, IInv, TypeOK, Queue, IsEmpty, Ranges
  <1>2. TypeOK'
    BY <1>1, SMTT(30) DEF Send, IInv, TypeOK, pty, client
  <1>3. Numbers' /\ Queue' /\ Ends' /\ InOrder' /\ Complete'
    BY BytesQuiet, QueueQuiet DEF Send, IInv, Numbers, Complete, pty, client
  <1>4. Requests'
    BY <1>1, SMTT(30) DEF Send, IInv, TypeOK, Requests, RequestOf, pty, client, Conn, NoConn, IsEmpty
  <1>5. QED
    BY <1>2, <1>3, <1>4 DEF IInv

\* An acknowledged number is below the daemon's, so its chunk is whole.
LEMMA AcknowledgeStep == ASSUME IInv, NEW c \in Conn, Acknowledge(c) PROVE IInv'
  <1> USE InputAssumption
  <1>1. /\ ~IsEmpty(sending) /\ reqSeq[c] = cseq /\ cseq < nextSeq
        /\ reqChunk[c] = cseq + 1 /\ cseq \in Nat /\ nextSeq \in Nat
        /\ sending \in Ranges /\ sending.from = cseq + 1
    BY DEF Acknowledge, IInv, TypeOK, Queue, Requests, RequestOf
  <1>2. /\ sending' = Range(sending.from + 1, sending.to) /\ cseq' = cseq + 1
        /\ acked' = acked \cup {cseq + 1}
        /\ step' = [step EXCEPT ![c] = "none"]
        /\ UNCHANGED <<pty, conn, reqSeq, reqChunk, off, cur, pending, fresh, typed, life>>
    BY <1>1 DEF Acknowledge
  <1>3. TypeOK'
    <2>1. sending' \in Ranges
      BY <1>1, <1>2 DEF Ranges, Range, IsEmpty
    <2>2. cseq + 1 \in 1..MaxTyped
      BY <1>1 DEF Ranges, IsEmpty
    <2>3. QED
      BY <1>1, <1>2, <2>1, <2>2, SMTT(30) DEF IInv, TypeOK, pty
  <1>4. Numbers'
    BY <1>1, <1>2 DEF IInv, Numbers, pty, Conn, NoConn, Acknowledge
  <1>5. Queue'
    <2>1. /\ sending'.from = cseq + 2 /\ sending'.to = sending.to
          /\ cseq + 1 <= sending.to /\ sending.to \in Nat
      BY <1>1, <1>2 DEF IsEmpty, Range, Ranges
    <2>2. Base' = Base
      BY <1>1, <1>2, <2>1 DEF Base, IsEmpty
    <2>3. sending'.from = cseq' + 1
      BY <1>1, <1>2, <2>1
    <2>4. QED
      BY <1>2, <2>2, <2>3 DEF IInv, Queue
  <1>6. Requests'
    BY <1>1, <1>2, SMTT(30) DEF IInv, TypeOK, Requests, RequestOf, pty, Acknowledge
  <1>7. Ends' /\ InOrder' /\ Complete'
    <2>1. acked' \subseteq 1..cseq'
      <3>1. acked \subseteq 1..cseq
        BY DEF IInv, Complete
      <3>2. QED
        BY <1>1, <1>2, <3>1
    <2>2. QED
      BY <1>2, <2>1, BytesQuiet DEF pty
  <1>8. QED
    BY <1>3, <1>4, <1>5, <1>6, <1>7 DEF IInv

\* What is put back in front is what the queue follows on.
LEMMA GiveUpStep == ASSUME IInv, NEW c \in Conn, GiveUp(c) PROVE IInv'
  <1> USE InputAssumption
  <1>1. /\ pending \in Seq(Ranges) /\ sending \in Ranges
        /\ pending' = Requeued /\ sending' = Nothing /\ cur' = NoConn
        /\ UNCHANGED <<pty, conn, request, cseq, fresh, typed, acked, life>>
    BY DEF GiveUp, IInv, TypeOK
  <1>2. Nothing \in Ranges /\ IsEmpty(Nothing)
    BY DEF Nothing, Range, Ranges, IsEmpty
  <1>3. Numbers' /\ Requests'
    BY <1>1, SMTT(30) DEF IInv, TypeOK, Numbers, Requests, RequestOf, pty, request, Conn, NoConn
  <1>4. Ends' /\ InOrder' /\ Complete'
    BY <1>1, BytesQuiet DEF IInv, Complete, pty
  <1>5. CASE IsEmpty(sending)
    <2>1. pending' = pending
      BY <1>1, <1>5 DEF Requeued
    <2>2. TypeOK'
      BY <1>1, <1>2, <2>1 DEF IInv, TypeOK, pty, request
    <2>3. Queue'
      BY <1>1, <1>2, <1>5, <2>1 DEF IInv, Queue, Base, IsEmpty
    <2>4. QED
      BY <1>3, <1>4, <2>2, <2>3 DEF IInv
  <1>6. CASE ~IsEmpty(sending)
    <2>1. pending' = <<sending>> \o pending
      BY <1>1, <1>6 DEF Requeued
    <2>2. /\ pending' \in Seq(Ranges) /\ Len(pending') = Len(pending) + 1
          /\ Len(pending) \in Nat /\ pending'[1] = sending
          /\ \A k \in 1..Len(pending) : pending'[k + 1] = pending[k]
      BY <1>1, <2>1
    <2>3. TypeOK'
      BY <1>1, <1>2, <2>2 DEF IInv, TypeOK, pty, request
    <2>4. /\ sending.from = cseq + 1 /\ sending.from <= sending.to
          /\ sending.from \in Nat /\ sending.to \in Nat
      BY <1>1, <1>6 DEF IInv, Queue, IsEmpty, Ranges
    <2>5. \A k \in 1..Len(pending') : k > 1 => pending'[k] = pending[k - 1]
      BY <2>2
    <2>6. Queue'
      <3>1. \A k \in 1..Len(pending') : pending'[k].from <= pending'[k].to
        <4> TAKE k \in 1..Len(pending')
        <4>1. CASE k = 1
          BY <2>2, <2>4, <4>1
        <4>2. CASE k > 1
          <5>1. k - 1 \in 1..Len(pending) /\ pending'[k] = pending[k - 1]
            BY <2>2, <2>5, <4>2
          <5>2. QED
            BY <5>1 DEF IInv, Queue
        <4>3. QED
          BY <4>1, <4>2
      <3>2. \A k \in 1..Len(pending') : k > 1 => pending'[k].from = pending'[k - 1].to + 1
        <4> TAKE k \in 1..Len(pending')
        <4> HAVE k > 1
        <4>1. CASE k = 2
          BY <1>6, <2>2, <2>5, <4>1 DEF IInv, Queue, Base
        <4>2. CASE k > 2
          <5>1. k - 1 \in 1..Len(pending) /\ k - 1 > 1 /\ k - 1 \in 1..Len(pending')
            BY <2>2, <4>2
          <5>2. pending'[k] = pending[k - 1] /\ pending'[k - 1] = pending[(k - 1) - 1]
            BY <2>5, <5>1
          <5>3. QED
            BY <5>1, <5>2 DEF IInv, Queue
        <4>3. QED
          BY <4>1, <4>2
      <3>3. pending'[Len(pending')].to = typed
        BY <1>6, <2>2, <2>5 DEF IInv, Queue, Base
      <3>4. QED
        BY <1>1, <1>2, <2>2, <2>4, <3>1, <3>2, <3>3 DEF Queue, Base, IsEmpty
    <2>7. QED
      BY <1>3, <1>4, <2>3, <2>6 DEF IInv
  <1>7. QED
    BY <1>5, <1>6

\* The daemon takes a request up.
LEMMA DeliverStep == ASSUME IInv, NEW c \in Conn, Deliver(c) PROVE IInv'
  <1> USE InputAssumption DEF Deliver, StepTo, pty, client
  <1>1. TypeOK'
    BY DEF IInv, TypeOK
  <1>2. Numbers' /\ Queue' /\ Ends' /\ InOrder' /\ Complete'
    BY BytesQuiet, QueueQuiet DEF IInv, Numbers, Complete
  <1>3. Requests'
    BY DEF IInv, TypeOK, Requests, RequestOf
  <1>4. QED
    BY <1>1, <1>2, <1>3 DEF IInv

\* Whoever enters the gate resumes where the last write of the number stopped.
LEMMA EnterStep == ASSUME IInv, NEW c \in Conn, Enter(c) PROVE IInv'
  <1> USE InputAssumption DEF pty, client
  <1>1. Numbers' /\ Queue' /\ Ends' /\ InOrder' /\ Complete'
    BY BytesQuiet, QueueQuiet DEF Enter, IInv, Numbers, Complete
  <1>2. ASSUME NEW s \in {"ok", "error"}, step' = [step EXCEPT ![c] = s],
               s = "ok" => reqSeq[c] < nextSeq, UNCHANGED <<gate, off>>
        PROVE  TypeOK' /\ Requests'
    <2>1. TypeOK'
      BY <1>2 DEF Enter, IInv, TypeOK
    <2>2. Requests'
      BY <1>2 DEF Enter, IInv, TypeOK, Requests, RequestOf
    <2>3. QED
      BY <2>1, <2>2
  <1>3. ASSUME reqSeq[c] = nextSeq, gate' = c, step' = [step EXCEPT ![c] = "writing"],
               off' = [off EXCEPT ![c] = Skip(reqSeq[c])]
        PROVE  TypeOK' /\ Requests'
    <2>1. Skip(reqSeq[c]) = partial.off /\ partial.off \in 0..ChunkLen
      BY <1>3 DEF IInv, TypeOK, Requests, Skip
    <2>2. TypeOK'
      BY <1>3, <2>1 DEF Enter, IInv, TypeOK
    <2>3. \A d \in Conn : gate # d /\ step[d] # "writing"
      BY DEF Enter, IInv, Requests, RequestOf, Conn, NoConn
    <2>4. off'[c] = partial.off /\ step'[c] = "writing" /\ step[c] = "waiting"
      BY <1>3, <2>1 DEF Enter, IInv, TypeOK
    <2>5. RequestOf(c)'
      BY <1>3, <2>4 DEF Enter, IInv, Requests, RequestOf
    <2>6. \A d \in Conn \ {c} : step'[d] = step[d] /\ off'[d] = off[d] /\ gate' # d
      BY <1>3 DEF IInv, TypeOK
    <2>7. \A d \in Conn \ {c} : RequestOf(d)'
      BY <2>3, <2>6 DEF Enter, IInv, Requests, RequestOf
    <2>8. Requests'
      BY <2>5, <2>7 DEF Enter, IInv, Requests
    <2>9. QED
      BY <2>2, <2>8
  <1>4. TypeOK' /\ Requests'
    BY <1>2, <1>3 DEF Enter, StepTo, IsDuplicate
  <1>5. QED
    BY <1>1, <1>4 DEF IInv

\* The one write that holds the gate is of the number the daemon expects next,
\* and knows how much of it is written.
LEMMA WriterIsNext ==
    ASSUME IInv, NEW c \in Conn, step[c] = "writing"
    PROVE  /\ reqSeq[c] = nextSeq /\ nextSeq = cseq /\ reqChunk[c] = nextSeq + 1
           /\ off[c] = partial.off /\ gate = c /\ ~fresh
           /\ nextSeq + 1 \in 1..MaxTyped
  BY InputAssumption DEF IInv, TypeOK, Numbers, Requests, RequestOf

\* The next byte is appended.
LEMMA WriteByteStep == ASSUME IInv, NEW c \in Conn, WriteByte(c) PROVE IInv'
  <1> USE InputAssumption
  <1> DEFINE b == <<nextSeq + 1, partial.off + 1>>
  <1>1. step[c] = "writing"
    BY DEF WriteByte, Runs
  <1>2. /\ reqSeq[c] = nextSeq /\ nextSeq = cseq /\ reqChunk[c] = nextSeq + 1
        /\ off[c] = partial.off /\ gate = c /\ nextSeq + 1 \in 1..MaxTyped
    BY <1>1, WriterIsNext
  <1>3. /\ partial.off \in 0..(ChunkLen - 1) /\ nextSeq \in Nat
        /\ written \in Seq((1..MaxTyped) \X (1..ChunkLen)) /\ off \in [Conn -> 0..ChunkLen]
    BY <1>2, SMTT(30) DEF WriteByte, IInv, TypeOK
  <1>4. /\ written' = Append(written, b)
        /\ off' = [off EXCEPT ![c] = partial.off + 1]
        /\ partial' = [seq |-> nextSeq, off |-> partial.off + 1]
        /\ UNCHANGED <<nextSeq, gate, exited, conn, step, reqSeq, reqChunk, client>>
    BY <1>2, <1>3 DEF WriteByte
  <1>5. b \in (1..MaxTyped) \X (1..ChunkLen)
    BY <1>2, <1>3
  <1>6. /\ written' \in Seq((1..MaxTyped) \X (1..ChunkLen))
        /\ Len(written') = Len(written) + 1 /\ Len(written) \in Nat
        /\ written'[Len(written) + 1] = b
        /\ \A k \in 1..Len(written) : written'[k] = written[k]
    BY <1>3, <1>4, <1>5
  <1>7. partial'.off = partial.off + 1 /\ partial'.seq = nextSeq
    BY <1>4
  <1>8. TypeOK'
    <2>1. partial' \in [seq : Nat, off : 0..ChunkLen] /\ off' \in [Conn -> 0..ChunkLen]
      BY <1>3, <1>4
    <2>2. QED
      BY <1>4, <1>6, <2>1 DEF IInv, TypeOK, client
  <1>9. Numbers' /\ Queue'
    BY <1>4, QueueQuiet DEF IInv, Numbers, client
  <1>10. Requests'
    BY <1>1, <1>2, <1>3, <1>4, <1>7 DEF IInv, TypeOK, Requests, RequestOf, client
  <1>11. Ends'
    <2>1. written' # <<>> /\ partial'.off > 0 /\ nextSeq' = nextSeq
      BY <1>3, <1>4, <1>6, <1>7
    <2>2. written'[Len(written')] = <<nextSeq' + 1, partial'.off>>
      BY <1>4, <1>6, <1>7
    <2>3. QED
      BY <2>1, <2>2 DEF Ends
  <1>12. InOrder'
    <2>1. CASE written = <<>>
      BY <1>3, <1>4, <1>6, <2>1 DEF IInv, Ends, InOrder
    <2>2. CASE written # <<>>
      <3>1. b = ByteAfter(written[Len(written)])
        BY <1>3, <2>2, SMTT(30) DEF IInv, Ends, ByteAfter
      <3>2. Len(written) >= 1 /\ Len(written) \in 1..Len(written)
        BY <1>3, <1>6, <2>2
      <3> SUFFICES ASSUME NEW k \in 1..Len(written')
                   PROVE  written'[k] = IF k = 1 THEN <<1, 1>> ELSE ByteAfter(written'[k - 1])
        BY DEF InOrder, ByteAfter
      <3>3. CASE k = Len(written) + 1
        <4>1. k # 1 /\ k - 1 = Len(written) /\ written'[k - 1] = written[Len(written)]
          BY <1>6, <3>2, <3>3
        <4>2. QED
          BY <1>6, <3>1, <3>3, <4>1
      <3>4. CASE k # Len(written) + 1
        <4>1. k \in 1..Len(written) /\ (k # 1 => k - 1 \in 1..Len(written))
          BY <1>6, <3>4
        <4>2. QED
          BY <1>6, <4>1 DEF IInv, Numbers, InOrder
      <3>5. QED
        BY <3>3, <3>4
    <2>3. QED
      BY <2>1, <2>2
  <1>13. Complete'
    <2>1. \A k \in 1..Len(written) : k \in 1..Len(written') /\ written'[k] = written[k]
      BY <1>6
    <2>2. \A i \in 1..nextSeq' : Whole(i)'
      <3> SUFFICES ASSUME NEW i \in 1..nextSeq, NEW j \in 1..ChunkLen
                   PROVE  \E k \in 1..Len(written') : written'[k] = <<i, j>>
        BY <1>4 DEF Whole
      <3>1. PICK k \in 1..Len(written) : written[k] = <<i, j>>
        BY DEF IInv, Complete, Whole
      <3>2. QED
        BY <2>1, <3>1
    <2>3. \A j \in 1..partial'.off :
            \E k \in 1..Len(written') : written'[k] = <<nextSeq' + 1, j>>
      <3> TAKE j \in 1..partial'.off
      <3>1. CASE j = partial.off + 1
        BY <1>4, <1>6, <3>1
      <3>2. CASE j # partial.off + 1
        <4>1. j \in 1..partial.off
          BY <1>3, <1>7, <3>2
        <4>2. PICK k \in 1..Len(written) : written[k] = <<nextSeq + 1, j>>
          BY <4>1 DEF IInv, Complete
        <4>3. QED
          BY <1>4, <2>1, <4>2
      <3>3. QED
        BY <3>1, <3>2
    <2>4. QED
      BY <1>4, <2>2, <2>3 DEF IInv, Complete, client
  <1>14. QED
    BY <1>8, <1>9, <1>10, <1>11, <1>12, <1>13 DEF IInv

\* The number advances with its last byte.
LEMMA FinishWriteStep == ASSUME IInv, NEW c \in Conn, FinishWrite(c) PROVE IInv'
  <1> USE InputAssumption
  <1>1. step[c] = "writing"
    BY DEF FinishWrite, Runs
  <1>2. /\ reqSeq[c] = nextSeq /\ nextSeq = cseq /\ reqChunk[c] = nextSeq + 1
        /\ partial.off = ChunkLen /\ gate = c /\ ~fresh /\ nextSeq \in Nat
    BY <1>1, WriterIsNext DEF FinishWrite, IInv, TypeOK
  <1>3. PICK s \in {"ok", "lost"} : step' = [step EXCEPT ![c] = s]
    BY DEF FinishWrite, Answer, StepTo
  <1>4. /\ nextSeq' = nextSeq + 1 /\ partial' = NoPartial /\ gate' = NoConn
        /\ UNCHANGED <<exited, written, conn, reqSeq, reqChunk, off, client>>
    BY <1>2 DEF FinishWrite
  <1>5. partial'.off = 0 /\ partial' \in [seq : Nat, off : 0..ChunkLen]
    BY <1>4 DEF NoPartial
  <1>6. TypeOK'
    BY <1>2, <1>3, <1>4, <1>5, SMTT(30) DEF IInv, TypeOK, client
  <1>7. Numbers' /\ Queue'
    BY <1>2, <1>4, QueueQuiet DEF IInv, Numbers, client
  <1>8. Requests'
    <2>1. \A d \in Conn : step'[d] # "writing" /\ d # NoConn
      BY <1>2, <1>3, <1>4 DEF IInv, TypeOK, Requests, RequestOf, Conn, NoConn
    <2>2. QED
      BY <1>1, <1>2, <1>3, <1>4, <1>5, <2>1 DEF IInv, TypeOK, Requests, RequestOf, client
  <1>9. written # <<>> /\ written[Len(written)] = <<nextSeq + 1, ChunkLen>>
    BY <1>2 DEF IInv, Ends
  <1>10. Ends' /\ InOrder'
    <2>1. Ends'
      BY <1>2, <1>4, <1>5, <1>9 DEF IInv, Ends
    <2>2. InOrder'
      BY <1>4 DEF IInv, Numbers, InOrder
    <2>3. QED
      BY <2>1, <2>2
  <1>11. Complete'
    <2>1. Whole(nextSeq + 1)
      BY <1>2 DEF IInv, Complete, Whole
    <2>2. \A i \in 1..nextSeq' : Whole(i)
      BY <1>2, <1>4, <2>1 DEF IInv, Complete
    <2>3. \A i \in 1..nextSeq' : Whole(i)'
      BY <1>4, <2>2 DEF Whole
    <2>4. \A j \in 1..partial'.off :
            \E k \in 1..Len(written') : written'[k] = <<nextSeq' + 1, j>>
      BY <1>5
    <2>5. QED
      BY <1>4, <2>3, <2>4 DEF IInv, Complete, client
  <1>12. QED
    BY <1>6, <1>7, <1>8, <1>10, <1>11 DEF IInv

\* What a failed write wrote stays recorded.
LEMMA WriteFailsStep == ASSUME IInv, NEW c \in Conn, WriteFails(c) PROVE IInv'
  <1> USE InputAssumption DEF client
  <1>1. step[c] = "writing" /\ gate = c
    BY WriterIsNext DEF WriteFails, Runs
  <1>2. PICK s \in {"error", "lost"} : step' = [step EXCEPT ![c] = s]
    BY DEF WriteFails, Answer, StepTo
  <1>3. TypeOK'
    BY <1>2 DEF WriteFails, IInv, TypeOK
  <1>4. Numbers' /\ Queue' /\ Ends' /\ InOrder' /\ Complete'
    BY BytesQuiet, QueueQuiet DEF WriteFails, IInv, Numbers, Complete
  <1>5. \A d \in Conn : step'[d] # "writing" /\ gate' # d
    BY <1>1, <1>2, SMTT(30) DEF WriteFails, IInv, TypeOK, Requests, RequestOf, Conn, NoConn
  <1>6. Requests'
    BY <1>1, <1>2, <1>5 DEF WriteFails, IInv, TypeOK, Requests, RequestOf
  <1>7. QED
    BY <1>3, <1>4, <1>6 DEF IInv

\* A connection that is gone is not a new one.
LEMMA TeardownStep == ASSUME IInv, NEW c \in Conn, Teardown(c) PROVE IInv'
  <1> USE InputAssumption DEF Teardown, pty, request, client
  <1>1. TypeOK'
    BY DEF IInv, TypeOK
  <1>2. Numbers' /\ Queue' /\ Ends' /\ InOrder' /\ Complete'
    BY BytesQuiet, QueueQuiet DEF IInv, TypeOK, Numbers, Complete
  <1>3. Requests'
    BY DEF IInv, TypeOK, Requests, RequestOf
  <1>4. QED
    BY <1>1, <1>2, <1>3 DEF IInv

\* A write cut short leaves its progress and frees the gate it held.
LEMMA CancelledStep == ASSUME IInv, NEW c \in Conn, Cancelled(c) PROVE IInv'
  <1> USE InputAssumption DEF client
  <1>1. step' = [step EXCEPT ![c] = "lost"] /\ step[c] \in {"waiting", "writing"}
    BY DEF Cancelled, StepTo
  <1>2. TypeOK'
    BY <1>1 DEF Cancelled, IInv, TypeOK
  <1>3. Numbers' /\ Queue' /\ Ends' /\ InOrder' /\ Complete'
    BY BytesQuiet, QueueQuiet DEF Cancelled, IInv, Numbers, Complete
  <1>4. step'[c] = "lost" /\ gate' # c
    BY <1>1 DEF Cancelled, IInv, TypeOK, Conn, NoConn
  <1>5. Requests'
    <2>1. RequestOf(c)'
      BY <1>1, <1>4 DEF Cancelled, IInv, Requests, RequestOf
    <2>2. ASSUME NEW d \in Conn, d # c PROVE RequestOf(d)'
      <3>1. step'[d] = step[d] /\ (step'[d] = "writing" <=> gate' = d)
        <4>1. step'[d] = step[d] /\ (gate' = d <=> gate = d)
          BY <1>1, <2>2, SMTT(30) DEF Cancelled, IInv, TypeOK, Conn, NoConn
        <4>2. step[d] = "writing" <=> gate = d
          BY DEF IInv, Requests, RequestOf
        <4>3. QED
          BY <4>1, <4>2, Zenon
      <3>2. UNCHANGED <<nextSeq, partial, conn, reqSeq, reqChunk, off, client>>
        BY DEF Cancelled
      <3>3. QED
        BY <3>1, <3>2 DEF IInv, Requests, RequestOf
    <2>3. QED
      BY <2>1, <2>2 DEF Cancelled, IInv, Requests
  <1>6. QED
    BY <1>2, <1>3, <1>5 DEF IInv

\* The shell's exit changes none of it.
LEMMA ExitStep == ASSUME IInv, Exit PROVE IInv'
  <1> USE InputAssumption DEF Exit, request, client
  <1>1. TypeOK'
    BY DEF IInv, TypeOK
  <1>2. Numbers' /\ Queue' /\ Ends' /\ InOrder' /\ Complete'
    BY BytesQuiet, QueueQuiet DEF IInv, Numbers, Complete
  <1>3. Requests'
    BY DEF IInv, Requests, RequestOf
  <1>4. QED
    BY <1>1, <1>2, <1>3 DEF IInv

\* A step that changes nothing.
LEMMA StutterStep == ASSUME IInv, UNCHANGED vars PROVE IInv'
  <1> USE DEF vars, pty, request, client
  <1>1. TypeOK'
    BY DEF IInv, TypeOK
  <1>2. Numbers' /\ Queue' /\ Ends' /\ InOrder' /\ Complete'
    BY BytesQuiet, QueueQuiet DEF IInv, Numbers, Complete
  <1>3. Requests'
    BY DEF IInv, Requests, RequestOf
  <1>4. QED
    BY <1>1, <1>2, <1>3 DEF IInv

\* Until the first restart no step breaks the invariant.
OneLife == life \in Nat /\ (life = 0 => IInv)

LEMMA NextStep == OneLife /\ [Next]_vars => OneLife'
  <1> SUFFICES ASSUME OneLife, [Next]_vars PROVE OneLife'
    OBVIOUS
  <1>1. life' \in Nat /\ (life' = 0 => life = 0)
    BY DEF OneLife, Next, Type, Pop, Restart, Exit, Connect, Send, Acknowledge, GiveUp,
           Daemon, Deliver, Enter, WriteByte, FinishWrite, WriteFails, Cancelled, Teardown,
           client, vars
  <1> SUFFICES ASSUME IInv, life' = 0 PROVE IInv'
    BY <1>1 DEF OneLife
  <1>2. CASE \E n \in 1..MaxTyped : Type(n)
    BY <1>2, TypeStep
  <1>3. CASE Pop
    BY <1>3, PopStep
  <1>4. CASE Restart
    BY <1>4 DEF Restart, IInv, Numbers
  <1>5. CASE Exit
    BY <1>5, ExitStep
  <1>6. ASSUME NEW c \in Conn, Connect(c) \/ Send(c) \/ Acknowledge(c) \/ GiveUp(c)
        PROVE  IInv'
    BY <1>6, ConnectStep, SendStep, AcknowledgeStep, GiveUpStep
  <1>7. ASSUME NEW c \in Conn, Daemon(c) \/ Teardown(c)
        PROVE  IInv'
    BY <1>7, DeliverStep, EnterStep, WriteByteStep, FinishWriteStep, WriteFailsStep,
       CancelledStep, TeardownStep DEF Daemon
  <1>8. CASE UNCHANGED vars
    BY <1>8, StutterStep
  <1>9. QED
    BY <1>2, <1>3, <1>4, <1>5, <1>6, <1>7, <1>8 DEF Next

-------------------------------------------------------------------------------
\* The invariant holds until the application restarts (write_input, its gate
\* and record_input_progress; the client's queue and its one request).
THEOREM InputInvariant == Spec => [](life = 0 => IInv)
  <1>1. Init => OneLife
    BY InitIInv DEF Init, OneLife
  <1>2. OneLife => (life = 0 => IInv)
    BY DEF OneLife
  <1>3. QED
    BY <1>1, <1>2, NextStep, PTL DEF Spec

\* The shell is given the bytes as typed: no byte twice, none skipped, none out
\* of turn, over any number of lost connections, timeouts and resumed writes.
THEOREM BytesInOrder == Spec => []InOrder
  <1>1. (life = 0 => IInv) => InOrder
    BY DEF IInv, InOrder
  <1>2. QED
    BY <1>1, InputInvariant, PTL

\* What the client was told is written has been written, all of it.
THEOREM AcknowledgedWritten == Spec => []AckedInOneLife
  <1>1. (life = 0 => IInv) => AckedInOneLife
    BY DEF IInv, TypeOK, Numbers, Complete, AckedIsWritten, AckedInOneLife
  <1>2. QED
    BY <1>1, InputInvariant, PTL

-------------------------------------------------------------------------------
(* Numbers over any number of restarts *)

\* The client never is ahead of the daemon, a request never ahead of the daemon,
\* and the request the client waits for is the one it counts.
NumberOf(c) ==
    /\ conn[c] = "new" => step[c] = "none" /\ c # cur
    /\ step[c] # "none" => reqSeq[c] <= nextSeq
    /\ (c = cur /\ step[c] # "none") => reqSeq[c] = cseq
    /\ step[c] = "ok" => reqSeq[c] < nextSeq

Behind ==
    /\ nextSeq \in Nat /\ cseq \in Nat /\ cseq <= nextSeq
    /\ conn \in [Conn -> {"new", "up", "gone"}]
    /\ step \in [Conn -> {"none", "sent", "waiting", "writing", "ok", "error", "lost"}]
    /\ reqSeq \in [Conn -> Nat]
    /\ \A c \in Conn : NumberOf(c)

\* Steps of the client.
LEMMA BehindClient ==
    ASSUME Behind, NEW c \in Conn, Connect(c) \/ Send(c) \/ Acknowledge(c) \/ GiveUp(c)
    PROVE  Behind'
  <1>1. CASE Connect(c)
    BY <1>1 DEF Connect, Behind, NumberOf, pty, request
  <1>2. CASE Send(c)
    BY <1>2 DEF Send, Behind, NumberOf, pty, client
  <1>3. CASE Acknowledge(c)
    BY <1>3 DEF Acknowledge, Behind, NumberOf, pty
  <1>4. CASE GiveUp(c)
    BY <1>4 DEF GiveUp, Behind, NumberOf, pty, request, Conn, NoConn
  <1>5. QED
    BY <1>1, <1>2, <1>3, <1>4

\* Steps of the daemon: a number counts as written before its answer is given.
LEMMA BehindDaemon ==
    ASSUME Behind, NEW c \in Conn, Daemon(c) \/ Teardown(c)
    PROVE  Behind'
  <1> USE DEF client
  <1>1. CASE Deliver(c)
    BY <1>1 DEF Deliver, StepTo, Behind, NumberOf, pty
  <1>2. CASE Enter(c)
    <2>1. PICK s \in {"ok", "error", "writing"} :
            step' = [step EXCEPT ![c] = s] /\ (s = "ok" => reqSeq[c] < nextSeq)
      BY <1>2 DEF Enter, StepTo, IsDuplicate
    <2>2. step[c] = "waiting" /\ UNCHANGED <<nextSeq, conn, reqSeq, cseq, cur>>
      BY <1>2 DEF Enter
    <2>3. QED
      BY <2>1, <2>2 DEF Behind, NumberOf
  <1>3. CASE WriteByte(c)
    BY <1>3 DEF WriteByte, Behind, NumberOf
  <1>4. CASE FinishWrite(c)
    <2>1. step[c] = "writing" /\ UNCHANGED <<conn, reqSeq, cseq, cur>>
      BY <1>4 DEF FinishWrite, Runs
    <2>2. PICK s \in {"ok", "lost"} : step' = [step EXCEPT ![c] = s]
      BY <1>4 DEF FinishWrite, Answer, StepTo
    <2>3. nextSeq' \in Nat /\ nextSeq <= nextSeq' /\ reqSeq[c] < nextSeq'
      BY <1>4, <2>1 DEF FinishWrite, Behind, NumberOf
    <2>4. QED
      BY <2>1, <2>2, <2>3 DEF Behind, NumberOf
  <1>5. CASE WriteFails(c)
    <2>1. PICK s \in {"error", "lost"} : step' = [step EXCEPT ![c] = s]
      BY <1>5 DEF WriteFails, Answer, StepTo
    <2>2. QED
      BY <1>5, <2>1 DEF WriteFails, Runs, Behind, NumberOf
  <1>6. CASE Cancelled(c)
    BY <1>6 DEF Cancelled, StepTo, Behind, NumberOf
  <1>7. CASE Teardown(c)
    BY <1>7 DEF Teardown, Behind, NumberOf, pty, request
  <1>8. QED
    BY <1>1, <1>2, <1>3, <1>4, <1>5, <1>6, <1>7 DEF Daemon

\* No request is ever refused as a gap in the numbers, whatever restarts.
THEOREM NeverGap == Spec => []NoGap
  <1>1. Init => Behind
    BY DEF Init, Behind, NumberOf, Conn, NoConn
  <1>2. Behind /\ [Next]_vars => Behind'
    <2> SUFFICES ASSUME Behind, [Next]_vars PROVE Behind'
      OBVIOUS
    <2>1. CASE \E n \in 1..MaxTyped : Type(n)
      BY <2>1 DEF Type, Behind, NumberOf, pty, request
    <2>2. CASE Pop
      BY <2>2 DEF Pop, Behind, NumberOf, pty, request
    <2>3. CASE Restart
      BY <2>3 DEF Restart, Behind, NumberOf, pty, request, Conn, NoConn
    <2>4. CASE Exit
      BY <2>4 DEF Exit, Behind, NumberOf, request, client
    <2>5. CASE UNCHANGED vars
      BY <2>5 DEF vars, pty, request, client, Behind, NumberOf
    <2>6. QED
      BY <2>1, <2>2, <2>3, <2>4, <2>5, BehindClient, BehindDaemon DEF Next
  <1>3. Behind => NoGap
    BY DEF Behind, NumberOf, NoGap
  <1>4. QED
    BY <1>1, <1>2, <1>3, PTL DEF Spec
===============================================================================
