---------------------------------- MODULE PtyInput ----------------------------------
(***************************************************************************)
(* Input of one persistent terminal, end to end: the client's ordered      *)
(* queue (remote_ssh/server/terminal.rs), its connections, the daemon's    *)
(* input loop (daemon.rs) and the gate around write_input (pty.rs).        *)
(*                                                                         *)
(* An input is cut into chunks; a chunk is one numbered request and is     *)
(* known here by its place in the order typed.  The client has one request *)
(* outstanding and gives a connection up when it hears nothing.  The       *)
(* daemon may learn of that much later and meanwhile still works on the    *)
(* request, next to the same request sent again on the next connection.    *)
(***************************************************************************)
EXTENDS Naturals, Sequences

CONSTANTS
    NumConns,      \* bound: connections in a behaviour; the last stays up
    MaxTyped,      \* bound: chunks the user types
    ChunkLen,      \* bytes of a chunk
    Restarts,      \* bound: restarts of the application
    Blocking       \* ~writer_nonblocking: writes run in a thread (Windows)

ASSUME InputAssumption ==
    /\ NumConns \in Nat /\ MaxTyped \in Nat /\ Restarts \in Nat
    /\ ChunkLen \in Nat \ {0} /\ Blocking \in BOOLEAN

Conn == 1..NumConns
NoConn == 0

VARIABLES
    nextSeq,       \* TermState.next_input_seq
    partial,       \* TermState.input_partial; None is offset 0
    gate,          \* PtyTerm.input_gate: the connection whose write holds it
    exited,        \* TermState.exited
    written,       \* the bytes the shell was given: <<chunk, position>>
    conn,          \* the daemon's side of a connection: "new", "up", "gone"
    step,          \* its one request: "none", "sent", "waiting" for the gate,
                   \* "writing", answered "ok" or "error", or "lost"
    reqSeq,        \* ... its sequence number
    reqChunk,      \* ... its data
    off,           \* ... how much of it is written
    cur,           \* the connection the client uses
    cseq,          \* PersistentTerminal.next_input_seq
    pending,       \* PersistentTerminal.pending_input: ranges of chunks
    sending,       \* the input being sent: the range not acknowledged yet
    fresh,         \* the client has just started and must attach to learn cseq
    typed,         \* chunks typed so far, in all
    acked,         \* chunks acknowledged to the client
    life           \* restarts of the application so far

pty == <<nextSeq, partial, gate, exited, written>>
request == <<step, reqSeq, reqChunk, off>>
client == <<cur, cseq, pending, sending, fresh, typed, acked, life>>
vars == <<pty, conn, request, client>>

Range(from, to) == [from |-> from, to |-> to]
Nothing == Range(1, 0)
IsEmpty(r) == r.from > r.to

NoPartial == [seq |-> 0, off |-> 0]

Init ==
    /\ nextSeq = 0 /\ partial = NoPartial /\ gate = NoConn
    /\ exited = FALSE /\ written = <<>>
    /\ conn = [c \in Conn |-> "new"]
    /\ step = [c \in Conn |-> "none"]
    /\ reqSeq = [c \in Conn |-> 0] /\ reqChunk = [c \in Conn |-> 0]
    /\ off = [c \in Conn |-> 0]
    /\ cur = NoConn /\ cseq = 0 /\ pending = <<>> /\ sending = Nothing
    /\ fresh = TRUE /\ typed = 0 /\ acked = {} /\ life = 0

-------------------------------------------------------------------------------
(* The client *)

\* enqueue_input, an input of n chunks (an input beyond the queue's byte limit
\* is refused as a whole and changes nothing).
Type(n) ==
    /\ typed + n <= MaxTyped
    /\ pending' = Append(pending, Range(typed + 1, typed + n))
    /\ typed' = typed + n
    /\ UNCHANGED <<pty, conn, request, cur, cseq, sending, fresh, acked, life>>

\* A new connection has attached.  A client that has just started takes the
\* sequence number from the answer, one that reconnects keeps its own.  An
\* attach that finds the shell exited ends the terminal.
Connect(c) ==
    /\ cur = NoConn /\ ~exited
    /\ conn[c] = "new" /\ \A b \in Conn : b < c => conn[b] # "new"
    /\ conn' = [conn EXCEPT ![c] = "up"]
    /\ cur' = c
    /\ cseq' = IF fresh THEN nextSeq ELSE cseq
    /\ fresh' = FALSE
    /\ UNCHANGED <<pty, request, pending, sending, typed, acked, life>>

\* flush_pending_to_session takes the next input ...
Pop ==
    /\ cur # NoConn
    /\ IsEmpty(sending) /\ pending # <<>>
    /\ sending' = Head(pending)
    /\ pending' = Tail(pending)
    /\ UNCHANGED <<pty, conn, request, cur, cseq, fresh, typed, acked, life>>

\* ... and send_input_to_session sends it chunk by chunk.
Send(c) ==
    /\ cur = c /\ step[c] = "none"
    /\ ~IsEmpty(sending)
    /\ step' = [step EXCEPT ![c] = "sent"]
    /\ reqSeq' = [reqSeq EXCEPT ![c] = cseq]
    /\ reqChunk' = [reqChunk EXCEPT ![c] = sending.from]
    /\ UNCHANGED <<pty, conn, off, client>>

\* The answer: on to the next chunk (a duplicate counts as written).
Acknowledge(c) ==
    /\ cur = c /\ step[c] = "ok"
    /\ step' = [step EXCEPT ![c] = "none"]
    /\ cseq' = cseq + 1
    /\ acked' = acked \cup {reqChunk[c]}
    /\ sending' = Range(sending.from + 1, sending.to)
    /\ UNCHANGED <<pty, conn, reqSeq, reqChunk, off, cur, pending, fresh, typed, life>>

\* Mutant: unsent input is put at the back.
Requeued_back == IF IsEmpty(sending) THEN pending ELSE Append(pending, sending)

\* requeue_front
Requeued == IF IsEmpty(sending) THEN pending ELSE <<sending>> \o pending

\* An error answer, a request timeout, a heartbeat timeout or a closed channel:
\* the rest of the input goes back to the front of the queue.
GiveUp(c) ==
    /\ cur = c
    /\ step[c] = "error" \/ c < NumConns
    /\ cur' = NoConn
    /\ pending' = Requeued
    /\ sending' = Nothing
    /\ UNCHANGED <<pty, conn, request, cseq, fresh, typed, acked, life>>

\* The application ends and starts again; its queue is in memory only.
Restart ==
    /\ life < Restarts
    /\ life' = life + 1
    /\ cur' = NoConn /\ fresh' = TRUE
    /\ pending' = <<>> /\ sending' = Nothing
    /\ UNCHANGED <<pty, conn, request, cseq, typed, acked>>

-------------------------------------------------------------------------------
(* The daemon *)

StepTo(c, s) == step' = [step EXCEPT ![c] = s]

\* enqueue_pty_input, and pty_input_loop takes it up.
Deliver(c) ==
    /\ step[c] = "sent" /\ conn[c] = "up"
    /\ StepTo(c, "waiting")
    /\ UNCHANGED <<pty, conn, reqSeq, reqChunk, off, client>>

\* Where a write of this number resumes.
Skip(seq) == IF partial.seq = seq THEN partial.off ELSE 0

\* Mutant: the next number counts as a duplicate too.
IsDuplicate_orNext(seq) == seq <= nextSeq
IsDuplicate(seq) == seq < nextSeq

\* write_input with the gate: a duplicate is acknowledged, a gap and an exited
\* terminal are errors.
Enter(c) ==
    /\ step[c] = "waiting" /\ conn[c] = "up" /\ gate = NoConn
    /\ \/ /\ IsDuplicate(reqSeq[c])
          /\ StepTo(c, "ok") /\ UNCHANGED <<gate, off>>
       \/ /\ ~IsDuplicate(reqSeq[c])
          /\ reqSeq[c] # nextSeq \/ exited
          /\ StepTo(c, "error") /\ UNCHANGED <<gate, off>>
       \/ /\ ~IsDuplicate(reqSeq[c]) /\ reqSeq[c] = nextSeq /\ ~exited
          /\ gate' = c /\ StepTo(c, "writing")
          /\ off' = [off EXCEPT ![c] = Skip(reqSeq[c])]
    /\ UNCHANGED <<nextSeq, partial, exited, written, conn, reqSeq, reqChunk, client>>

\* A task is aborted with its connection; a thread runs on until it looks at the
\* cancel flag again.
Runs(c) == step[c] = "writing" /\ (conn[c] = "up" \/ Blocking)

\* One round of the write loop: the shell takes a byte and the progress is
\* recorded (record_input_progress).
WriteByte(c) ==
    /\ Runs(c) /\ off[c] < ChunkLen /\ ~exited
    /\ written' = Append(written, <<reqChunk[c], off[c] + 1>>)
    /\ off' = [off EXCEPT ![c] = @ + 1]
    /\ partial' = IF nextSeq = reqSeq[c] THEN [seq |-> reqSeq[c], off |-> off[c] + 1]
                  ELSE partial
    /\ UNCHANGED <<nextSeq, gate, exited, conn, step, reqSeq, reqChunk, client>>

\* The answer of a write whose connection is gone reaches nobody.
Answer(c, s) == StepTo(c, IF conn[c] = "up" THEN s ELSE "lost")

\* The flush after the last byte: only now does the number count as written.
FinishWrite(c) ==
    /\ Runs(c) /\ off[c] = ChunkLen
    /\ IF nextSeq = reqSeq[c]
         THEN nextSeq' = nextSeq + 1 /\ partial' = NoPartial
         ELSE UNCHANGED <<nextSeq, partial>>
    /\ gate' = NoConn
    /\ Answer(c, "ok")
    /\ UNCHANGED <<exited, written, conn, reqSeq, reqChunk, off, client>>

\* Writing to a shell that has exited fails.
WriteFails(c) ==
    /\ Runs(c) /\ exited
    /\ gate' = NoConn
    /\ Answer(c, "error")
    /\ UNCHANGED <<nextSeq, partial, exited, written, conn, reqSeq, reqChunk, off, client>>

\* handle_conn's teardown, whenever the daemon learns that the connection is
\* gone: cancel_all sets the flag and aborts the input task ...
Teardown(c) ==
    /\ conn[c] = "up" /\ c < NumConns
    /\ conn' = [conn EXCEPT ![c] = "gone"]
    /\ UNCHANGED <<pty, request, client>>

\* The exit event does the same to the connection that attached last (the
\* terminal's route, dispatch_pty_exit).
Stopped(c) ==
    \/ conn[c] = "gone"
    \/ exited /\ conn[c] = "up" /\ \A b \in Conn : b > c => conn[b] = "new"

\* Mutant: a cancelled request leaves the gate locked.
Cancelled_keepsGate(c) ==
    /\ Stopped(c) /\ step[c] \in {"waiting", "writing"}
    /\ UNCHANGED gate
    /\ StepTo(c, "lost")
    /\ UNCHANGED <<nextSeq, partial, exited, written, conn, reqSeq, reqChunk, off, client>>

\* ... and the write ends where it is, unanswered.
Cancelled(c) ==
    /\ Stopped(c) /\ step[c] \in {"waiting", "writing"}
    /\ gate' = IF gate = c THEN NoConn ELSE gate
    /\ StepTo(c, "lost")
    /\ UNCHANGED <<nextSeq, partial, exited, written, conn, reqSeq, reqChunk, off, client>>

\* The shell exits.
Exit ==
    /\ ~exited
    /\ exited' = TRUE
    /\ UNCHANGED <<nextSeq, partial, gate, written, conn, request, client>>

-------------------------------------------------------------------------------
Daemon(c) ==
    \/ Deliver(c) \/ Enter(c) \/ WriteByte(c) \/ FinishWrite(c) \/ WriteFails(c)
    \/ Cancelled(c)

Next ==
    \/ \E n \in 1..MaxTyped : Type(n)
    \/ Pop \/ Restart \/ Exit
    \/ \E c \in Conn : \/ Connect(c) \/ Send(c) \/ Acknowledge(c) \/ GiveUp(c)
                       \/ Daemon(c) \/ Teardown(c)

\* Tasks run and the shell reads its input.  The client retries for ever and
\* gives up a connection that the daemon has closed or that does not answer.
Fairness ==
    /\ WF_vars(Pop)
    /\ \A c \in Conn :
         /\ WF_vars(Connect(c)) /\ WF_vars(Send(c)) /\ WF_vars(Acknowledge(c))
         /\ WF_vars((conn[c] = "gone" \/ step[c] = "error") /\ GiveUp(c))
         /\ WF_vars(Daemon(c))

Spec == Init /\ [][Next]_vars
FairSpec == Spec /\ Fairness

-------------------------------------------------------------------------------
Ranges == [from : 1..MaxTyped + 1, to : 0..MaxTyped]

\* Types; above all, no write runs past the end of its chunk.
TypeOK ==
    /\ nextSeq \in Nat
    /\ partial \in [seq : Nat, off : 0..ChunkLen]
    /\ gate \in Conn \cup {NoConn} /\ exited \in BOOLEAN
    /\ written \in Seq((1..MaxTyped) \X (1..ChunkLen))
    /\ conn \in [Conn -> {"new", "up", "gone"}]
    /\ step \in [Conn -> {"none", "sent", "waiting", "writing", "ok", "error", "lost"}]
    /\ reqSeq \in [Conn -> Nat] /\ reqChunk \in [Conn -> 0..MaxTyped]
    /\ off \in [Conn -> 0..ChunkLen]
    /\ cur \in Conn \cup {NoConn} /\ cseq \in Nat
    /\ pending \in Seq(Ranges) /\ sending \in Ranges
    /\ fresh \in BOOLEAN /\ typed \in 0..MaxTyped
    /\ acked \subseteq 1..MaxTyped /\ life \in 0..Restarts

\* The byte that follows byte b of what the user typed.
ByteAfter(b) == IF b[2] < ChunkLen THEN <<b[1], b[2] + 1>> ELSE <<b[1] + 1, 1>>

\* Until the application restarts the shell is given the bytes as typed: whatever
\* connections come and go, no byte is skipped, written twice or out of turn.
InOrder ==
    life = 0 => \A k \in 1..Len(written) :
                   written[k] = IF k = 1 THEN <<1, 1>> ELSE ByteAfter(written[k - 1])

Whole(i) == \A j \in 1..ChunkLen : \E k \in 1..Len(written) : written[k] = <<i, j>>

\* What the client was told is written has been written, all of it.
AckedIsWritten == \A i \in acked : Whole(i)

\* ... which holds until the application restarts.
AckedInOneLife == life = 0 => AckedIsWritten

\* The client's numbers never run ahead of the daemon's: no request is ever
\* refused as a gap ("ptyInputSequence").
NoGap == \A c \in Conn : step[c] = "waiting" => reqSeq[c] <= nextSeq

\* Whatever was typed reaches a shell that reads its input and does not exit,
\* unless the application is restarted and its queue lost.
InputArrives == \A i \in 1..MaxTyped : typed >= i ~> (exited \/ life > 0 \/ Whole(i))
===============================================================================
