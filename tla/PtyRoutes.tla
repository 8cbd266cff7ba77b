-------------------------------- MODULE PtyRoutes --------------------------------
(***************************************************************************)
(* How the daemon routes one terminal's output to connections              *)
(* (qingcode-server/src/daemon.rs: PtyRoute, pty_events, pty.attach,       *)
(* connection teardown), on top of the terminal of pty.rs.                 *)
(*                                                                         *)
(* Processes: the reader thread, the pty_events task, per connection its   *)
(* own loop (with its teardown) and the task of its one attach request     *)
(* (or of its create), and the serve loop's reap.  One action is one       *)
(* critical section of the routes lock, or one step between two of them.   *)
(* All connections are the same client's, which reconnects under the same  *)
(* client id; the terminal has no other owner.  Frames are numbered by     *)
(* block; a block is one frame (READ_BUF_BYTES is below the frame limit).  *)
(***************************************************************************)
EXTENDS Integers, Sequences

CONSTANTS
    NumConns,      \* bound: connections in a behaviour
    MaxSeq,        \* bound: blocks the terminal prints
    QueueDepth,    \* PTY_EVENT_QUEUE_DEPTH
    MaxPending,    \* ROUTE_PENDING_MAX_BYTES, in blocks
    Detachers,     \* bound: connections whose client may ask for a detach
    Orphaned       \* start with a running terminal whose creator is long gone

ASSUME RoutesAssumption ==
    /\ NumConns \in Nat /\ MaxSeq \in Nat
    /\ QueueDepth \in Nat \ {0} /\ MaxPending \in Nat
    /\ Detachers \subseteq 1..NumConns /\ Orphaned \in BOOLEAN

Conn == 1..NumConns
ExitEvent == -1              \* PtyEvent::Exit; PtyEvent::Data is its seq

VARIABLES
    reg,           \* the terminal is in the host's registry
    proc,          \* "unborn", "running", "exited"
    attached,      \* TermState.attached
    nextSeq,       \* RingBuffer.next_seq
    queue,         \* the PtyEvent channel; its last element may still be in
                   \* the hands of the reader, blocked on a full channel
    route,         \* Daemon.routes[id]
    ev,            \* pty_events: "idle", or how far it is in clearing a route
    evConn,        \* ... of this connection
    conn,          \* handle_conn: "new", "open", then the steps of its teardown
    closing,       \* OutboundSender.closing
    task,          \* the create/attach/detach request task of a connection
    offer,         \* its AttachResult; `seq` advances with the replay
    batch,         \* finish_attach_replay's drained pending items
    reaping,       \* reap has removed the terminal, routes.remove is to follow
    out            \* what was queued to each connection: see OrderedDelivery

host == <<reg, proc, attached, nextSeq>>
events == <<queue, ev, evConn>>
conns == <<conn, closing>>
tasks == <<task, offer, batch>>
vars == <<host, events, route, conns, tasks, reaping, out>>

\* The client's view of a connection, the abstract specification.
Delivery == INSTANCE OrderedDelivery

\* A connection that is gone, or whose client has detached, tells nobody.
Told(c, kind, s) ==
    out' = IF conn[c] = "gone" \/ out[c].k = "left" THEN out
           ELSE [out EXCEPT ![c] = Delivery!After(@, kind, s)]

Registered(c) == conn[c] \notin {"new", "gone"}          \* in Daemon.conns

\* attach_with runs with the routes lock held, between "looked" and "reply".
RoutesFree == \A c \in Conn : task[c] # "looked"

NewRoute(c, next, phase, exited) ==
    [conn |-> c, next |-> next, phase |-> phase, pending |-> <<>>, exitDone |-> exited]
NoRoute == NewRoute(0, 0, "none", FALSE)

NoOffer == [seq |-> 0, upto |-> 0, exited |-> FALSE]

Init ==
    /\ reg = Orphaned /\ attached = FALSE
    /\ proc = IF Orphaned THEN "running" ELSE "unborn"
    /\ nextSeq = 0
    /\ queue = <<>> /\ ev = "idle" /\ evConn = 0
    /\ route = NoRoute
    /\ conn = [c \in Conn |-> "new"]
    /\ closing = [c \in Conn |-> FALSE]
    /\ task = [c \in Conn |-> "idle"]
    /\ offer = [c \in Conn |-> NoOffer]
    /\ batch = [c \in Conn |-> <<>>]
    /\ reaping = FALSE
    /\ out = [c \in Conn |-> Delivery!Nothing]

-------------------------------------------------------------------------------
(* The terminal (reader thread, kill, reap) *)

\* push_output: the seq is taken and the block buffered under the host lock,
\* the event is sent after it.
Produce ==
    /\ proc = "running" /\ reg
    /\ nextSeq < MaxSeq
    /\ Len(queue) <= QueueDepth
    /\ nextSeq' = nextSeq + 1
    /\ queue' = Append(queue, nextSeq)
    /\ UNCHANGED <<reg, proc, attached, ev, evConn, route, conns, tasks, reaping, out>>

\* read_loop's end: `exited` is set, then the exit event is sent.
ProcExit ==
    /\ proc = "running"
    /\ Len(queue) <= QueueDepth
    /\ proc' = "exited"
    /\ queue' = Append(queue, ExitEvent)
    /\ UNCHANGED <<reg, attached, nextSeq, ev, evConn, route, conns, tasks, reaping, out>>

\* pty.kill, on any connection: out of the registry; the route is left to the
\* exit event.
Kill ==
    /\ reg
    /\ reg' = FALSE
    /\ UNCHANGED <<proc, attached, nextSeq, events, route, conns, tasks, reaping, out>>

\* serve's reap tick.  detached_ttl may have passed whenever the terminal is
\* detached; EXITED_RETENTION (half an hour) is long enough for pty_events to
\* have dispatched the exit.  The routes are cleaned after the host has removed
\* the terminal.
Reap ==
    /\ reg /\ ~reaping
    /\ \/ proc = "exited" /\ queue = <<>>
       \/ proc = "running" /\ ~attached
    /\ reg' = FALSE
    /\ reaping' = TRUE
    /\ UNCHANGED <<proc, attached, nextSeq, events, route, conns, tasks, out>>

ReapRoute ==
    /\ reaping /\ RoutesFree
    /\ reaping' = FALSE
    /\ route' = NoRoute
    /\ UNCHANGED <<host, events, conns, tasks, out>>

\* PtyHost::detach: an error for an unknown terminal.
HostDetach == attached' = IF reg THEN FALSE ELSE attached

-------------------------------------------------------------------------------
(* pty_events *)

\* try_send on a connection: it may find the queue full, which aborts the
\* connection, and it fails when the connection is no longer registered.
Sent(c, kind, s) ==
    /\ Registered(c)
    /\ Told(c, kind, s)
    /\ UNCHANGED closing

NotSent(c) ==
    /\ closing' = IF Registered(c) THEN [closing EXCEPT ![c] = TRUE] ELSE closing
    /\ UNCHANGED out

Quiet == UNCHANGED <<out, closing>>

\* clear_route_for_conn in three steps: the client id is looked up (which fails
\* for a connection that is gone), the route is removed if it is still the
\* caller's, and a removal is followed by a detach.
ClearStep(c) == IF Registered(c) THEN "remove" ELSE "removeOnly"
Owns(c) == route # NoRoute /\ route.conn = c
RemoveRoute(c) == route' = IF Owns(c) THEN NoRoute ELSE route

\* Overflow or SequenceGap: pty_events goes on to clear the route.
GiveUp == ev' = ClearStep(route.conn) /\ evConn' = route.conn

\* dispatch_pty_data of block s.
DispatchData(s) ==
    \/ /\ route = NoRoute \/ s < route.next
       /\ UNCHANGED <<route, ev, evConn>> /\ Quiet
    \/ /\ route # NoRoute /\ s > route.next
       /\ GiveUp /\ UNCHANGED route /\ Quiet
    \/ /\ route # NoRoute /\ s = route.next /\ route.phase # "live"
       /\ IF Len(route.pending) < MaxPending
            THEN /\ route' = [route EXCEPT !.next = s + 1, !.pending = Append(@, s)]
                 /\ UNCHANGED <<ev, evConn>>
            ELSE GiveUp /\ UNCHANGED route
       /\ Quiet
    \/ /\ route # NoRoute /\ s = route.next /\ route.phase = "live"
       /\ \/ /\ Sent(route.conn, "data", s)
             /\ route' = [route EXCEPT !.next = s + 1]
             /\ UNCHANGED <<ev, evConn>>
          \/ NotSent(route.conn) /\ GiveUp /\ UNCHANGED route

\* Mutant: not queued behind a replay.
DispatchExit_notQueued ==
    \/ /\ route = NoRoute \/ route.exitDone
       /\ UNCHANGED <<route, reg>> /\ Quiet
    \/ /\ route # NoRoute /\ ~route.exitDone /\ route.phase # "live"
       /\ route' = [route EXCEPT !.exitDone = TRUE]
       /\ UNCHANGED reg /\ Quiet
    \/ /\ route # NoRoute /\ ~route.exitDone /\ route.phase = "live"
       /\ route' = NoRoute
       /\ \/ Sent(route.conn, "exit", 0) /\ reg' = FALSE
          \/ NotSent(route.conn) /\ UNCHANGED reg

\* Mutant: the route outlives the exit.
DispatchExit_keepsRoute ==
    IF route = NoRoute \/ route.exitDone THEN UNCHANGED <<route, reg>> /\ Quiet
    ELSE /\ route' = [route EXCEPT !.exitDone = TRUE]
         /\ \/ Sent(route.conn, "exit", 0) /\ reg' = FALSE
            \/ NotSent(route.conn) /\ UNCHANGED reg

\* dispatch_pty_exit; release_exited drops the tombstone once the exit is queued.
DispatchExit ==
    \/ /\ route = NoRoute \/ route.exitDone
       /\ UNCHANGED <<route, reg>> /\ Quiet
    \/ /\ route # NoRoute /\ ~route.exitDone /\ route.phase # "live"
       /\ route' = [route EXCEPT !.exitDone = TRUE, !.pending = Append(@, ExitEvent)]
       /\ UNCHANGED reg /\ Quiet
    \/ /\ route # NoRoute /\ ~route.exitDone /\ route.phase = "live"
       /\ route' = NoRoute
       /\ \/ Sent(route.conn, "exit", 0) /\ reg' = FALSE
          \/ NotSent(route.conn) /\ UNCHANGED reg

Dispatch ==
    /\ ev = "idle" /\ queue # <<>> /\ RoutesFree
    /\ queue' = Tail(queue)
    /\ \/ Head(queue) # ExitEvent /\ DispatchData(Head(queue)) /\ UNCHANGED reg
       \/ Head(queue) = ExitEvent /\ DispatchExit /\ UNCHANGED <<ev, evConn>>
    /\ UNCHANGED <<proc, attached, nextSeq, conn, tasks, reaping>>

\* Overflow: clear_route_for_conn, then disconnect_conn.
EvRemove ==
    /\ ev \in {"remove", "removeOnly"} /\ RoutesFree
    /\ RemoveRoute(evConn)
    /\ ev' = IF ev = "remove" /\ Owns(evConn) THEN "detach" ELSE "disconnect"
    /\ UNCHANGED <<host, queue, evConn, conns, tasks, reaping, out>>

EvDetach ==
    /\ ev = "detach"
    /\ HostDetach
    /\ ev' = "disconnect"
    /\ UNCHANGED <<reg, proc, nextSeq, queue, evConn, route, conns, tasks, reaping, out>>

EvDisconnect ==
    /\ ev = "disconnect"
    /\ NotSent(evConn)
    /\ ev' = "idle" /\ evConn' = 0
    /\ UNCHANGED <<host, queue, route, conn, tasks, reaping>>

-------------------------------------------------------------------------------
(* Requests of a connection, each in a task of its own *)

Goto(c, step) == task' = [task EXCEPT ![c] = step]

\* A connection's first request is read: pty.create or pty.attach.  Its task
\* runs at any time from now on, even after the connection is gone.
Ask(c, what) ==
    /\ conn[c] = "new" /\ \A b \in Conn : b < c => conn[b] # "new"
    /\ IF what = "creating" THEN c = 1 /\ proc = "unborn" ELSE proc # "unborn"
    /\ conn' = [conn EXCEPT ![c] = "open"]
    /\ Goto(c, what)
    /\ UNCHANGED <<host, events, route, closing, offer, batch, reaping, out>>

\* create_pty_with_route: refused when the connection is closing or gone.  The
\* client keeps events and answers apart, so the stream starts here although
\* the answer may follow the first blocks.
Create(c) ==
    /\ task[c] = "creating" /\ RoutesFree
    /\ Goto(c, "done")
    /\ IF Registered(c) /\ ~closing[c]
         THEN /\ reg' = TRUE /\ proc' = "running" /\ attached' = TRUE
              /\ route' = NewRoute(c, 0, "live", FALSE)
              /\ Told(c, "created", 0)
         ELSE UNCHANGED <<reg, proc, attached, route, out>>
    /\ UNCHANGED <<nextSeq, events, conns, offer, batch, reaping>>

\* install_attach_route takes the routes lock and attach_with looks the
\* terminal up; it refuses an unknown one ...
AttachLookup(c) ==
    /\ task[c] = "asked" /\ RoutesFree
    /\ \/ reg /\ Goto(c, "looked") /\ Quiet
       \/ /\ ~reg /\ Goto(c, "done")
          /\ Sent(c, "refused", 0) \/ NotSent(c)
    /\ UNCHANGED <<host, events, route, conn, offer, batch, reaping>>

\* Mutant: the route expects what the client asked for.
AttachInstall_nextFromClient(c, from) ==
    /\ task[c] = "looked"
    /\ attached' = TRUE
    /\ offer' = [offer EXCEPT
                   ![c] = [seq |-> from, upto |-> nextSeq, exited |-> proc = "exited"]]
    /\ route' = NewRoute(c, from, "replaying", proc = "exited")
    /\ Goto(c, "reply")
    /\ UNCHANGED <<reg, proc, nextSeq, events, conns, batch, reaping, out>>

\* ... captures the state and installs the route.  What is replayed starts
\* anywhere: at the client's next block if the ring still covers it (module
\* RingBuffer), at the live end when the client gets the screen instead.
AttachInstall(c, from) ==
    /\ task[c] = "looked"
    /\ attached' = TRUE
    /\ offer' = [offer EXCEPT
                   ![c] = [seq |-> from, upto |-> nextSeq, exited |-> proc = "exited"]]
    /\ route' = NewRoute(c, nextSeq, "replaying", proc = "exited")
    /\ Goto(c, "reply")
    /\ UNCHANGED <<reg, proc, nextSeq, events, conns, batch, reaping, out>>

\* The answer, then the replay, block by block with back-pressure.
AttachReply(c) ==
    /\ task[c] = "reply"
    /\ Goto(c, "replay")
    /\ \/ /\ Registered(c) /\ UNCHANGED closing
          /\ out' = [out EXCEPT ![c] = Delivery!AfterReply(@, offer[c].seq, offer[c].upto,
                                                         offer[c].exited)]
       \/ NotSent(c)
    /\ UNCHANGED <<host, events, route, conn, offer, batch, reaping>>

ReplayBlock(c) ==
    /\ task[c] = "replay"
    /\ offer[c].seq < offer[c].upto
    /\ ~closing[c]
    /\ Told(c, "rep", offer[c].seq)
    /\ offer' = [offer EXCEPT ![c].seq = @ + 1]
    /\ UNCHANGED <<host, events, route, conns, task, batch, reaping>>

\* The replay breaks off: closing, or cancelled by the client.  The failure is
\* told if it still can be, and the route is cleared.
ReplayFails(c) ==
    /\ task[c] = "replay"
    /\ offer[c].seq < offer[c].upto
    /\ IF closing[c] THEN UNCHANGED out
       ELSE Told(c, "fail", 0)
    /\ Goto(c, ClearStep(c))
    /\ offer' = [offer EXCEPT ![c] = NoOffer]
    /\ UNCHANGED <<host, events, route, conns, batch, reaping>>

\* STREAM_END: send_async looks at `closing`, then waits for room.
EndReplay(c) ==
    /\ task[c] = "replay"
    /\ offer[c].seq = offer[c].upto
    /\ Goto(c, IF closing[c] THEN ClearStep(c) ELSE "ending")
    /\ UNCHANGED <<host, events, route, conns, offer, batch, reaping, out>>

\* Mutant: a full queue does not end the task.
SendEnd_noError(c) ==
    /\ task[c] = "ending"
    /\ conn[c] # "gone"
    /\ Told(c, "end", offer[c].upto)
    /\ Goto(c, "finish")
    /\ offer' = [offer EXCEPT ![c] = NoOffer]
    /\ UNCHANGED <<host, events, route, conns, batch, reaping>>

SendEnd(c) ==
    /\ task[c] = "ending"
    /\ \/ /\ Told(c, "end", offer[c].upto)
          /\ Goto(c, "finish")
       \/ /\ conn[c] = "gone"
          /\ UNCHANGED out
          /\ Goto(c, ClearStep(c))
    /\ offer' = [offer EXCEPT ![c] = NoOffer]
    /\ UNCHANGED <<host, events, route, conns, batch, reaping>>

\* finish_attach_replay: nothing to do for a connection that is gone.
Finish(c) ==
    /\ task[c] = "finish"
    /\ Goto(c, IF Registered(c) THEN "drain" ELSE "done")
    /\ UNCHANGED <<host, events, route, conns, offer, batch, reaping, out>>

\* Mutant: live before the pending blocks are sent.
Drain_liveAtOnce(c) ==
    /\ task[c] = "drain" /\ RoutesFree
    /\ IF Owns(c)
         THEN /\ batch' = [batch EXCEPT ![c] = route.pending]
              /\ route' = [route EXCEPT !.phase = "live", !.pending = <<>>]
         ELSE UNCHANGED <<batch, route>>
    /\ Goto(c, IF Owns(c) /\ route.pending # <<>> THEN "push" ELSE "done")
    /\ UNCHANGED <<reg, proc, attached, nextSeq, events, conns, offer, reaping, out>>

\* Take what arrived meanwhile; go live, or end the route after the exit, only
\* when nothing is left.
Drain(c) ==
    /\ task[c] = "drain" /\ RoutesFree
    /\ \/ ~Owns(c) /\ Goto(c, "done") /\ UNCHANGED <<route, batch, reg>>
       \/ /\ Owns(c) /\ route.pending # <<>>
          /\ batch' = [batch EXCEPT ![c] = route.pending]
          /\ route' = [route EXCEPT !.phase = "draining", !.pending = <<>>]
          /\ Goto(c, "push")
          /\ UNCHANGED reg
       \/ /\ Owns(c) /\ route.pending = <<>>
          /\ route' = IF route.exitDone THEN NoRoute ELSE [route EXCEPT !.phase = "live"]
          /\ reg' = (reg /\ ~(route.exitDone /\ proc = "exited"))
          /\ Goto(c, "done")
          /\ UNCHANGED batch
    /\ UNCHANGED <<proc, attached, nextSeq, events, conns, offer, reaping, out>>

\* The drained items are sent one by one without the lock.
PushItem(c) ==
    /\ task[c] = "push"
    /\ LET item == Head(batch[c]) IN
       \/ /\ batch[c] = <<>> /\ Goto(c, "drain") /\ UNCHANGED <<batch, out>>
       \/ /\ batch[c] # <<>> /\ closing[c]
          /\ Goto(c, "done")
          /\ batch' = [batch EXCEPT ![c] = <<>>] /\ UNCHANGED out
       \/ /\ batch[c] # <<>> /\ ~closing[c]
          /\ IF item = ExitEvent THEN Told(c, "exit", 0) ELSE Told(c, "data", item)
          /\ batch' = [batch EXCEPT ![c] = Tail(@)] /\ UNCHANGED task
    /\ UNCHANGED <<host, events, route, conns, offer, reaping>>

\* pty.detach of the terminal the connection created or attached.
AskDetach(c) ==
    /\ c \in Detachers
    /\ task[c] = "done" /\ conn[c] = "open" /\ reg
    /\ Delivery!IsLive(c)
    /\ HostDetach
    /\ Told(c, "left", 0)
    /\ Goto(c, ClearStep(c))
    /\ UNCHANGED <<reg, proc, nextSeq, events, route, conns, offer, batch,
                   reaping>>

\* clear_route_for_conn by the task.
TaskRemove(c) ==
    /\ task[c] \in {"remove", "removeOnly"} /\ RoutesFree
    /\ RemoveRoute(c)
    /\ Goto(c, IF task[c] = "remove" /\ Owns(c) THEN "detach" ELSE "done")
    /\ UNCHANGED <<host, events, conns, offer, batch, reaping, out>>

TaskDetach(c) ==
    /\ task[c] = "detach"
    /\ HostDetach
    /\ Goto(c, "done")
    /\ UNCHANGED <<reg, proc, nextSeq, events, route, conns, offer, batch,
                   reaping, out>>

-------------------------------------------------------------------------------
(* Connections *)

ConnTo(c, step) == conn' = [conn EXCEPT ![c] = step]

\* The loop ends: EOF, heartbeat timeout or an abort; `closing` is set.
Disconnect(c) ==
    /\ conn[c] = "open"
    /\ closing' = [closing EXCEPT ![c] = TRUE]
    /\ ConnTo(c, "closing")
    /\ UNCHANGED <<host, events, route, tasks, reaping, out>>

\* detach_owned_ptys: the terminals of this connection's routes are listed,
\* each is detached and then its route cleared ...
ListOwned(c) ==
    /\ conn[c] = "closing" /\ RoutesFree
    /\ ConnTo(c, IF Owns(c) THEN "detach" ELSE "leave")
    /\ UNCHANGED <<host, events, route, closing, tasks, reaping, out>>

DetachOwned(c) ==
    /\ conn[c] = "detach"
    /\ HostDetach
    /\ ConnTo(c, "clear")
    /\ UNCHANGED <<reg, proc, nextSeq, events, route, closing, tasks, reaping, out>>

ClearOwned(c) ==
    /\ conn[c] = "clear" /\ RoutesFree
    /\ RemoveRoute(c)
    /\ ConnTo(c, IF Owns(c) THEN "detachAgain" ELSE "leave")
    /\ UNCHANGED <<host, events, closing, tasks, reaping, out>>

DetachCleared(c) ==
    /\ conn[c] = "detachAgain"
    /\ HostDetach
    /\ ConnTo(c, "leave")
    /\ UNCHANGED <<reg, proc, nextSeq, events, route, closing, tasks, reaping, out>>

\* ... and only then does the connection leave Daemon.conns.
Leave(c) ==
    /\ conn[c] = "leave"
    /\ ConnTo(c, "gone")
    /\ out' = [out EXCEPT ![c] = Delivery!Closed]
    /\ UNCHANGED <<host, events, route, closing, tasks, reaping>>

-------------------------------------------------------------------------------
TaskStep(c) ==
    \/ Create(c) \/ AttachLookup(c)
    \/ \E from \in 0..nextSeq : AttachInstall(c, from)
    \/ AttachReply(c) \/ ReplayBlock(c) \/ ReplayFails(c) \/ EndReplay(c) \/ SendEnd(c)
    \/ Finish(c) \/ Drain(c) \/ PushItem(c)
    \/ TaskRemove(c) \/ TaskDetach(c)

Teardown(c) ==
    ListOwned(c) \/ DetachOwned(c) \/ ClearOwned(c) \/ DetachCleared(c) \/ Leave(c)

EvStep == EvRemove \/ EvDetach \/ EvDisconnect

Next ==
    \/ Produce \/ ProcExit \/ Kill \/ Reap \/ ReapRoute
    \/ Dispatch \/ EvStep
    \/ \E c \in Conn : \/ \E what \in {"creating", "asked"} : Ask(c, what)
                       \/ AskDetach(c) \/ Disconnect(c)
                       \/ TaskStep(c) \/ Teardown(c)

\* The runtime runs every runnable task.  A connection whose queue is aborted
\* leaves its loop; nothing forces a client or the shell to do anything.
Fairness ==
    /\ WF_vars(Dispatch) /\ WF_vars(EvStep) /\ WF_vars(ReapRoute)
    /\ \A c \in Conn : /\ WF_vars(TaskStep(c))
                       /\ WF_vars(Teardown(c))
                       /\ WF_vars(closing[c] /\ Disconnect(c))

Spec == Init /\ [][Next]_vars
FairSpec == Spec /\ Fairness

-------------------------------------------------------------------------------
Block == 0..MaxSeq - 1

\* Types, and the bounds of the two queues: a blocked reader holds one event
\* beyond the channel's depth, the pending list overflows by at most one block.
TypeOK ==
    /\ reg \in BOOLEAN /\ attached \in BOOLEAN /\ reaping \in BOOLEAN
    /\ proc \in {"unborn", "running", "exited"}
    /\ nextSeq \in 0..MaxSeq
    /\ queue \in Seq(Block \cup {ExitEvent}) /\ Len(queue) <= QueueDepth + 1
    /\ route.conn \in Conn \cup {0} /\ route.next \in 0..MaxSeq
    /\ route.phase \in {"none", "replaying", "draining", "live"}
    /\ route.phase \in {"none", "live"} => route.pending = <<>>
    /\ Len(route.pending) <= MaxPending + 1
    /\ ev \in {"idle", "remove", "removeOnly", "detach", "disconnect"}
    /\ evConn \in Conn \cup {0}
    /\ conn \in [Conn -> {"new", "open", "closing", "detach", "clear",
                          "detachAgain", "leave", "gone"}]
    /\ closing \in [Conn -> BOOLEAN]
    /\ task \in [Conn -> {"idle", "creating", "asked", "looked", "reply", "replay", "ending",
                          "finish", "drain", "push", "remove",
                          "removeOnly", "detach", "done"}]

\* Every connection's frames form a stream the client can rely on.
DeliveryOrdered == Delivery!Spec

\* The handoff is seamless: whatever the route still expects is on its way to
\* pty_events (unless pty_events has just given this route up), so no block
\* can be skipped and SequenceGap never happens.
HandoffSeamless ==
    (route # NoRoute /\ ~(ev # "idle" /\ evConn = route.conn)) =>
        \A s \in route.next..nextSeq - 1 : \E i \in 1..Len(queue) : queue[i] = s

\* A route is only ever ended: once the shell has exited, every route to it
\* is gone for good, whatever attaches and disconnections were under way.
RouteEnds == proc = "exited" ~> [](route = NoRoute)

\* Every attach that was asked is brought to an end.
AttachSettles == \A c \in Conn : task[c] = "asked" ~> task[c] = "done"

\* A step that ends a route and drops the terminal at once (reap and kill do one
\* of the two).
Released == reg /\ ~reg' /\ route # NoRoute /\ route' = NoRoute

\* release_exited's contract: the tombstone and the route of an exited terminal
\* are given up together only once the routed client has been told the exit.
ReleasedIsTold ==
    [][(Released /\ proc = "exited") =>
         \/ out[route.conn].exited
         \/ out'[route.conn].k \in {"exit", "left"}]_vars

-------------------------------------------------------------------------------
\* Nothing is under way: every request has been served, every connection is up
\* or gone, and nobody is clearing anything.
Settled ==
    /\ ev = "idle" /\ ~reaping
    /\ \A c \in Conn : /\ task[c] \in {"idle", "done"}
                       /\ conn[c] \in {"new", "open", "gone"}

\* clear_route_for_conn's comment: no attached ghost is left behind, that is,
\* a terminal marked attached has somebody it is routed to.
NoGhost == (Settled /\ reg /\ proc = "running" /\ attached) => route # NoRoute

\* PtyHost::detach's comment: the late detach of an old connection does not
\* mark a terminal unattended that is routed to another.
RoutedIsAttached == (Settled /\ reg /\ route # NoRoute) => attached
===============================================================================
