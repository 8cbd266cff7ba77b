----------------------------- MODULE PtyRoutes_proofs -----------------------------
(***************************************************************************)
(* Proofs about PtyRoutes: whatever a route still expects is on its way to *)
(* pty_events, the frames of every connection form the stream that         *)
(* OrderedDelivery promises, and an exited terminal is given up together   *)
(* with its route only once its client has been told the exit.             *)
(***************************************************************************)
EXTENDS PtyRoutes, SequenceTheorems, TLAPS

-------------------------------------------------------------------------------
(* The inductive invariant. *)

Event == Block \cup {ExitEvent}

\* A stretch of the terminal's events: consecutive blocks, then perhaps the exit.
Stretch(s, from) ==
  \A i \in 1 .. Len(s) : s[i] = from + i - 1 \/ (s[i] = ExitEvent /\ i = Len(s))
HasExit(s) == s # <<>> /\ s[Len(s)] = ExitEvent
Blocks(s) == IF HasExit(s) THEN Len(s) - 1 ELSE Len(s)

\* A connection whose teardown will still see and clear its route.
Up == {"open", "closing", "detach", "clear"}
\* Where the task of a connection is: before it installs a route, until the end mark of the
\* replay, until the route goes live, and after.
Unrouted == {"idle", "creating", "asked", "looked"}
Early == {"reply", "replay", "ending"}
Late == {"finish", "drain", "push"}
Over == {"remove", "removeOnly", "detach", "done"}

FrameKinds == {"none", "closed", "created", "refused", "reply", "rep", "end", "fail", "data",
               "exit", "left"}

Frame == [k : FrameKinds, seq : Nat, upto : Nat, exited : BOOLEAN, frames : Nat]

Routes == [conn : Conn \cup {0}, next : 0 .. MaxSeq, exitDone : BOOLEAN,
           phase : {"none", "replaying", "draining", "live"}, pending : Seq(Event)]
Offers == [seq : 0 .. MaxSeq, upto : 0 .. MaxSeq, exited : BOOLEAN]

HostType ==
  /\ reg \in BOOLEAN /\ attached \in BOOLEAN /\ reaping \in BOOLEAN
  /\ proc \in {"unborn", "running", "exited"}
  /\ nextSeq \in 0 .. MaxSeq
  /\ queue \in Seq(Event) /\ Len(queue) <= QueueDepth + 1
  /\ ev \in {"idle", "remove", "removeOnly", "detach", "disconnect"}
  /\ evConn \in Conn \cup {0}

RoutedType ==
  /\ route \in Routes
  /\ route.phase = "none" => route = NoRoute
  /\ route.conn \in Conn \/ route = NoRoute
  /\ Len(route.pending) <= MaxPending + 1
  /\ ~route.exitDone => Len(route.pending) <= MaxPending

RowsType ==
  /\ conn \in [Conn -> Up \cup {"new", "detachAgain", "leave", "gone"}]
  /\ closing \in [Conn -> BOOLEAN]
  /\ task \in [Conn -> Unrouted \cup Early \cup Late \cup Over]
  /\ offer \in [Conn -> Offers]
  /\ batch \in [Conn -> Seq(Event)]
  /\ out \in [Conn -> Frame]

RouteType == HostType /\ RoutedType /\ RowsType

\* The shell is started once, by the first connection, and prints nothing before.
Birth ==
  /\ proc = "unborn" => nextSeq = 0 /\ queue = <<>>
  /\ \A c \in Conn : task[c] = "creating" => proc = "unborn" /\ c = 1
  /\ \A c \in Conn : conn[c] = "new" => task[c] = "idle"

\* The next block that pty_events will be given.
Oldest == nextSeq - Blocks(queue)

\* The event channel holds the newest blocks, and the exit after the last of them.
Channel ==
  /\ Oldest >= 0 /\ Stretch(queue, Oldest)
  /\ HasExit(queue) => proc = "exited"
  /\ proc = "exited" => queue = <<>> \/ HasExit(queue)

GivenUp == ev # "idle" /\ evConn = route.conn

\* What pty_events gives up, it clears, and nobody routes that connection again.
Clearing ==
  /\ ev # "idle" => evConn \in Conn /\ task[evConn] \notin Unrouted
  /\ ev \in {"detach", "disconnect"} => ~Owns(evConn)

\* Nothing that the route expects has been passed by.
Seamless ==
  route # NoRoute =>
    /\ route.next <= nextSeq /\ (~GivenUp => Oldest <= route.next)
    /\ route.exitDone => proc = "exited" /\ route.next = nextSeq

\* A connection that is torn down is closing, and its teardown sees the route that is served.
Teardowns ==
  /\ \A c \in Conn : /\ conn[c] \notin {"new", "open"} => closing[c]
                     /\ conn[c] # "gone" => out[c].k # "closed"
  /\ route # NoRoute => task[route.conn] \notin Unrouted
  /\ route # NoRoute /\ (route.phase = "live" \/ task[route.conn] \in {"ending"} \cup Late) =>
       conn[route.conn] \in Up

\* What a connection has been sent agrees with what its task is about to send.
Sending(c) ==
  /\ task[c] # "push" => batch[c] = <<>>
  /\ task[c] \in Early => offer[c].seq <= offer[c].upto /\ offer[c].upto <= nextSeq
  /\ task[c] = "ending" => offer[c].seq = offer[c].upto
  /\ task[c] \in Early /\ offer[c].exited => proc = "exited"
  /\ conn[c] # "gone" =>
       /\ task[c] \in Unrouted \cup {"reply"} => out[c].k = "none" /\ ~out[c].exited
       /\ task[c] = "ending" \/ (task[c] = "replay" /\ ~closing[c]) =>
            /\ Delivery!Replaying(c) /\ Delivery!Expected(c) = offer[c].seq
            /\ out[c].upto = offer[c].upto /\ out[c].exited = offer[c].exited
       /\ task[c] \in Late =>
            /\ out[c].k \in {"end", "data", "exit"}
            /\ Stretch(batch[c], Delivery!Expected(c))
            /\ batch[c] # <<>> => Delivery!IsLive(c)

\* Where the pending events of a replaying connection begin, and whether the exit comes before.
PendingFrom(c) ==
  IF task[c] \in Early THEN offer[c].upto ELSE Delivery!Expected(c) + Blocks(batch[c])
ExitBefore(c) ==
  IF task[c] \in Early THEN offer[c].exited
  ELSE out[c].exited \/ out[c].k = "exit" \/ HasExit(batch[c])

\* The routed connection is sent, is being sent, or has pending all that comes before the
\* block the route expects.
Owner(c) ==
  /\ route.phase = "live" =>
       /\ task[c] \in Over /\ ~route.exitDone /\ route.pending = <<>>
       /\ out[c].k = "left" \/ (Delivery!IsLive(c) /\ Delivery!Expected(c) = route.next)
  /\ task[c] \in Early \cup Late =>
       /\ route.exitDone <=> (ExitBefore(c) \/ HasExit(route.pending))
       /\ ExitBefore(c) => route.pending = <<>>
       /\ ~ExitBefore(c) => /\ Stretch(route.pending, PendingFrom(c))
                            /\ route.next = PendingFrom(c) + Blocks(route.pending)

RoutesInv ==
  /\ RouteType /\ Birth /\ Channel /\ Clearing /\ Seamless /\ Teardowns
  /\ \A c \in Conn : Sending(c) /\ (Owns(c) => Owner(c))

-------------------------------------------------------------------------------
(* Stretches of events. *)

LEMMA NoEvents ==
  ASSUME NEW from
  PROVE  Stretch(<<>>, from) /\ ~HasExit(<<>>) /\ Blocks(<<>>) = 0
BY DEF Stretch, HasExit, Blocks

LEMMA BlocksType ==
  ASSUME NEW s \in Seq(Event)
  PROVE  Blocks(s) \in Nat /\ Blocks(s) <= Len(s)
<1>1. Len(s) \in Nat /\ (s # <<>> => Len(s) >= 1)
  BY EmptySeq, LenProperties
<1>2. QED
  BY <1>1 DEF Blocks, HasExit

\* The next block is appended.
LEMMA AppendBlock ==
  ASSUME NEW s \in Seq(Event), NEW from \in Nat, Stretch(s, from), ~HasExit(s),
         NEW b \in Block, b = from + Blocks(s)
  PROVE  /\ Append(s, b) \in Seq(Event) /\ Stretch(Append(s, b), from)
         /\ ~HasExit(Append(s, b)) /\ Blocks(Append(s, b)) = Blocks(s) + 1
         /\ Append(s, b) # <<>> /\ Len(Append(s, b)) = Len(s) + 1
<1> DEFINE t == Append(s, b)
<1>1. b \in Event /\ b \in Nat /\ b # ExitEvent
  BY RoutesAssumption DEF Block, Event, ExitEvent
<1>2. /\ t \in Seq(Event) /\ t # <<>> /\ Len(t) = Len(s) + 1 /\ Len(s) \in Nat
      /\ \A i \in 1 .. Len(s) : t[i] = s[i]
      /\ t[Len(s) + 1] = b
  BY <1>1, AppendProperties, LenProperties
<1> HIDE DEF t
<1>3. Blocks(s) = Len(s)
  BY DEF Blocks
<1>4. ~HasExit(t)
  BY <1>1, <1>2 DEF HasExit
<1>5. Blocks(t) = Blocks(s) + 1
  BY <1>2, <1>3, <1>4 DEF Blocks
<1>6. \A i \in 1 .. Len(s) : s[i] # ExitEvent \/ i # Len(s)
  BY <1>2 DEF HasExit
<1>7. ASSUME NEW i \in 1 .. Len(t) PROVE t[i] = from + i - 1
  <2>1. CASE i \in 1 .. Len(s)
    BY <2>1, <1>2, <1>6 DEF Stretch
  <2>2. CASE i = Len(s) + 1
    BY <2>2, <1>2, <1>3
  <2>3. QED
    BY <2>1, <2>2, <1>2
<1>8. Stretch(t, from)
  BY <1>7 DEF Stretch
<1>9. QED
  BY <1>2, <1>4, <1>5, <1>8 DEF t

\* The exit is appended.
LEMMA AppendExit ==
  ASSUME NEW s \in Seq(Event), NEW from \in Nat, Stretch(s, from), ~HasExit(s)
  PROVE  /\ Append(s, ExitEvent) \in Seq(Event) /\ Stretch(Append(s, ExitEvent), from)
         /\ HasExit(Append(s, ExitEvent)) /\ Blocks(Append(s, ExitEvent)) = Blocks(s)
         /\ Append(s, ExitEvent) # <<>> /\ Len(Append(s, ExitEvent)) = Len(s) + 1
<1> DEFINE t == Append(s, ExitEvent)
<1>1. ExitEvent \in Event
  BY DEF Event
<1>2. /\ t \in Seq(Event) /\ t # <<>> /\ Len(t) = Len(s) + 1 /\ Len(s) \in Nat
      /\ \A i \in 1 .. Len(s) : t[i] = s[i]
      /\ t[Len(s) + 1] = ExitEvent
  BY <1>1, AppendProperties, LenProperties
<1> HIDE DEF t
<1>3. Blocks(s) = Len(s)
  BY DEF Blocks
<1>4. HasExit(t)
  BY <1>1, <1>2 DEF HasExit
<1>5. Blocks(t) = Blocks(s)
  BY <1>2, <1>3, <1>4 DEF Blocks
<1>6. \A i \in 1 .. Len(s) : s[i] # ExitEvent \/ i # Len(s)
  BY <1>2 DEF HasExit
<1>7. ASSUME NEW i \in 1 .. Len(t)
      PROVE  t[i] = from + i - 1 \/ (t[i] = ExitEvent /\ i = Len(t))
  <2>1. CASE i \in 1 .. Len(s)
    BY <2>1, <1>2, <1>6 DEF Stretch
  <2>2. CASE i = Len(s) + 1
    BY <2>2, <1>2, <1>3
  <2>3. QED
    BY <2>1, <2>2, <1>2
<1>8. Stretch(t, from)
  BY <1>7 DEF Stretch
<1>9. QED
  BY <1>2, <1>4, <1>5, <1>8 DEF t

\* The oldest event is taken: it is the first block of the stretch, or the exit after it.
LEMMA TakeOldest ==
  ASSUME NEW s \in Seq(Event), NEW from \in Nat, Stretch(s, from), s # <<>>
  PROVE  /\ Head(s) \in Event /\ Tail(s) \in Seq(Event) /\ Len(Tail(s)) = Len(s) - 1
         /\ Head(s) # ExitEvent =>
              /\ Head(s) = from /\ Stretch(Tail(s), from + 1)
              /\ Blocks(s) >= 1 /\ Blocks(Tail(s)) = Blocks(s) - 1
              /\ HasExit(Tail(s)) <=> HasExit(s)
              /\ Tail(s) = <<>> => ~HasExit(s)
         /\ Head(s) = ExitEvent => Tail(s) = <<>> /\ HasExit(s) /\ Blocks(s) = 0
<1> DEFINE t == Tail(s)
<1>1. /\ Len(s) \in Nat /\ Len(s) >= 1 /\ Head(s) = s[1] /\ s[1] \in Event
      /\ t \in Seq(Event) /\ Len(t) = Len(s) - 1
      /\ \A i \in 1 .. Len(t) : t[i] = s[i + 1]
  BY HeadTailProperties, EmptySeq, LenProperties, ElementOfSeq
<1>2. s[1] = from \/ (s[1] = ExitEvent /\ Len(s) = 1)
  <2>1. 1 \in 1 .. Len(s) /\ from + 1 - 1 = from
    BY <1>1
  <2>2. s[1] = from + 1 - 1 \/ (s[1] = ExitEvent /\ 1 = Len(s))
    BY <2>1 DEF Stretch
  <2>3. QED
    BY <2>1, <2>2
<1>3. from # ExitEvent
  BY DEF ExitEvent
<1>4. t = <<>> <=> Len(t) = 0
  BY <1>1, EmptySeq
<1> HIDE DEF t
<1>5. CASE s[1] # ExitEvent
  <2>1. s[1] = from
    BY <1>2, <1>5
  <2>2. ASSUME NEW i \in 1 .. Len(t)
        PROVE  t[i] = (from + 1) + i - 1 \/ (t[i] = ExitEvent /\ i = Len(t))
    BY <1>1 DEF Stretch
  <2>3. Stretch(t, from + 1)
    BY <2>2 DEF Stretch
  <2>4. HasExit(t) <=> HasExit(s)
    <3>1. CASE Len(s) = 1
      BY <3>1, <1>1, <1>4, <1>5 DEF HasExit
    <3>2. CASE Len(s) # 1
      <4>1. Len(t) \in 1 .. Len(t) /\ Len(t) + 1 = Len(s)
        BY <3>2, <1>1
      <4>2. t[Len(t)] = s[Len(s)]
        BY <4>1, <1>1
      <4>3. t # <<>> /\ s # <<>>
        BY <4>1, <1>4
      <4>4. QED
        BY <4>2, <4>3 DEF HasExit
    <3>3. QED
      BY <3>1, <3>2
  <2>5. HasExit(s) => Len(s) # 1
    BY <1>1, <1>5 DEF HasExit
  <2>6. Blocks(s) >= 1 /\ Blocks(t) = Blocks(s) - 1
    BY <1>1, <2>4, <2>5 DEF Blocks
  <2>7. t = <<>> => ~HasExit(s)
    BY <2>4 DEF HasExit
  <2>8. QED
    BY <1>1, <1>5, <2>1, <2>3, <2>4, <2>6, <2>7 DEF t
<1>6. CASE s[1] = ExitEvent
  <2>1. Len(s) = 1
    BY <1>2, <1>3, <1>6
  <2>2. HasExit(s) /\ Blocks(s) = 0
    BY <2>1, <1>6 DEF HasExit, Blocks
  <2>3. t = <<>>
    BY <2>1, <1>1, <1>4
  <2>4. QED
    BY <1>1, <1>6, <2>2, <2>3 DEF t
<1>7. QED
  BY <1>5, <1>6

-------------------------------------------------------------------------------
(* What a step leaves alone. *)

\* Nothing of connection b's moves, though its queue may have been aborted.
SameRow(b) ==
  /\ task'[b] = task[b] /\ offer'[b] = offer[b] /\ batch'[b] = batch[b]
  /\ out'[b] = out[b] /\ conn'[b] = conn[b] /\ (closing[b] => closing'[b])

Onward == nextSeq <= nextSeq' /\ (proc = "exited" => proc' = "exited")

LEMMA SendingKept ==
  ASSUME RouteType, RouteType', NEW b \in Conn, Sending(b), SameRow(b), Onward
  PROVE  Sending(b)'
<1>1. offer[b].upto \in Int /\ nextSeq \in Int /\ nextSeq' \in Int
  BY RoutesAssumption DEF RouteType, HostType, RowsType, Offers
<1>2. QED
  BY <1>1 DEF Sending, SameRow, Onward, Delivery!Replaying, Delivery!Expected, Delivery!IsLive

LEMMA OwnerKept ==
  ASSUME NEW b \in Conn, Owner(b), SameRow(b), route' = route
  PROVE  Owner(b)'
BY DEF Owner, SameRow, PendingFrom, ExitBefore, Delivery!Expected, Delivery!IsLive

\* A step of connection c leaves the rows of the others alone.
LEMMA OthersKept ==
  ASSUME RoutesInv, RouteType', Onward, NEW c \in Conn,
         \A b \in Conn \ {c} : SameRow(b),
         route' = route \/ route' = NoRoute \/ route'.conn = c,
         Sending(c)', Owns(c)' => Owner(c)'
  PROVE  \A b \in Conn : Sending(b)' /\ (Owns(b)' => Owner(b)')
<1> SUFFICES ASSUME NEW b \in Conn, b # c PROVE Sending(b)' /\ (Owns(b)' => Owner(b)')
  OBVIOUS
<1>1. RouteType /\ Sending(b) /\ SameRow(b) /\ (Owns(b) => Owner(b))
  BY DEF RoutesInv
<1>2. Sending(b)'
  BY <1>1, SendingKept
<1>3. Owns(b)' => route' = route /\ Owns(b)
  BY DEF Owns, NoRoute, NewRoute
<1>4. QED
  BY <1>1, <1>2, <1>3, OwnerKept

\* A step that moves no connection and keeps or removes the route.
LEMMA RowsKept ==
  ASSUME RoutesInv, RouteType', Onward, \A b \in Conn : SameRow(b),
         route' = route \/ route' = NoRoute
  PROVE  \A b \in Conn : Sending(b)' /\ (Owns(b)' => Owner(b)')
<1> SUFFICES ASSUME NEW b \in Conn PROVE Sending(b)' /\ (Owns(b)' => Owner(b)')
  OBVIOUS
<1>1. RouteType /\ Sending(b) /\ SameRow(b) /\ (Owns(b) => Owner(b))
  BY DEF RoutesInv
<1>2. Sending(b)'
  BY <1>1, SendingKept
<1>3. Owns(b)' => route' = route /\ Owns(b)
  BY DEF Owns, NoRoute, NewRoute
<1>4. QED
  BY <1>1, <1>2, <1>3, OwnerKept

-------------------------------------------------------------------------------
(* The terminal and pty_events. *)

LEMMA NoRouteType ==
  NoRoute \in Routes /\ Len(NoRoute.pending) <= MaxPending /\ Len(NoRoute.pending) <= MaxPending + 1
BY RoutesAssumption DEF NoRoute, NewRoute, Routes

LEMMA InitInv ==
  ASSUME Init PROVE RoutesInv
<1> USE DEF Init
<1>1. <<>> \in Seq(Event) /\ Len(<<>>) = 0
  OBVIOUS
<1>2. RouteType
  <2>1. HostType
    <3>1. reg \in BOOLEAN /\ proc \in {"unborn", "running", "exited"}
      BY RoutesAssumption
    <3>2. queue \in Seq(Event) /\ Len(queue) <= QueueDepth + 1
      BY <1>1, RoutesAssumption
    <3>3. nextSeq \in 0 .. MaxSeq
      <4>1. nextSeq = 0
        OBVIOUS
      <4>2. QED
        BY ONLY <4>1, RoutesAssumption DEF RoutesAssumption
    <3>4. attached \in BOOLEAN /\ reaping \in BOOLEAN
      OBVIOUS
    <3>5. /\ ev \in {"idle", "remove", "removeOnly", "detach", "disconnect"}
          /\ evConn \in Conn \cup {0}
      OBVIOUS
    <3>6. QED
      BY ONLY <3>1, <3>2, <3>3, <3>4, <3>5 DEF HostType
  <2>2. RoutedType
    BY NoRouteType DEF RoutedType
  <2>3. NoOffer \in Offers /\ Delivery!Nothing \in Frame
    BY RoutesAssumption DEF NoOffer, Offers, Frame, FrameKinds, Delivery!Nothing
  <2>4. RowsType
    BY <1>1, <2>3 DEF RowsType, Up, Unrouted
  <2>5. QED
    BY <2>1, <2>2, <2>4 DEF RouteType
<1>3. Birth /\ Clearing /\ Seamless /\ Teardowns
  BY DEF Birth, Clearing, Seamless, Teardowns, Delivery!Nothing
<1>4. Channel
  BY NoEvents, RoutesAssumption DEF Channel, Oldest
<1>5. ASSUME NEW c \in Conn PROVE Sending(c) /\ (Owns(c) => Owner(c))
  BY DEF Sending, Owns, Early, Late, Delivery!Nothing
<1>6. QED
  BY <1>2, <1>3, <1>4, <1>5 DEF RoutesInv

LEMMA ProduceInv ==
  ASSUME RoutesInv, Produce PROVE RoutesInv'
<1> USE DEF Produce, events, conns, tasks, host
<1>0. RouteType /\ Birth /\ Channel /\ Clearing /\ Seamless /\ Teardowns
  BY DEF RoutesInv
<1>1. /\ nextSeq \in Nat /\ nextSeq < MaxSeq /\ MaxSeq \in Nat /\ QueueDepth \in Nat
      /\ queue \in Seq(Event) /\ Len(queue) \in Nat /\ Blocks(queue) \in Nat
  BY <1>0, RoutesAssumption, BlocksType, LenProperties DEF RouteType, HostType, RoutedType, RowsType
<1>2. /\ Oldest \in Nat /\ nextSeq = Oldest + Blocks(queue)
      /\ Stretch(queue, Oldest) /\ ~HasExit(queue)
  BY <1>0, <1>1 DEF Channel, Oldest
<1>3. nextSeq \in Block
  BY <1>1 DEF Block
<1>4. /\ queue' \in Seq(Event) /\ Len(queue') = Len(queue) + 1
      /\ Stretch(queue', Oldest) /\ ~HasExit(queue') /\ Blocks(queue') = Blocks(queue) + 1
  BY <1>1, <1>2, <1>3, AppendBlock
<1>5. Oldest' = Oldest
  BY <1>1, <1>4 DEF Oldest
<1>6. RouteType'
  BY <1>0, <1>1, <1>4 DEF RouteType, HostType, RoutedType, RowsType
<1>7. Birth' /\ Clearing' /\ Teardowns'
  BY <1>0 DEF Birth, Clearing, Teardowns, Owns, Delivery!Nothing
<1>8. Channel'
  BY <1>1, <1>2, <1>4, <1>5 DEF Channel
<1>9. Seamless'
  BY <1>0, <1>1, <1>5 DEF Seamless, GivenUp, RouteType, RoutedType, Routes
<1>10. \A b \in Conn : Sending(b)' /\ (Owns(b)' => Owner(b)')
  BY <1>1, <1>6, RowsKept DEF Onward, SameRow
<1>11. QED
  BY <1>6, <1>7, <1>8, <1>9, <1>10 DEF RoutesInv

LEMMA ProcExitInv ==
  ASSUME RoutesInv, ProcExit PROVE RoutesInv'
<1> USE DEF ProcExit, events, conns, tasks, host
<1>0. RouteType /\ Birth /\ Channel /\ Clearing /\ Seamless /\ Teardowns
  BY DEF RoutesInv
<1>1. /\ nextSeq \in Nat /\ QueueDepth \in Nat
      /\ queue \in Seq(Event) /\ Len(queue) \in Nat /\ Blocks(queue) \in Nat
  BY <1>0, RoutesAssumption, BlocksType, LenProperties DEF RouteType, HostType, RoutedType, RowsType
<1>2. Oldest \in Nat /\ Stretch(queue, Oldest) /\ ~HasExit(queue)
  BY <1>0, <1>1 DEF Channel, Oldest
<1>4. /\ queue' \in Seq(Event) /\ Len(queue') = Len(queue) + 1
      /\ Stretch(queue', Oldest) /\ HasExit(queue') /\ Blocks(queue') = Blocks(queue)
  BY <1>1, <1>2, AppendExit
<1>5. Oldest' = Oldest
  BY <1>1, <1>4 DEF Oldest
<1>6. RouteType'
  BY <1>0, <1>1, <1>4 DEF RouteType, HostType, RoutedType, RowsType
<1>7. Birth' /\ Clearing' /\ Teardowns'
  BY <1>0 DEF Birth, Clearing, Teardowns, Owns
<1>8. Channel'
  BY <1>1, <1>2, <1>4, <1>5 DEF Channel
<1>9. Seamless'
  BY <1>0, <1>1, <1>5 DEF Seamless, GivenUp, RouteType, RoutedType, Routes
<1>10. \A b \in Conn : Sending(b)' /\ (Owns(b)' => Owner(b)')
  BY <1>1, <1>6, RowsKept DEF Onward, SameRow
<1>11. QED
  BY <1>6, <1>7, <1>8, <1>9, <1>10 DEF RoutesInv

\* Steps that leave the connections, their tasks and the event channel alone, and at most
\* remove the route.
LEMMA QuietInv ==
  ASSUME RoutesInv, UNCHANGED <<proc, nextSeq, queue, conn, tasks, out>>,
         closing' \in [Conn -> BOOLEAN], \A b \in Conn : closing[b] => closing'[b],
         route' = route \/ route' = NoRoute,
         reg' \in BOOLEAN, attached' \in BOOLEAN, reaping' \in BOOLEAN,
         ev' \in {"idle", "remove", "removeOnly", "detach", "disconnect"},
         evConn' \in Conn \cup {0}, Clearing', GivenUp => route' = NoRoute \/ GivenUp'
  PROVE  RoutesInv'
<1> USE DEF conns, tasks
<1>0. RouteType /\ Birth /\ Channel /\ Clearing /\ Seamless /\ Teardowns
  BY DEF RoutesInv
<1>6. RouteType'
  <2>1. HostType'
    BY <1>0 DEF RouteType, HostType
  <2>2. RoutedType'
    BY <1>0, NoRouteType DEF RouteType, RoutedType
  <2>3. RowsType'
    BY <1>0 DEF RouteType, RowsType
  <2>4. QED
    BY <2>1, <2>2, <2>3 DEF RouteType
<1>7. Birth' /\ Channel'
  BY <1>0 DEF Birth, Channel, Oldest
<1>8. Teardowns'
  BY <1>0 DEF Teardowns
<1>9. Seamless'
  BY <1>0 DEF Seamless, GivenUp, Oldest
<1>10. \A b \in Conn : Sending(b)' /\ (Owns(b)' => Owner(b)')
  <2>1. nextSeq <= nextSeq'
    BY <1>0 DEF RouteType, HostType, RoutedType, RowsType
  <2>2. QED
    BY <2>1, <1>6, RowsKept DEF Onward, SameRow
<1>11. QED
  BY <1>6, <1>7, <1>8, <1>9, <1>10 DEF RoutesInv

LEMMA TerminalInv ==
  ASSUME RoutesInv, Kill \/ Reap \/ ReapRoute PROVE RoutesInv'
<1>0. RouteType /\ Clearing
  BY DEF RoutesInv
<1>1. CASE Kill \/ Reap
  <2>1. Clearing' /\ (GivenUp => GivenUp')
    BY <1>0, <1>1 DEF Kill, Reap, Clearing, GivenUp, Owns, events, tasks
  <2>2. QED
    BY <1>0, <1>1, <2>1, QuietInv
       DEF Kill, Reap, RouteType, HostType, RoutedType, RowsType, events, conns, tasks
<1>2. CASE ReapRoute
  <2>1. Clearing'
    BY <1>0, <1>2 DEF ReapRoute, Clearing, Owns, events, tasks
  <2>2. QED
    BY <1>0, <1>2, <2>1, QuietInv
       DEF ReapRoute, RouteType, HostType, RoutedType, RowsType, events, conns, tasks, host
<1>3. QED
  BY <1>1, <1>2

LEMMA EvStepInv ==
  ASSUME RoutesInv, EvStep PROVE RoutesInv'
<1>0. RouteType /\ Clearing
  BY DEF RoutesInv
<1>1. CASE EvRemove
  <2>1. Clearing'
    BY <1>0, <1>1 DEF EvRemove, RemoveRoute, Clearing, Owns, tasks
  <2>2. GivenUp => route' = NoRoute \/ GivenUp'
    BY <1>1 DEF EvRemove, GivenUp, RemoveRoute
  <2>3. QED
    BY <1>0, <1>1, <2>1, <2>2, QuietInv
       DEF EvRemove, RemoveRoute, RouteType, HostType, RoutedType, RowsType, conns, tasks, host
<1>2. CASE EvDetach
  <2>1. Clearing' /\ (GivenUp => GivenUp')
    BY <1>0, <1>2 DEF EvDetach, Clearing, Owns, tasks, GivenUp
  <2>2. QED
    BY <1>0, <1>2, <2>1, QuietInv
       DEF EvDetach, HostDetach, RouteType, HostType, RoutedType, RowsType, conns, tasks, host
<1>3. CASE EvDisconnect
  <2>1. /\ closing' \in [Conn -> BOOLEAN] /\ \A b \in Conn : closing[b] => closing'[b]
        /\ out' = out
    BY <1>0, <1>3 DEF EvDisconnect, NotSent, RouteType, RowsType
  <2>2. Clearing'
    BY <1>3 DEF EvDisconnect, Clearing
  <2>3. route' = route /\ (GivenUp => route = NoRoute)
    BY <1>0, <1>3 DEF EvDisconnect, Clearing, Owns, GivenUp
  <2>4. QED
    BY <1>0, <1>3, <2>1, <2>2, <2>3, QuietInv
       DEF EvDisconnect, RouteType, HostType, RowsType, tasks, host
<1>4. QED
  BY <1>1, <1>2, <1>3 DEF EvStep

\* What pty_events is handed is the oldest event of the channel.
LEMMA EventTaken ==
  ASSUME RoutesInv, queue # <<>>, queue' = Tail(queue), proc' = proc, nextSeq' = nextSeq
  PROVE  /\ queue' \in Seq(Event) /\ Len(queue') <= QueueDepth + 1 /\ Channel'
         /\ proc # "unborn" /\ nextSeq \in Nat
         /\ Head(queue) # ExitEvent =>
              /\ Head(queue) \in Nat /\ Head(queue) \in Block /\ Head(queue) < nextSeq
              /\ Head(queue) = Oldest /\ Oldest' = Head(queue) + 1
         /\ Head(queue) = ExitEvent =>
              proc = "exited" /\ Oldest = nextSeq /\ Oldest' = nextSeq
<1>0. HostType /\ Birth /\ Channel
  BY DEF RoutesInv, RouteType
<1>1. /\ nextSeq \in Nat /\ QueueDepth \in Nat /\ nextSeq <= MaxSeq /\ MaxSeq \in Nat
      /\ queue \in Seq(Event) /\ Len(queue) \in Nat /\ Blocks(queue) \in Nat
      /\ Len(queue) <= QueueDepth + 1
  BY <1>0, RoutesAssumption, BlocksType, LenProperties DEF HostType
<1>2. Oldest \in Nat /\ nextSeq = Oldest + Blocks(queue) /\ Stretch(queue, Oldest)
  BY <1>0, <1>1 DEF Channel, Oldest
<1>3. PICK from \in Nat : from = Oldest
  BY <1>2
<1>4. Stretch(queue, from)
  BY <1>2, <1>3
<1>5. /\ queue' \in Seq(Event) /\ Len(queue') = Len(queue) - 1 /\ Blocks(queue') \in Nat
      /\ Head(queue) # ExitEvent =>
           /\ Head(queue) = from /\ Stretch(queue', from + 1)
           /\ Blocks(queue) >= 1 /\ Blocks(queue') = Blocks(queue) - 1
           /\ HasExit(queue') <=> HasExit(queue)
           /\ queue' = <<>> => ~HasExit(queue)
      /\ Head(queue) = ExitEvent => queue' = <<>> /\ HasExit(queue) /\ Blocks(queue) = 0
  BY <1>1, <1>4, TakeOldest, BlocksType
<1>6. Oldest' = nextSeq - Blocks(queue')
  BY DEF Oldest
<1>7. proc # "unborn"
  BY <1>0 DEF Birth
<1>8. CASE Head(queue) # ExitEvent
  <2>1. Head(queue) = from /\ from < nextSeq /\ Oldest' = from + 1
    BY <1>1, <1>2, <1>3, <1>5, <1>6, <1>8, SMTT(30)
  <2>2. from \in Block
    BY <1>1, <2>1 DEF Block
  <2>3. Channel'
    BY <1>0, <1>5, <1>8, <2>1 DEF Channel
  <2>4. QED
    BY <1>1, <1>3, <1>5, <1>7, <1>8, <2>1, <2>2, <2>3
<1>9. CASE Head(queue) = ExitEvent
  <2>1. queue' = <<>> /\ HasExit(queue) /\ proc = "exited"
    BY <1>0, <1>5, <1>9 DEF Channel
  <2>2. Blocks(queue') = 0 /\ ~HasExit(queue') /\ \A i \in Int : Stretch(queue', i)
    BY <2>1, NoEvents
  <2>3. Oldest = nextSeq /\ Oldest' = nextSeq
    BY <1>1, <1>2, <1>5, <1>6, <1>9, <2>2
  <2>4. Channel'
    BY <1>1, <2>1, <2>2, <2>3 DEF Channel
  <2>5. QED
    BY <1>1, <1>5, <1>7, <1>9, <2>1, <2>3, <2>4
<1>10. QED
  BY <1>8, <1>9

\* A step of pty_events that takes an event, tells at most the live owner, and keeps the
\* route, advances it, removes it, or gives it up.
LEMMA DispatchedInv ==
  ASSUME RoutesInv, ev = "idle", queue # <<>>, queue' = Tail(queue),
         UNCHANGED <<proc, nextSeq, attached, conn, tasks, reaping>>, reg' \in BOOLEAN,
         closing' \in [Conn -> BOOLEAN], \A b \in Conn : closing[b] => closing'[b],
         out' \in [Conn -> Frame],
         \/ ev' = ev /\ evConn' = evConn
         \/ GiveUp /\ route # NoRoute,
         RoutedType', Seamless',
         route' = NoRoute \/ (route' # NoRoute /\ route # NoRoute /\ route'.conn = route.conn
                                /\ route'.phase = route.phase),
         \A b \in Conn : out'[b] = out[b] \/ (Owns(b) /\ conn[b] # "gone" /\ route.phase = "live"
                                                /\ out'[b].k \in {"data", "exit"}),
         \A b \in Conn : Owns(b)' => Owner(b)'
  PROVE  RoutesInv'
<1> USE DEF tasks
<1>0. /\ RouteType /\ HostType /\ RoutedType /\ RowsType
      /\ Birth /\ Clearing /\ Teardowns
      /\ \A b \in Conn : Sending(b) /\ (Owns(b) => Owner(b))
  BY DEF RoutesInv, RouteType
<1>1. queue' \in Seq(Event) /\ Len(queue') <= QueueDepth + 1 /\ Channel' /\ proc # "unborn"
  BY EventTaken
<1>2. GiveUp /\ route # NoRoute =>
        /\ ev' \in {"remove", "removeOnly"} /\ evConn' \in Conn /\ evConn' = route.conn
        /\ task[evConn'] \notin Unrouted
  BY <1>0 DEF GiveUp, ClearStep, RoutedType, Teardowns
<1>3. HostType'
  BY <1>0, <1>1, <1>2 DEF HostType
<1>4. RowsType'
  BY <1>0 DEF RowsType
<1>5. RouteType'
  BY <1>3, <1>4 DEF RouteType
<1>6. Birth'
  BY <1>0, <1>1 DEF Birth
<1>7. Clearing'
  BY <1>0, <1>2 DEF Clearing
<1>8. Teardowns'
  <2>1. ASSUME NEW b \in Conn
        PROVE  /\ conn'[b] \notin {"new", "open"} => closing'[b]
               /\ conn'[b] # "gone" => out'[b].k # "closed"
    BY <1>0 DEF Teardowns
  <2>2. QED
    BY <1>0, <2>1 DEF Teardowns
<1>9. ASSUME NEW b \in Conn PROVE Sending(b)'
  <2>1. CASE out'[b] = out[b]
    <3>1. SameRow(b) /\ Onward
      BY <1>0, <2>1 DEF SameRow, Onward, HostType
    <3>2. QED
      BY <1>0, <1>5, <3>1, SendingKept
  <2>2. CASE Owns(b) /\ route.phase = "live"
    <3>1. task[b] \in Over /\ batch[b] = <<>>
      BY <1>0, <2>2 DEF Owner, Sending, Over
    <3>2. QED
      BY <3>1 DEF Sending, Over, Early, Late, Unrouted
  <2>3. QED
    BY <2>1, <2>2
<1>10. QED
  BY <1>1, <1>5, <1>6, <1>7, <1>8, <1>9 DEF RoutesInv

LEMMA PendingFromType ==
  ASSUME RowsType, NEW c \in Conn PROVE PendingFrom(c) \in Nat /\ Delivery!Expected(c) \in Nat
<1>1. out[c].seq \in Nat /\ batch[c] \in Seq(Event) /\ offer[c].upto \in Nat
  BY RoutesAssumption DEF RowsType, Frame, Offers
<1>2. Blocks(batch[c]) \in Nat
  BY <1>1, BlocksType
<1>3. QED
  BY <1>1, <1>2 DEF PendingFrom, Delivery!Expected

\* The routed connection: its task has installed the route.
LEMMA OwnerFacts ==
  ASSUME RoutesInv, route # NoRoute
  PROVE  /\ route.conn \in Conn /\ Owns(route.conn) /\ Owner(route.conn)
         /\ task[route.conn] \notin Unrouted /\ task[route.conn] \in Early \cup Late \cup Over
         /\ route \in Routes /\ route.next \in Nat /\ route.pending \in Seq(Event)
         /\ route.exitDone \in BOOLEAN /\ Len(route.pending) \in Nat
BY RoutesAssumption, LenProperties
   DEF RoutesInv, RouteType, RoutedType, RowsType, Teardowns, Owns, Routes

\* An event is held back behind the replay of the routed connection.
LEMMA HeldBack ==
  ASSUME RoutesInv, route # NoRoute, route.phase # "live", ~route.exitDone,
         NEW e \in Event, e = ExitEvent \/ (e = route.next /\ e \in Block),
         UNCHANGED <<tasks, out>>, Len(route.pending) < MaxPending \/ e = ExitEvent,
         route' = [route EXCEPT !.next = IF e = ExitEvent THEN @ ELSE e + 1,
                                !.exitDone = (e = ExitEvent), !.pending = Append(@, e)]
  PROVE  RoutedType' /\ Owner(route.conn)'
<1> USE DEF tasks
<1> DEFINE c == route.conn
<1>0. /\ c \in Conn /\ Owner(c) /\ route \in Routes /\ route.next \in Nat
      /\ route.pending \in Seq(Event) /\ Len(route.pending) \in Nat
      /\ RowsType /\ RoutedType /\ MaxPending \in Nat
  BY OwnerFacts, RoutesAssumption DEF RoutesInv, RouteType
<1>1. /\ Append(route.pending, e) \in Seq(Event)
      /\ Len(Append(route.pending, e)) = Len(route.pending) + 1
  BY <1>0, AppendProperties
<1>2. RoutedType'
  <2>1. e \in Block => e \in Nat /\ e + 1 \in 0 .. MaxSeq /\ e # ExitEvent
    BY RoutesAssumption DEF Block, ExitEvent
  <2>2. route' \in Routes
    BY <1>0, <1>1, <2>1 DEF Routes
  <2>3. /\ route'.conn = c /\ route'.phase = route.phase /\ route'.exitDone = (e = ExitEvent)
        /\ Len(route'.pending) = Len(route.pending) + 1
    BY <1>0, <1>1 DEF Routes
  <2>4. route.phase # "none"
    BY <1>0 DEF RoutedType
  <2>5. Len(route.pending) <= MaxPending
    BY <1>0 DEF RoutedType
  <2>6. /\ Len(route'.pending) <= MaxPending + 1
        /\ e # ExitEvent => Len(route'.pending) <= MaxPending
    BY <1>0, <2>3, <2>5
  <2>7. QED
    BY <1>0, <2>2, <2>3, <2>4, <2>6 DEF RoutedType
<1>3. Owner(c)'
  <2>0. /\ route'.phase = route.phase /\ route'.exitDone = (e = ExitEvent)
        /\ route'.next = (IF e = ExitEvent THEN route.next ELSE e + 1)
        /\ route'.pending = Append(route.pending, e)
    BY <1>0 DEF Routes
  <2>1. CASE task[c] \notin Early \cup Late
    BY <2>0, <2>1 DEF Owner
  <2>2. CASE task[c] \in Early \cup Late
    <3>1. /\ ~ExitBefore(c) /\ ~HasExit(route.pending)
          /\ Stretch(route.pending, PendingFrom(c))
          /\ route.next = PendingFrom(c) + Blocks(route.pending)
      BY <1>0, <2>2 DEF Owner
    <3>2. PICK from \in Nat : from = PendingFrom(c)
      BY <1>0, PendingFromType
    <3>3. Stretch(route.pending, from) /\ route.next = from + Blocks(route.pending)
      BY <3>1, <3>2
    <3>4. PendingFrom(c)' = from /\ (ExitBefore(c)' <=> ExitBefore(c))
      BY <3>2 DEF PendingFrom, ExitBefore, Delivery!Expected
    <3>5. Blocks(route.pending) \in Nat
      BY <1>0, BlocksType
    <3>6. CASE e = ExitEvent
      <4>1. /\ Stretch(route'.pending, from) /\ HasExit(route'.pending)
            /\ Blocks(route'.pending) = Blocks(route.pending)
        BY <1>0, <2>0, <3>1, <3>3, <3>6, AppendExit
      <4>2. QED
        BY <2>0, <2>2, <3>1, <3>3, <3>4, <3>6, <4>1 DEF Owner
    <3>7. CASE e = route.next /\ e \in Block
      <4>1. e # ExitEvent
        BY <1>0, <3>7 DEF ExitEvent
      <4>2. /\ Stretch(route'.pending, from) /\ ~HasExit(route'.pending)
            /\ Blocks(route'.pending) = Blocks(route.pending) + 1
        BY <1>0, <2>0, <3>1, <3>3, <3>7, AppendBlock
      <4>3. route'.next = from + Blocks(route'.pending)
        BY <2>0, <3>3, <3>5, <3>7, <4>1, <4>2
      <4>4. QED
        BY <2>0, <2>2, <3>1, <3>4, <4>1, <4>2, <4>3 DEF Owner
    <3>8. QED
      BY <3>6, <3>7
  <2>3. QED
    BY <2>1, <2>2
<1>4. QED
  BY <1>2, <1>3

LEMMA AfterType ==
  ASSUME NEW o \in Frame, NEW kind \in FrameKinds, NEW s \in Nat
  PROVE  /\ Delivery!After(o, kind, s) \in Frame /\ Delivery!After(o, kind, s).k = kind
         /\ Delivery!After(o, kind, s).seq = s
         /\ Delivery!After(o, kind, s).upto = o.upto
         /\ Delivery!After(o, kind, s).exited = o.exited
         /\ Delivery!After(o, kind, s).frames = o.frames + 1
<1> DEFINE o1 == [o EXCEPT !.k = kind]
<1> DEFINE o2 == [o1 EXCEPT !.seq = s]
<1> DEFINE o3 == [o2 EXCEPT !.frames = o.frames + 1]
<1>1. o1 \in Frame /\ o1.k = kind /\ o1.upto = o.upto /\ o1.exited = o.exited
  BY DEF Frame
<1> HIDE DEF o1
<1>2. o2 \in Frame /\ o2.k = kind /\ o2.seq = s /\ o2.upto = o.upto /\ o2.exited = o.exited
  BY <1>1 DEF Frame
<1> HIDE DEF o2
<1>3. o.frames \in Nat
  BY DEF Frame
<1>4. /\ o3 \in Frame /\ o3.k = kind /\ o3.seq = s /\ o3.upto = o.upto /\ o3.exited = o.exited
      /\ o3.frames = o.frames + 1
  BY <1>2, <1>3 DEF Frame
<1> HIDE DEF o3
<1>5. Delivery!After(o, kind, s) = o3
  BY DEF o1, o2, o3, Frame, Delivery!After
<1>6. QED
  BY <1>4, <1>5

\* A live connection is told a block or the exit, or already listens no more.
LEMMA ToldLive ==
  ASSUME RoutesInv, route # NoRoute, route.phase = "live", NEW s \in Nat,
         NEW kind \in {"data", "exit"}, Sent(route.conn, kind, s)
  PROVE  /\ out' \in [Conn -> Frame] /\ closing' = closing
         /\ \A b \in Conn : out'[b] = out[b] \/ (Owns(b) /\ conn[b] # "gone" /\ route.phase = "live"
                                                   /\ out'[b].k \in {"data", "exit"})
         /\ \/ out' = out /\ out[route.conn].k = "left"
            \/ /\ out' = [out EXCEPT ![route.conn] = Delivery!After(out[route.conn], kind, s)]
               /\ Delivery!IsLive(route.conn) /\ Delivery!Expected(route.conn) = route.next
               /\ out'[route.conn].k = kind /\ out'[route.conn].seq = s
               /\ out'[route.conn].exited = FALSE
<1> DEFINE c == route.conn
<1>0. c \in Conn /\ Owns(c) /\ Owner(c) /\ out \in [Conn -> Frame]
  BY OwnerFacts DEF RoutesInv, RouteType, RowsType
<1>1. out[c].k = "left" \/ (Delivery!IsLive(c) /\ Delivery!Expected(c) = route.next)
  BY <1>0 DEF Owner
<1>2. closing' = closing /\ conn[c] # "gone"
  BY DEF Sent, Registered
<1>3. CASE out' = out /\ out[c].k = "left"
  BY <1>0, <1>2, <1>3
<1>4. CASE out[c].k # "left"
  <2>1. out' = [out EXCEPT ![c] = Delivery!After(out[c], kind, s)]
    BY <1>2, <1>4 DEF Sent, Told
  <2>2. /\ Delivery!After(out[c], kind, s) \in Frame /\ Delivery!After(out[c], kind, s).k = kind
        /\ Delivery!After(out[c], kind, s).seq = s
        /\ Delivery!After(out[c], kind, s).exited = out[c].exited
    <3>1. out[c] \in Frame /\ kind \in FrameKinds
      BY <1>0 DEF FrameKinds
    <3>2. QED
      BY <3>1, AfterType
  <2>3. ~out[c].exited /\ out[c].exited \in BOOLEAN
    BY <1>0, <1>1, <1>4 DEF Delivery!IsLive, Frame
  <2>4. QED
    BY <1>0, <1>1, <1>2, <1>4, <2>1, <2>2, <2>3
<1>5. out[c].k = "left" => out' = out
  BY DEF Sent, Told
<1>6. QED
  BY <1>3, <1>4, <1>5

LEMMA NotSentKeeps ==
  ASSUME RowsType, NEW c, NotSent(c)
  PROVE  /\ closing' \in [Conn -> BOOLEAN] /\ \A b \in Conn : closing[b] => closing'[b]
         /\ out' = out /\ out' \in [Conn -> Frame]
BY DEF RowsType, NotSent

LEMMA DispatchDataInv ==
  ASSUME RoutesInv, Dispatch, Head(queue) # ExitEvent PROVE RoutesInv'
<1> DEFINE c == route.conn
<1>0. /\ RoutedType /\ RowsType /\ Seamless
      /\ \A b \in Conn : Owns(b) => Owner(b)
      /\ ev = "idle" /\ queue # <<>> /\ queue' = Tail(queue)
      /\ UNCHANGED <<proc, nextSeq, attached, conn, tasks, reaping>>
      /\ reg' = reg /\ reg \in BOOLEAN
      /\ DispatchData(Head(queue))
  BY DEF RoutesInv, RouteType, HostType, Dispatch
<1>1. PICK s \in Nat : s = Head(queue)
  BY <1>0, EventTaken
<1>2. /\ s \in Block /\ s < nextSeq /\ s = Oldest /\ Oldest' = s + 1 /\ nextSeq \in Nat
      /\ s # ExitEvent /\ s \in Event
  BY <1>0, <1>1, EventTaken DEF Event
<1>3. route # NoRoute =>
        /\ route.next <= nextSeq /\ s <= route.next /\ (s = route.next => ~route.exitDone)
        /\ (route.exitDone => proc = "exited" /\ route.next = nextSeq)
        /\ route.next \in Nat /\ c \in Conn /\ Owns(c)
  BY <1>0, <1>2, OwnerFacts DEF Seamless, GivenUp
<1>4. ASSUME UNCHANGED <<route, ev, evConn>>, Quiet, route = NoRoute \/ s < route.next
      PROVE  RoutesInv'
  <2>1. Seamless'
    BY <1>0, <1>2, <1>3, <1>4 DEF Seamless
  <2>2. /\ RoutedType' /\ out' = out /\ out' \in [Conn -> Frame] /\ closing' = closing
        /\ closing' \in [Conn -> BOOLEAN]
    BY <1>0, <1>4 DEF RoutedType, RowsType, Quiet
  <2>3. \A b \in Conn : Owns(b)' => Owner(b)'
    BY <1>0, <1>4, <2>2, OwnerKept DEF Owns, SameRow, tasks
  <2>4. QED
    BY <1>0, <1>4, <2>1, <2>2, <2>3, DispatchedInv
<1>5. ASSUME route # NoRoute, GiveUp, route' = route, Quiet \/ NotSent(c)
      PROVE  RoutesInv'
  <2>1. /\ out' = out /\ out' \in [Conn -> Frame] /\ closing' \in [Conn -> BOOLEAN]
        /\ \A b \in Conn : closing[b] => closing'[b]
    BY <1>0, <1>5, NotSentKeeps DEF Quiet, RowsType
  <2>2. GivenUp'
    BY <1>5 DEF GiveUp, GivenUp, ClearStep
  <2>3. Seamless' /\ RoutedType'
    BY <1>0, <1>3, <1>5, <2>2 DEF Seamless, RoutedType
  <2>4. \A b \in Conn : Owns(b)' => Owner(b)'
    BY <1>0, <1>5, <2>1, OwnerKept DEF Owns, SameRow, tasks
  <2>5. QED
    BY <1>0, <1>5, <2>1, <2>3, <2>4, DispatchedInv
<1>6. ASSUME route # NoRoute, s = route.next, route.phase # "live", Len(route.pending) < MaxPending,
             route' = [route EXCEPT !.next = s + 1, !.pending = Append(@, s)],
             UNCHANGED <<ev, evConn>>, Quiet
      PROVE  RoutesInv'
  <2>0. route \in Routes /\ ~route.exitDone
    BY <1>0, <1>3, <1>6 DEF RoutedType, Routes
  <2>1. route' = [route EXCEPT !.next = IF s = ExitEvent THEN @ ELSE s + 1,
                               !.exitDone = (s = ExitEvent), !.pending = Append(@, s)]
    BY <1>2, <1>6, <2>0 DEF Routes
  <2>2. out' = out /\ closing' = closing /\ UNCHANGED tasks
    BY <1>0, <1>6 DEF Quiet
  <2>3. RoutedType' /\ Owner(c)'
    BY <1>2, <1>6, <2>0, <2>1, <2>2, HeldBack
  <2>4. /\ route'.conn = c /\ route'.phase = route.phase /\ route'.next = s + 1
        /\ ~route'.exitDone
    BY <1>6, <2>0 DEF Routes
  <2>5. Seamless'
    BY <1>0, <1>2, <2>4 DEF Seamless
  <2>6. c # 0 /\ route' # NoRoute
    <3>1. c # 0
      BY <1>3, <1>6, RoutesAssumption DEF Conn
    <3>2. QED
      BY <3>1, <2>4 DEF NoRoute, NewRoute
  <2>7. \A b \in Conn : Owns(b)' => Owner(b)'
    BY <2>3, <2>4 DEF Owns
  <2>8. out' \in [Conn -> Frame] /\ closing' \in [Conn -> BOOLEAN]
    BY <1>0, <2>2 DEF RowsType
  <2>9. QED
    BY <1>0, <1>6, <2>2, <2>3, <2>4, <2>5, <2>6, <2>7, <2>8, DispatchedInv
<1>7. ASSUME route # NoRoute, s = route.next, route.phase = "live", Sent(c, "data", s),
             route' = [route EXCEPT !.next = s + 1], UNCHANGED <<ev, evConn>>
      PROVE  RoutesInv'
  <2>0. route \in Routes /\ ~route.exitDone /\ RoutedType /\ Owner(c)
    BY <1>0, <1>3, <1>7 DEF RoutedType, Routes
  <2>1. /\ route'.conn = c /\ route'.phase = "live" /\ route'.next = s + 1
        /\ ~route'.exitDone /\ route'.pending = route.pending
    BY <1>7, <2>0 DEF Routes
  <2>2. RoutedType'
    <3>1. s + 1 \in 0 .. MaxSeq
      BY <1>2, RoutesAssumption DEF Block
    <3>2. route' \in Routes
      BY <1>7, <2>0, <3>1 DEF Routes
    <3>3. QED
      BY <1>3, <1>7, <2>0, <2>1, <3>2 DEF RoutedType
  <2>3. /\ out' \in [Conn -> Frame] /\ closing' = closing
        /\ \A b \in Conn : out'[b] = out[b] \/ (Owns(b) /\ conn[b] # "gone" /\ route.phase = "live"
                                                  /\ out'[b].k \in {"data", "exit"})
        /\ \/ out' = out /\ out[c].k = "left"
           \/ /\ out'[c].k = "data" /\ out'[c].seq = s /\ out'[c].exited = FALSE
    BY <1>7, ToldLive
  <2>4. closing' \in [Conn -> BOOLEAN]
    BY <1>0, <2>3 DEF RowsType
  <2>5. Owner(c)'
    <3>1. task[c] \in Over /\ route.pending = <<>>
      BY <1>7, <2>0 DEF Owner
    <3>2. task'[c] \in Over /\ task'[c] \notin Early \cup Late
      BY <1>0, <3>1 DEF tasks, Over, Early, Late
    <3>3. out'[c].k = "left" \/ (Delivery!IsLive(c)' /\ Delivery!Expected(c)' = route'.next)
      BY <2>1, <2>3 DEF Delivery!IsLive, Delivery!Expected
    <3>4. QED
      BY <2>1, <3>1, <3>2, <3>3 DEF Owner
  <2>6. Seamless'
    BY <1>0, <1>2, <2>1 DEF Seamless
  <2>7. c # 0 /\ route' # NoRoute
    <3>1. c # 0
      BY <1>3, <1>7, RoutesAssumption DEF Conn
    <3>2. QED
      BY <3>1, <2>1 DEF NoRoute, NewRoute
  <2>8. \A b \in Conn : Owns(b)' => Owner(b)'
    BY <2>1, <2>5 DEF Owns
  <2>9. QED
    BY <1>0, <1>7, <2>1, <2>2, <2>3, <2>4, <2>6, <2>7, <2>8, DispatchedInv
<1>8. QED
  <2>1. s <= route.next \/ route = NoRoute
    BY <1>3
  <2>2. CASE (route = NoRoute \/ s < route.next) /\ UNCHANGED <<route, ev, evConn>> /\ Quiet
    BY <2>2, <1>4
  <2>3. CASE route # NoRoute /\ GiveUp /\ route' = route /\ (Quiet \/ NotSent(c))
    BY <2>3, <1>5
  <2>4. CASE /\ route # NoRoute /\ s = route.next /\ route.phase # "live"
             /\ Len(route.pending) < MaxPending
             /\ route' = [route EXCEPT !.next = s + 1, !.pending = Append(@, s)]
             /\ UNCHANGED <<ev, evConn>> /\ Quiet
    BY <2>4, <1>6
  <2>5. CASE /\ route # NoRoute /\ s = route.next /\ route.phase = "live" /\ Sent(c, "data", s)
             /\ route' = [route EXCEPT !.next = s + 1] /\ UNCHANGED <<ev, evConn>>
    BY <2>5, <1>7
  <2>6. QED
    BY <1>0, <1>1, <2>2, <2>3, <2>4, <2>5 DEF DispatchData

LEMMA DispatchExitInv ==
  ASSUME RoutesInv, Dispatch, Head(queue) = ExitEvent PROVE RoutesInv'
<1> DEFINE c == route.conn
<1>0. /\ RoutedType /\ RowsType /\ Seamless
      /\ \A b \in Conn : Owns(b) => Owner(b)
      /\ ev = "idle" /\ queue # <<>> /\ queue' = Tail(queue)
      /\ UNCHANGED <<proc, nextSeq, attached, conn, tasks, reaping, ev, evConn>>
      /\ reg \in BOOLEAN /\ DispatchExit
  BY DEF RoutesInv, RouteType, HostType, Dispatch, ExitEvent, DispatchData
<1>1. proc = "exited" /\ Oldest = nextSeq /\ Oldest' = nextSeq /\ nextSeq \in Nat
  BY <1>0, EventTaken
<1>2. route # NoRoute => route.next = nextSeq /\ c \in Conn /\ Owns(c) /\ route \in Routes
  BY <1>0, <1>1, OwnerFacts DEF Seamless, GivenUp
<1>3. CASE UNCHANGED <<route, reg>> /\ Quiet
  <2>1. Seamless'
    BY <1>0, <1>1, <1>2, <1>3 DEF Seamless
  <2>2. /\ RoutedType' /\ out' = out /\ out' \in [Conn -> Frame] /\ closing' = closing
        /\ closing' \in [Conn -> BOOLEAN]
    BY <1>0, <1>3 DEF RoutedType, RowsType, Quiet
  <2>3. \A b \in Conn : Owns(b)' => Owner(b)'
    BY <1>0, <1>3, <2>2, OwnerKept DEF Owns, SameRow, tasks
  <2>4. QED
    BY <1>0, <1>3, <2>1, <2>2, <2>3, DispatchedInv
<1>4. CASE /\ route # NoRoute /\ ~route.exitDone /\ route.phase # "live"
           /\ route' = [route EXCEPT !.exitDone = TRUE, !.pending = Append(@, ExitEvent)]
           /\ UNCHANGED reg /\ Quiet
  <2>0. route \in Routes /\ ExitEvent \in Event
    BY <1>2, <1>4 DEF Event
  <2>1. route' = [route EXCEPT !.next = IF ExitEvent = ExitEvent THEN @ ELSE ExitEvent + 1,
                               !.exitDone = (ExitEvent = ExitEvent),
                               !.pending = Append(@, ExitEvent)]
    BY <1>4, <2>0 DEF Routes
  <2>2. out' = out /\ closing' = closing /\ UNCHANGED tasks
    BY <1>0, <1>4 DEF Quiet
  <2>3. RoutedType' /\ Owner(c)'
    BY <1>4, <2>0, <2>1, <2>2, HeldBack
  <2>4. route'.conn = c /\ route'.phase = route.phase /\ route'.next = route.next
    BY <1>4, <2>0 DEF Routes
  <2>5. Seamless'
    BY <1>0, <1>1, <1>2, <1>4, <2>4 DEF Seamless
  <2>6. c # 0 /\ route' # NoRoute
    <3>1. c # 0
      BY <1>2, <1>4, RoutesAssumption DEF Conn
    <3>2. QED
      BY <3>1, <2>4 DEF NoRoute, NewRoute
  <2>7. \A b \in Conn : Owns(b)' => Owner(b)'
    BY <2>3, <2>4 DEF Owns
  <2>8. out' \in [Conn -> Frame] /\ closing' \in [Conn -> BOOLEAN]
    BY <1>0, <2>2 DEF RowsType
  <2>9. QED
    BY <1>0, <1>4, <2>2, <2>3, <2>4, <2>5, <2>6, <2>7, <2>8, DispatchedInv
<1>5. CASE /\ route # NoRoute /\ route.phase = "live" /\ route' = NoRoute
           /\ (Sent(c, "exit", 0) /\ reg' = FALSE) \/ (NotSent(c) /\ UNCHANGED reg)
  <2>1. /\ out' \in [Conn -> Frame] /\ closing' \in [Conn -> BOOLEAN]
        /\ \A b \in Conn : closing[b] => closing'[b]
        /\ \A b \in Conn : out'[b] = out[b] \/ (Owns(b) /\ conn[b] # "gone" /\ route.phase = "live"
                                                  /\ out'[b].k \in {"data", "exit"})
    <3>1. CASE Sent(c, "exit", 0)
      BY <1>0, <1>5, <3>1, ToldLive DEF RowsType
    <3>2. CASE NotSent(c)
      BY <1>0, <3>2, NotSentKeeps
    <3>3. QED
      BY <1>5, <3>1, <3>2
  <2>2. RoutedType' /\ Seamless'
    BY <1>5, NoRouteType DEF RoutedType, Seamless
  <2>3. \A b \in Conn : ~Owns(b)'
    BY <1>5 DEF Owns
  <2>4. reg' \in BOOLEAN
    BY <1>0, <1>5
  <2>5. QED
    BY <1>0, <1>5, <2>1, <2>2, <2>3, <2>4, DispatchedInv
<1>6. QED
  BY <1>0, <1>3, <1>4, <1>5 DEF DispatchExit

LEMMA DispatchInv ==
  ASSUME RoutesInv, Dispatch PROVE RoutesInv'
BY DispatchDataInv, DispatchExitInv

-------------------------------------------------------------------------------
(* Requests and connections: a step of connection c. *)

LEMMA ToldFacts ==
  ASSUME RowsType, NEW c \in Conn, NEW kind \in FrameKinds, NEW s \in Nat, Told(c, kind, s)
  PROVE  /\ out' \in [Conn -> Frame] /\ \A b \in Conn \ {c} : out'[b] = out[b]
         /\ conn[c] = "gone" \/ out[c].k = "left" => out' = out
         /\ conn[c] # "gone" /\ out[c].k # "left" =>
              /\ out'[c] = Delivery!After(out[c], kind, s)
              /\ out'[c].k = kind /\ out'[c].seq = s
              /\ out'[c].upto = out[c].upto /\ out'[c].exited = out[c].exited
<1>1. out \in [Conn -> Frame] /\ out[c] \in Frame
  BY DEF RowsType
<1>2. /\ Delivery!After(out[c], kind, s) \in Frame /\ Delivery!After(out[c], kind, s).k = kind
      /\ Delivery!After(out[c], kind, s).seq = s
      /\ Delivery!After(out[c], kind, s).upto = out[c].upto
      /\ Delivery!After(out[c], kind, s).exited = out[c].exited
  BY <1>1, AfterType
<1>3. \/ out' = out /\ (conn[c] = "gone" \/ out[c].k = "left")
      \/ /\ out' = [out EXCEPT ![c] = Delivery!After(out[c], kind, s)]
         /\ conn[c] # "gone" /\ out[c].k # "left"
  BY DEF Told
<1>4. QED
  BY <1>1, <1>2, <1>3

\* The part of the invariant that is about the others and the terminal, after a step of
\* connection c that keeps the route or ends it.
LEMMA ConnStepInv ==
  ASSUME RoutesInv, NEW c \in Conn, UNCHANGED <<proc, nextSeq, queue, ev, evConn, reaping>>,
         reg' \in BOOLEAN, attached' \in BOOLEAN, route' = route \/ route' = NoRoute,
         RowsType', \A b \in Conn \ {c} : SameRow(b),
         task'[c] \in Unrouted => task[c] \in Unrouted,
         task'[c] = "creating" => proc = "unborn" /\ c = 1,
         conn'[c] = "new" => task'[c] = "idle",
         conn'[c] \notin {"new", "open"} => closing'[c],
         conn'[c] # "gone" => out'[c].k # "closed",
         Owns(c)' => \/ route.phase # "live" /\ task'[c] \notin {"ending"} \cup Late
                     \/ conn'[c] \in Up,
         Sending(c)', Owns(c)' => Owner(c)'
  PROVE  RoutesInv'
<1>0. /\ RouteType /\ HostType /\ RoutedType /\ RowsType
      /\ Birth /\ Channel /\ Clearing /\ Seamless /\ Teardowns
  BY DEF RoutesInv, RouteType
<1>1. \A b \in Conn : Owns(b)' => Owns(b) /\ route' = route
  BY DEF Owns
<1>2. HostType'
  BY <1>0 DEF HostType
<1>3. RoutedType'
  BY <1>0, NoRouteType DEF RoutedType
<1>4. RouteType'
  BY <1>2, <1>3 DEF RouteType
<1>5. Birth'
  BY <1>0 DEF Birth, SameRow
<1>6. Channel'
  BY <1>0 DEF Channel, Oldest
<1>7. Clearing'
  BY <1>0, <1>1 DEF Clearing, SameRow
<1>8. Seamless'
  BY <1>0 DEF Seamless, GivenUp, Oldest
<1>9. Teardowns'
  <2>1. ASSUME NEW b \in Conn
        PROVE  /\ conn'[b] \notin {"new", "open"} => closing'[b]
               /\ conn'[b] # "gone" => out'[b].k # "closed"
    BY <1>0, <2>1 DEF Teardowns, SameRow
  <2>2. ASSUME route' # NoRoute
        PROVE  /\ task'[route'.conn] \notin Unrouted
               /\ route'.phase = "live" \/ task'[route'.conn] \in {"ending"} \cup Late =>
                    conn'[route'.conn] \in Up
    <3>1. route' = route /\ route.conn \in Conn /\ Owns(route.conn)'
      BY <1>0, <2>2 DEF RoutedType, Owns
    <3>2. CASE route.conn = c
      BY <1>0, <2>2, <3>1, <3>2 DEF Teardowns
    <3>3. CASE route.conn # c
      BY <1>0, <2>2, <3>1, <3>3 DEF Teardowns, SameRow
    <3>4. QED
      BY <3>2, <3>3
  <2>3. QED
    BY <2>1, <2>2 DEF Teardowns
<1>10. Onward
  BY <1>0 DEF Onward, HostType
<1>11. \A b \in Conn : Sending(b)' /\ (Owns(b)' => Owner(b)')
  BY <1>4, <1>10, OthersKept
<1>12. QED
  BY <1>4, <1>5, <1>6, <1>7, <1>8, <1>9, <1>11 DEF RoutesInv

\* What the invariant says of connection c.
LEMMA RowFacts ==
  ASSUME RoutesInv, NEW c \in Conn
  PROVE  /\ HostType /\ RoutedType /\ RowsType /\ Sending(c) /\ (Owns(c) => Owner(c))
         /\ conn[c] = "new" => task[c] = "idle"
         /\ conn[c] \notin {"new", "open"} => closing[c]
         /\ conn[c] # "gone" => out[c].k # "closed"
         /\ Owns(c) => task[c] \notin Unrouted
         /\ Owns(c) /\ (route.phase = "live" \/ task[c] \in {"ending"} \cup Late) => conn[c] \in Up
         /\ out[c] \in Frame /\ offer[c] \in Offers /\ batch[c] \in Seq(Event)
         /\ offer[c].seq \in Nat /\ offer[c].upto \in Nat /\ offer[c].exited \in BOOLEAN
         /\ out[c].seq \in Nat /\ nextSeq \in Nat
<1>1. /\ HostType /\ RoutedType /\ RowsType /\ Sending(c) /\ (Owns(c) => Owner(c))
      /\ Birth /\ Teardowns
  BY DEF RoutesInv, RouteType
<1>2. /\ out[c] \in Frame /\ offer[c] \in Offers /\ batch[c] \in Seq(Event)
  BY <1>1 DEF RowsType
<1>3. /\ offer[c].seq \in Nat /\ offer[c].upto \in Nat /\ offer[c].exited \in BOOLEAN
      /\ out[c].seq \in Nat /\ nextSeq \in Nat
  BY <1>1, <1>2, RoutesAssumption DEF Offers, Frame, HostType
<1>4. QED
  BY <1>1, <1>2, <1>3 DEF Birth, Teardowns, Owns

LEMMA AskInv ==
  ASSUME RoutesInv, NEW c \in Conn, NEW what \in {"creating", "asked"}, Ask(c, what)
  PROVE  RoutesInv'
<1> USE DEF Ask, Goto, host, events
<1>0. /\ RowsType /\ HostType /\ Sending(c) /\ task[c] = "idle" /\ ~Owns(c)
      /\ conn[c] # "gone" /\ out[c].k # "closed"
  BY RowFacts DEF Unrouted
<1>1. /\ conn' = [conn EXCEPT ![c] = "open"] /\ task' = [task EXCEPT ![c] = what]
      /\ task'[c] = what /\ conn'[c] = "open" /\ what \in Unrouted
      /\ \A b \in Conn \ {c} : SameRow(b)
  BY <1>0 DEF RowsType, SameRow, Unrouted
<1>2. RowsType'
  BY <1>0, <1>1 DEF RowsType, Up
<1>3. Sending(c)'
  BY <1>0, <1>1 DEF Sending, Unrouted, Early, Late
<1>4. ~Owns(c)' /\ (what = "creating" => proc = "unborn" /\ c = 1)
  BY <1>0 DEF Owns
<1>5. QED
  BY <1>0, <1>1, <1>2, <1>3, <1>4, ConnStepInv DEF HostType, Unrouted, Owns

LEMMA AttachLookupInv ==
  ASSUME RoutesInv, NEW c \in Conn, AttachLookup(c) PROVE RoutesInv'
<1> USE DEF AttachLookup, Goto, host, events
<1>0. /\ RowsType /\ HostType /\ Sending(c) /\ ~Owns(c) /\ out[c] \in Frame
      /\ conn[c] \notin {"new", "open"} => closing[c]
      /\ conn[c] # "gone" => out[c].k # "closed"
      /\ conn[c] # "new"
  BY RowFacts DEF Unrouted
<1>1. /\ out' \in [Conn -> Frame] /\ closing' \in [Conn -> BOOLEAN]
      /\ \A b \in Conn : (closing[b] => closing'[b]) /\ (b # c => out'[b] = out[b])
      /\ task'[c] = "looked" => out' = out
      /\ conn[c] # "gone" => out'[c].k # "closed"
  <2>1. CASE Quiet /\ task' = [task EXCEPT ![c] = "looked"]
    BY <1>0, <2>1 DEF Quiet, RowsType
  <2>2. CASE NotSent(c) /\ task' = [task EXCEPT ![c] = "done"]
    BY <1>0, <2>2, NotSentKeeps
  <2>3. CASE Sent(c, "refused", 0) /\ task' = [task EXCEPT ![c] = "done"]
    <3>1. Told(c, "refused", 0) /\ closing' = closing
      BY <2>3 DEF Sent
    <3>2. /\ out' \in [Conn -> Frame] /\ \A b \in Conn \ {c} : out'[b] = out[b]
          /\ out'[c] = out[c] \/ out'[c].k = "refused"
      BY <1>0, <3>1, ToldFacts DEF FrameKinds
    <3>3. QED
      BY <1>0, <2>3, <3>1, <3>2 DEF RowsType
  <2>4. QED
    BY <2>1, <2>2, <2>3
<1>2. /\ task' \in [Conn -> Unrouted \cup Early \cup Late \cup Over]
      /\ task'[c] \in {"looked", "done"}
      /\ \A b \in Conn \ {c} : task'[b] = task[b]
  BY <1>0 DEF RowsType, Unrouted, Over
<1>3. RowsType' /\ \A b \in Conn \ {c} : SameRow(b)
  BY <1>0, <1>1, <1>2 DEF RowsType, SameRow
<1>4. Sending(c)'
  BY <1>0, <1>1, <1>2 DEF Sending, Unrouted, Early, Late
<1>5. QED
  BY <1>0, <1>1, <1>2, <1>3, <1>4, ConnStepInv DEF HostType, Unrouted, Owns

LEMMA AttachReplyInv ==
  ASSUME RoutesInv, NEW c \in Conn, AttachReply(c) PROVE RoutesInv'
<1> USE DEF AttachReply, Goto, host, events
<1>0. /\ RowsType /\ HostType /\ Sending(c) /\ (Owns(c) => Owner(c)) /\ out[c] \in Frame
      /\ conn[c] \notin {"new", "open"} => closing[c]
      /\ conn[c] # "gone" => out[c].k # "closed"
      /\ Owns(c) => ~(route.phase = "live") \/ conn[c] \in Up
      /\ conn[c] # "new" /\ task[c] = "reply"
      /\ offer[c].seq \in Nat /\ offer[c].upto \in Nat /\ offer[c].exited \in BOOLEAN
  BY RowFacts
<1> DEFINE o == Delivery!AfterReply(out[c], offer[c].seq, offer[c].upto, offer[c].exited)
<1>1. /\ o \in Frame /\ o.k = "reply" /\ o.seq = offer[c].seq /\ o.upto = offer[c].upto
      /\ o.exited = offer[c].exited
  <2>1. PICK p \in Frame : p = Delivery!After(out[c], "reply", offer[c].seq) /\ p.k = "reply"
                           /\ p.seq = offer[c].seq
    <3>1. "reply" \in FrameKinds
      BY DEF FrameKinds
    <3>2. QED
      BY <1>0, <3>1, AfterType
  <2>2. o = [p EXCEPT !.upto = offer[c].upto, !.exited = offer[c].exited]
    BY <2>1 DEF Delivery!AfterReply
  <2>3. /\ [p EXCEPT !.upto = offer[c].upto] \in Frame
        /\ [p EXCEPT !.upto = offer[c].upto].k = "reply"
        /\ [p EXCEPT !.upto = offer[c].upto].seq = offer[c].seq
        /\ [p EXCEPT !.upto = offer[c].upto].upto = offer[c].upto
    BY <1>0, <2>1 DEF Frame
  <2>4. PICK q \in Frame : q = [p EXCEPT !.upto = offer[c].upto] /\ q.k = "reply"
                           /\ q.seq = offer[c].seq /\ q.upto = offer[c].upto
    BY <2>3
  <2>5. o = [q EXCEPT !.exited = offer[c].exited]
    BY <2>2, <2>4 DEF Frame
  <2>6. QED
    BY <1>0, <2>4, <2>5 DEF Frame
<1> HIDE DEF o
<1>2. /\ out' \in [Conn -> Frame] /\ closing' \in [Conn -> BOOLEAN]
      /\ \A b \in Conn : (closing[b] => closing'[b]) /\ (b # c => out'[b] = out[b])
      /\ out'[c] = o \/ (closing'[c] /\ out'[c] = out[c])
  <2>1. CASE NotSent(c)
    <3>1. closing'[c]
      BY <1>0, <2>1 DEF NotSent, Registered, RowsType
    <3>2. QED
      BY <1>0, <2>1, <3>1, NotSentKeeps
  <2>2. CASE out' = [out EXCEPT ![c] = o] /\ closing' = closing
    BY <1>0, <1>1, <2>2 DEF RowsType
  <2>3. QED
    BY <2>1, <2>2 DEF o
<1>3. /\ task' \in [Conn -> Unrouted \cup Early \cup Late \cup Over] /\ task'[c] = "replay"
      /\ \A b \in Conn \ {c} : task'[b] = task[b]
  BY <1>0 DEF RowsType, Early
<1>4. RowsType' /\ \A b \in Conn \ {c} : SameRow(b)
  BY <1>0, <1>2, <1>3 DEF RowsType, SameRow
<1>5. Sending(c)'
  BY <1>0, <1>1, <1>2, <1>3
     DEF Sending, Unrouted, Early, Late, Delivery!Replaying, Delivery!Expected
<1>6. Owns(c)' => Owner(c)'
  <2>1. task[c] \in Early /\ task'[c] \in Early /\ task[c] \notin Over
    BY <1>0, <1>3 DEF Early, Over
  <2>2. PendingFrom(c)' = PendingFrom(c) /\ (ExitBefore(c)' <=> ExitBefore(c))
    BY <2>1 DEF PendingFrom, ExitBefore
  <2>3. QED
    BY <1>0, <2>1, <2>2 DEF Owner, Owns
<1>7. conn'[c] # "gone" => out'[c].k # "closed"
  BY <1>0, <1>1, <1>2
<1>8. QED
  BY <1>0, <1>2, <1>3, <1>4, <1>5, <1>6, <1>7, ConnStepInv DEF HostType, Unrouted, Owns, Late

LEMMA ReplayBlockInv ==
  ASSUME RoutesInv, NEW c \in Conn, ReplayBlock(c) PROVE RoutesInv'
<1> USE DEF ReplayBlock, host, events, conns
<1>0. /\ RowsType /\ HostType /\ Sending(c) /\ (Owns(c) => Owner(c)) /\ offer[c] \in Offers
      /\ conn[c] \notin {"new", "open"} => closing[c]
      /\ conn[c] # "gone" => out[c].k # "closed"
      /\ Owns(c) => ~(route.phase = "live") \/ conn[c] \in Up
      /\ conn[c] # "new" /\ task[c] = "replay"
      /\ offer[c].seq \in Nat /\ offer[c].upto \in Nat /\ offer[c].exited \in BOOLEAN
      /\ offer[c].upto \in 0 .. MaxSeq
  BY RowFacts DEF Offers
<1>1. /\ conn[c] = "open" /\ ~closing[c] /\ offer[c].seq < offer[c].upto
      /\ Delivery!Replaying(c) /\ Delivery!Expected(c) = offer[c].seq
      /\ out[c].upto = offer[c].upto /\ out[c].exited = offer[c].exited
  BY <1>0 DEF Sending, RowsType, Up
<1>2. /\ out' \in [Conn -> Frame] /\ \A b \in Conn \ {c} : out'[b] = out[b]
      /\ out'[c].k = "rep" /\ out'[c].seq = offer[c].seq /\ out'[c].upto = out[c].upto
      /\ out'[c].exited = out[c].exited
  <2>1. Told(c, "rep", offer[c].seq) /\ out[c].k # "left"
    BY <1>1 DEF Delivery!Replaying
  <2>2. QED
    BY <1>0, <1>1, <2>1, ToldFacts DEF FrameKinds
<1>3. /\ offer' \in [Conn -> Offers] /\ \A b \in Conn \ {c} : offer'[b] = offer[b]
      /\ offer'[c].seq = offer[c].seq + 1 /\ offer'[c].upto = offer[c].upto
      /\ offer'[c].exited = offer[c].exited
  <2>1. offer[c].seq + 1 \in 0 .. MaxSeq
    BY <1>0, <1>1, RoutesAssumption
  <2>2. offer' = [offer EXCEPT ![c] = [offer[c] EXCEPT !.seq = offer[c].seq + 1]]
    BY <1>0 DEF RowsType
  <2>3. /\ [offer[c] EXCEPT !.seq = offer[c].seq + 1] \in Offers
        /\ [offer[c] EXCEPT !.seq = offer[c].seq + 1].seq = offer[c].seq + 1
        /\ [offer[c] EXCEPT !.seq = offer[c].seq + 1].upto = offer[c].upto
        /\ [offer[c] EXCEPT !.seq = offer[c].seq + 1].exited = offer[c].exited
    BY <1>0, <2>1 DEF Offers
  <2>4. QED
    BY <1>0, <2>2, <2>3 DEF RowsType
<1>4. RowsType' /\ \A b \in Conn \ {c} : SameRow(b)
  BY <1>0, <1>2, <1>3 DEF RowsType, SameRow
<1>5. Sending(c)'
  BY <1>0, <1>1, <1>2, <1>3
     DEF Sending, Unrouted, Early, Late, Delivery!Replaying, Delivery!Expected
<1>6. Owns(c)' => Owner(c)'
  <2>1. task[c] \in Early /\ task[c] \notin Over
    BY <1>0 DEF Early, Over
  <2>2. PendingFrom(c)' = PendingFrom(c) /\ (ExitBefore(c)' <=> ExitBefore(c))
    BY <1>3, <2>1 DEF PendingFrom, ExitBefore
  <2>3. QED
    BY <1>0, <2>1, <2>2 DEF Owner, Owns
<1>7. QED
  BY <1>0, <1>1, <1>2, <1>4, <1>5, <1>6, ConnStepInv DEF HostType, Unrouted, Owns, Late

\* The task turns to clearing the route: nothing is said of its connection any more.
LEMMA TaskOverInv ==
  ASSUME RoutesInv, NEW c \in Conn,
         UNCHANGED <<proc, nextSeq, queue, ev, evConn, reaping, conn, closing>>,
         reg' \in BOOLEAN, attached' \in BOOLEAN, route' = route \/ route' = NoRoute,
         task[c] \notin Unrouted, task'[c] \in Over,
         RowsType', \A b \in Conn \ {c} : SameRow(b),
         batch'[c] = <<>>, conn[c] # "gone" => out'[c].k # "closed",
         Owns(c)' /\ route.phase = "live" =>
            out'[c] = out[c] \/ out'[c].k = "left"
  PROVE  RoutesInv'
<1>0. /\ RowsType /\ HostType /\ Sending(c) /\ (Owns(c) => Owner(c))
      /\ conn[c] \notin {"new", "open"} => closing[c]
      /\ Owns(c) => ~(route.phase = "live") \/ conn[c] \in Up
      /\ conn[c] # "new"
  BY RowFacts DEF Unrouted
<1>1. task'[c] \notin Unrouted /\ task'[c] \notin Early /\ task'[c] \notin Late
      /\ task'[c] \notin {"push", "replay", "reply", "ending", "creating"}
  BY DEF Over, Unrouted, Early, Late
<1>2. Sending(c)'
  BY <1>1 DEF Sending
<1>3. Owns(c)' => Owner(c)'
  BY <1>0, <1>1 DEF Owner, Owns, Delivery!IsLive, Delivery!Expected
<1>4. Owns(c)' => Owns(c)
  BY <1>0 DEF Owns
<1>5. QED
  BY <1>0, <1>1, <1>2, <1>3, <1>4, ConnStepInv

LEMMA ReplayFailsInv ==
  ASSUME RoutesInv, NEW c \in Conn, ReplayFails(c) PROVE RoutesInv'
<1> USE DEF ReplayFails, Goto, host, events, conns
<1>0. /\ RowsType /\ HostType /\ Sending(c) /\ (Owns(c) => Owner(c)) /\ out[c] \in Frame
      /\ conn[c] # "gone" => out[c].k # "closed"
      /\ task[c] = "replay" /\ batch[c] = <<>>
  BY RowFacts DEF Sending
<1>1. /\ out' \in [Conn -> Frame] /\ \A b \in Conn \ {c} : out'[b] = out[b]
      /\ out'[c] = out[c] \/ out'[c].k = "fail"
  <2>1. CASE out' = out
    BY <1>0, <2>1 DEF RowsType
  <2>2. CASE Told(c, "fail", 0)
    BY <1>0, <2>2, ToldFacts DEF FrameKinds
  <2>3. QED
    BY <2>1, <2>2
<1>2. /\ task' \in [Conn -> Unrouted \cup Early \cup Late \cup Over] /\ task'[c] \in Over
      /\ \A b \in Conn \ {c} : task'[b] = task[b]
      /\ offer' \in [Conn -> Offers] /\ \A b \in Conn \ {c} : offer'[b] = offer[b]
  <2>1. NoOffer \in Offers /\ ClearStep(c) \in Over
    BY RoutesAssumption DEF NoOffer, Offers, ClearStep, Over
  <2>2. QED
    BY <1>0, <2>1 DEF RowsType
<1>3. RowsType' /\ \A b \in Conn \ {c} : SameRow(b)
  BY <1>0, <1>1, <1>2 DEF RowsType, SameRow
<1>4. Owns(c) => route.phase # "live"
  BY <1>0 DEF Owner, Over
<1>5. QED
  BY <1>0, <1>1, <1>2, <1>3, <1>4, TaskOverInv DEF HostType, Unrouted, Owns

LEMMA EndReplayInv ==
  ASSUME RoutesInv, NEW c \in Conn, EndReplay(c) PROVE RoutesInv'
<1> USE DEF EndReplay, Goto, host, events, conns
<1>0. /\ RowsType /\ HostType /\ Sending(c) /\ (Owns(c) => Owner(c)) /\ out[c] \in Frame
      /\ conn[c] \notin {"new", "open"} => closing[c]
      /\ conn[c] # "gone" => out[c].k # "closed"
      /\ Owns(c) => ~(route.phase = "live") \/ conn[c] \in Up
      /\ conn[c] # "new" /\ task[c] = "replay" /\ batch[c] = <<>>
      /\ offer[c].seq = offer[c].upto
  BY RowFacts DEF Sending
<1>1. /\ task' \in [Conn -> Unrouted \cup Early \cup Late \cup Over]
      /\ task'[c] = IF closing[c] THEN ClearStep(c) ELSE "ending"
      /\ \A b \in Conn \ {c} : task'[b] = task[b]
      /\ ClearStep(c) \in Over
  BY <1>0 DEF RowsType, ClearStep, Over, Early
<1>2. RowsType' /\ \A b \in Conn \ {c} : SameRow(b)
  BY <1>0, <1>1 DEF RowsType, SameRow
<1>3. Owns(c) => route.phase # "live"
  BY <1>0 DEF Owner, Over
<1>4. CASE closing[c]
  BY <1>0, <1>1, <1>2, <1>3, <1>4, TaskOverInv DEF HostType, Unrouted, Owns
<1>5. CASE ~closing[c]
  <2>1. task'[c] = "ending" /\ conn[c] = "open" /\ task'[c] \in Early /\ task[c] \in Early
        /\ task[c] \notin Over
    BY <1>0, <1>1, <1>5 DEF Early, Over
  <2>2. Sending(c)'
    BY <1>0, <1>5, <2>1
       DEF Sending, Unrouted, Early, Late, Delivery!Replaying, Delivery!Expected
  <2>3. PendingFrom(c)' = PendingFrom(c) /\ (ExitBefore(c)' <=> ExitBefore(c))
    BY <2>1 DEF PendingFrom, ExitBefore
  <2>4. Owns(c)' => Owner(c)'
    BY <1>0, <2>1, <2>3 DEF Owner, Owns
  <2>5. QED
    BY <1>0, <1>2, <2>1, <2>2, <2>4, ConnStepInv DEF HostType, Unrouted, Owns, Up
<1>6. QED
  BY <1>4, <1>5

LEMMA SendEndInv ==
  ASSUME RoutesInv, NEW c \in Conn, SendEnd(c) PROVE RoutesInv'
<1> USE DEF SendEnd, Goto, host, events, conns
<1>0. /\ RowsType /\ HostType /\ Sending(c) /\ (Owns(c) => Owner(c)) /\ out[c] \in Frame
      /\ conn[c] \notin {"new", "open"} => closing[c]
      /\ conn[c] # "gone" => out[c].k # "closed"
      /\ Owns(c) => conn[c] \in Up
      /\ conn[c] # "new" /\ task[c] = "ending" /\ batch[c] = <<>>
      /\ offer[c].seq = offer[c].upto /\ offer[c].upto \in Nat
  BY RowFacts DEF Sending
<1>1. offer' \in [Conn -> Offers] /\ \A b \in Conn \ {c} : offer'[b] = offer[b]
  <2>1. NoOffer \in Offers
    BY RoutesAssumption DEF NoOffer, Offers
  <2>2. QED
    BY <1>0, <2>1 DEF RowsType
<1>2. Owns(c) => route.phase # "live"
  BY <1>0 DEF Owner, Over
<1>3. CASE conn[c] = "gone" /\ UNCHANGED out /\ task' = [task EXCEPT ![c] = ClearStep(c)]
  <2>1. /\ task' \in [Conn -> Unrouted \cup Early \cup Late \cup Over] /\ task'[c] \in Over
        /\ \A b \in Conn \ {c} : task'[b] = task[b]
    BY <1>0, <1>3 DEF RowsType, ClearStep, Over
  <2>2. RowsType' /\ \A b \in Conn \ {c} : SameRow(b)
    BY <1>0, <1>1, <1>3, <2>1 DEF RowsType, SameRow
  <2>3. QED
    BY <1>0, <1>2, <1>3, <2>1, <2>2, TaskOverInv DEF HostType, Unrouted, Owns
<1>4. CASE Told(c, "end", offer[c].upto) /\ task' = [task EXCEPT ![c] = "finish"]
  <2>1. /\ task' \in [Conn -> Unrouted \cup Early \cup Late \cup Over] /\ task'[c] = "finish"
        /\ \A b \in Conn \ {c} : task'[b] = task[b]
    BY <1>0, <1>4 DEF RowsType, Late
  <2>2. conn[c] # "gone" =>
          /\ Delivery!Replaying(c) /\ out[c].k # "left" /\ Delivery!Expected(c) = offer[c].seq
          /\ out[c].upto = offer[c].upto /\ out[c].exited = offer[c].exited
    BY <1>0 DEF Sending, Delivery!Replaying
  <2>3. /\ out' \in [Conn -> Frame] /\ \A b \in Conn \ {c} : out'[b] = out[b]
        /\ conn[c] = "gone" => out' = out
        /\ conn[c] # "gone" => /\ out'[c].k = "end" /\ out'[c].seq = offer[c].upto
                               /\ out'[c].exited = offer[c].exited
    <3>1. "end" \in FrameKinds
      BY DEF FrameKinds
    <3>2. QED
      BY <1>0, <1>4, <2>2, <3>1, ToldFacts
  <2>4. RowsType' /\ \A b \in Conn \ {c} : SameRow(b)
    BY <1>0, <1>1, <2>1, <2>3 DEF RowsType, SameRow
  <2>5. Stretch(<<>>, Delivery!Expected(c)') /\ ~HasExit(<<>>) /\ Blocks(<<>>) = 0
    BY NoEvents
  <2>6. Sending(c)'
    BY <1>0, <2>1, <2>3, <2>5 DEF Sending, Unrouted, Early, Late
  <2>7. ASSUME Owns(c)' PROVE Owner(c)'
    <3>1. conn[c] # "gone" /\ task[c] \in Early /\ task'[c] \notin Early /\ task'[c] \notin Over
      BY <1>0, <2>1, <2>7 DEF Owns, Up, Early, Over
    <3>2. PendingFrom(c)' = PendingFrom(c)
      BY <1>0, <2>3, <2>5, <3>1 DEF PendingFrom, Delivery!Expected
    <3>3. ExitBefore(c)' <=> ExitBefore(c)
      BY <1>0, <2>3, <2>5, <3>1 DEF ExitBefore
    <3>4. QED
      BY <1>0, <1>2, <2>7, <3>1, <3>2, <3>3 DEF Owner, Owns
  <2>8. QED
    BY <1>0, <2>1, <2>3, <2>4, <2>6, <2>7, ConnStepInv DEF HostType, Unrouted, Owns
<1>5. QED
  BY <1>3, <1>4

LEMMA FinishInv ==
  ASSUME RoutesInv, NEW c \in Conn, Finish(c) PROVE RoutesInv'
<1> USE DEF Finish, Goto, host, events, conns
<1>0. /\ RowsType /\ HostType /\ Sending(c) /\ (Owns(c) => Owner(c)) /\ out[c] \in Frame
      /\ conn[c] \notin {"new", "open"} => closing[c]
      /\ conn[c] # "gone" => out[c].k # "closed"
      /\ Owns(c) => conn[c] \in Up
      /\ conn[c] # "new" /\ task[c] = "finish" /\ batch[c] = <<>>
  BY RowFacts DEF Sending, Late
<1>1. /\ task' \in [Conn -> Unrouted \cup Early \cup Late \cup Over]
      /\ task'[c] = IF Registered(c) THEN "drain" ELSE "done"
      /\ \A b \in Conn \ {c} : task'[b] = task[b]
  BY <1>0 DEF RowsType, Over, Late
<1>2. RowsType' /\ \A b \in Conn \ {c} : SameRow(b)
  BY <1>0, <1>1 DEF RowsType, SameRow
<1>3. Owns(c) => route.phase # "live"
  BY <1>0 DEF Owner, Over
<1>4. CASE ~Registered(c)
  BY <1>0, <1>1, <1>2, <1>3, <1>4, TaskOverInv DEF HostType, Unrouted, Owns, Over
<1>5. CASE Registered(c)
  <2>1. task'[c] = "drain" /\ task'[c] \in Late /\ task[c] \in Late
        /\ task[c] \notin Early \cup Over /\ task'[c] \notin Early \cup Over
    BY <1>0, <1>1, <1>5 DEF Early, Late, Over
  <2>2. Sending(c)'
    BY <1>0, <2>1 DEF Sending, Unrouted, Early, Late, Delivery!Expected, Delivery!IsLive
  <2>3. PendingFrom(c)' = PendingFrom(c) /\ (ExitBefore(c)' <=> ExitBefore(c))
    BY <2>1 DEF PendingFrom, ExitBefore, Delivery!Expected
  <2>4. Owns(c)' => Owner(c)'
    BY <1>0, <1>3, <2>1, <2>3 DEF Owner, Owns
  <2>5. QED
    BY <1>0, <1>2, <2>1, <2>2, <2>4, ConnStepInv DEF HostType, Unrouted, Owns
<1>6. QED
  BY <1>4, <1>5

LEMMA PushItemInv ==
  ASSUME RoutesInv, NEW c \in Conn, PushItem(c) PROVE RoutesInv'
<1> USE DEF PushItem, Goto, host, events, conns
<1>0. /\ RowsType /\ HostType /\ Sending(c) /\ (Owns(c) => Owner(c)) /\ out[c] \in Frame
      /\ conn[c] \notin {"new", "open"} => closing[c]
      /\ conn[c] # "gone" => out[c].k # "closed"
      /\ Owns(c) => conn[c] \in Up
      /\ conn[c] # "new" /\ task[c] = "push" /\ batch[c] \in Seq(Event)
  BY RowFacts DEF Late
<1>2. Owns(c) => route.phase # "live"
  BY <1>0 DEF Owner, Over
<1>3. CASE batch[c] = <<>> /\ task' = [task EXCEPT ![c] = "drain"] /\ UNCHANGED <<batch, out>>
  <2>1. /\ task' \in [Conn -> Unrouted \cup Early \cup Late \cup Over]
        /\ \A b \in Conn \ {c} : task'[b] = task[b]
        /\ task'[c] = "drain" /\ task'[c] \in Late /\ task[c] \in Late
        /\ task[c] \notin Early \cup Over /\ task'[c] \notin Early \cup Over
    BY <1>0, <1>3 DEF RowsType, Early, Late, Over
  <2>2. RowsType' /\ \A b \in Conn \ {c} : SameRow(b)
    BY <1>0, <1>3, <2>1 DEF RowsType, SameRow
  <2>3. Sending(c)'
    BY <1>0, <1>3, <2>1 DEF Sending, Unrouted, Early, Late, Delivery!Expected, Delivery!IsLive
  <2>4. PendingFrom(c)' = PendingFrom(c) /\ (ExitBefore(c)' <=> ExitBefore(c))
    BY <1>3, <2>1 DEF PendingFrom, ExitBefore, Delivery!Expected
  <2>5. Owns(c)' => Owner(c)'
    BY <1>0, <1>2, <2>1, <2>4 DEF Owner, Owns
  <2>6. QED
    BY <1>0, <1>3, <2>1, <2>2, <2>3, <2>5, ConnStepInv DEF HostType, Unrouted, Owns
<1>4. CASE /\ batch' = [batch EXCEPT ![c] = <<>>] /\ task' = [task EXCEPT ![c] = "done"]
           /\ UNCHANGED out
  <2>1. /\ task' \in [Conn -> Unrouted \cup Early \cup Late \cup Over] /\ task'[c] \in Over
        /\ \A b \in Conn \ {c} : task'[b] = task[b] /\ batch'[b] = batch[b]
        /\ batch' \in [Conn -> Seq(Event)] /\ batch'[c] = <<>>
    BY <1>0, <1>4 DEF RowsType, Over
  <2>2. RowsType' /\ \A b \in Conn \ {c} : SameRow(b)
    BY <1>0, <1>4, <2>1 DEF RowsType, SameRow
  <2>3. QED
    BY <1>0, <1>2, <1>4, <2>1, <2>2, TaskOverInv DEF HostType, Unrouted, Owns
<1>5. CASE /\ batch[c] # <<>> /\ ~closing[c] /\ task' = task
           /\ batch' = [batch EXCEPT ![c] = Tail(batch[c])]
           /\ IF Head(batch[c]) = ExitEvent THEN Told(c, "exit", 0)
              ELSE Told(c, "data", Head(batch[c]))
  <2>1. /\ conn[c] = "open" /\ Delivery!IsLive(c) /\ out[c].k # "left" /\ ~out[c].exited
        /\ Stretch(batch[c], Delivery!Expected(c)) /\ out[c].k # "exit"
    BY <1>0, <1>5 DEF Sending, RowsType, Up, Late, Delivery!IsLive
  <2>2. PICK from \in Nat : from = Delivery!Expected(c)
    BY <1>0, PendingFromType
  <2>3. Stretch(batch[c], from)
    BY <2>1, <2>2
  <2>4. /\ Head(batch[c]) \in Event /\ Tail(batch[c]) \in Seq(Event)
        /\ Head(batch[c]) # ExitEvent =>
             /\ Head(batch[c]) = from /\ Stretch(Tail(batch[c]), from + 1)
             /\ Blocks(batch[c]) >= 1 /\ Blocks(Tail(batch[c])) = Blocks(batch[c]) - 1
             /\ HasExit(Tail(batch[c])) <=> HasExit(batch[c])
             /\ Tail(batch[c]) = <<>> => ~HasExit(batch[c])
        /\ Head(batch[c]) = ExitEvent =>
             Tail(batch[c]) = <<>> /\ HasExit(batch[c]) /\ Blocks(batch[c]) = 0
    BY <1>0, <1>5, <2>3, TakeOldest
  <2>5. batch' \in [Conn -> Seq(Event)] /\ batch'[c] = Tail(batch[c])
        /\ \A b \in Conn \ {c} : batch'[b] = batch[b]
    BY <1>0, <1>5, <2>4 DEF RowsType
  <2>6. /\ out' \in [Conn -> Frame] /\ \A b \in Conn \ {c} : out'[b] = out[b]
        /\ Head(batch[c]) = ExitEvent => out'[c].k = "exit" /\ out'[c].seq = 0
        /\ Head(batch[c]) # ExitEvent => out'[c].k = "data" /\ out'[c].seq = from
        /\ out'[c].exited = out[c].exited
    <3>1. CASE Head(batch[c]) = ExitEvent
      BY <1>0, <1>5, <2>1, <3>1, ToldFacts DEF FrameKinds
    <3>2. CASE Head(batch[c]) # ExitEvent
      <4>1. Told(c, "data", from) /\ "data" \in FrameKinds
        BY <1>5, <2>4, <3>2 DEF FrameKinds
      <4>2. QED
        BY <1>0, <2>1, <3>2, <4>1, ToldFacts
    <3>3. QED
      BY <3>1, <3>2
  <2>7. RowsType' /\ \A b \in Conn \ {c} : SameRow(b)
    BY <1>0, <1>5, <2>5, <2>6 DEF RowsType, SameRow
  <2>8. task[c] \in Late /\ task[c] \notin Early \cup Over \cup Unrouted
    BY <1>0 DEF Late, Early, Over, Unrouted
  <2>9. CASE Head(batch[c]) = ExitEvent
    <3>1. batch'[c] = <<>> /\ Stretch(<<>>, Delivery!Expected(c)')
      BY <2>4, <2>5, <2>9, NoEvents
    <3>2. Sending(c)'
      BY <1>0, <1>5, <2>6, <2>8, <2>9, <3>1 DEF Sending, Unrouted, Early
    <3>3. ExitBefore(c) /\ ExitBefore(c)'
      BY <1>5, <2>4, <2>6, <2>8, <2>9 DEF ExitBefore
    <3>4. Owns(c)' => Owner(c)'
      BY <1>0, <1>2, <2>8, <3>3 DEF Owner, Owns
    <3>5. QED
      BY <1>0, <1>5, <2>1, <2>6, <2>7, <2>8, <2>9, <3>2, <3>4, ConnStepInv DEF HostType, Owns, Up
  <2>10. CASE Head(batch[c]) # ExitEvent
    <3>1. Delivery!Expected(c)' = from + 1 /\ Delivery!IsLive(c)'
      BY <2>1, <2>6, <2>10 DEF Delivery!Expected, Delivery!IsLive
    <3>2. Stretch(batch'[c], Delivery!Expected(c)')
      BY <2>4, <2>5, <2>10, <3>1
    <3>3. Sending(c)'
      BY <1>0, <1>5, <2>6, <2>8, <2>10, <3>1, <3>2 DEF Sending, Unrouted, Early
    <3>4. Blocks(batch[c]) \in Nat
      BY <1>0, BlocksType
    <3>5. PendingFrom(c)' = PendingFrom(c)
      BY <1>5, <2>2, <2>4, <2>5, <2>8, <2>10, <3>1, <3>4 DEF PendingFrom
    <3>6. ExitBefore(c)' <=> ExitBefore(c)
      BY <1>5, <2>1, <2>4, <2>5, <2>6, <2>8, <2>10 DEF ExitBefore
    <3>7. Owns(c)' => Owner(c)'
      BY <1>0, <1>2, <1>5, <2>8, <3>5, <3>6 DEF Owner, Owns
    <3>8. QED
      BY <1>0, <1>5, <2>1, <2>6, <2>7, <2>8, <2>10, <3>3, <3>7, ConnStepInv DEF HostType, Owns, Up
  <2>11. QED
    BY <2>9, <2>10
<1>6. QED
  BY <1>3, <1>4, <1>5

\* A step of the route's owner that moves the route on: what it expects stays, and it is
\* emptied.
LEMMA RouteMovedInv ==
  ASSUME RoutesInv, NEW c \in Conn,
         UNCHANGED <<proc, nextSeq, queue, ev, evConn, reaping, conn, closing, out>>,
         reg' \in BOOLEAN, attached' \in BOOLEAN,
         route # NoRoute, route.conn = c, route' \in Routes, route'.conn = c,
         route'.next = route.next, route'.exitDone = route.exitDone,
         route'.phase \in {"draining", "live"}, route'.pending = <<>>,
         RowsType', \A b \in Conn \ {c} : SameRow(b),
         task'[c] \notin Unrouted, conn[c] \in Up, Sending(c)', Owner(c)'
  PROVE  RoutesInv'
<1>0. /\ RouteType /\ HostType /\ RoutedType /\ RowsType
      /\ Birth /\ Channel /\ Clearing /\ Seamless /\ Teardowns
  BY DEF RoutesInv, RouteType
<1>1. c # 0 /\ route' # NoRoute
  <2>1. c # 0
    BY RoutesAssumption DEF Conn
  <2>2. QED
    BY <2>1 DEF NoRoute, NewRoute
<1>2. HostType'
  BY <1>0 DEF HostType
<1>3. RoutedType'
  BY RoutesAssumption DEF RoutedType
<1>4. RouteType'
  BY <1>2, <1>3 DEF RouteType
<1>5. Birth'
  BY <1>0 DEF Birth, SameRow, Unrouted, Up
<1>6. Channel'
  BY <1>0 DEF Channel, Oldest
<1>7. Clearing'
  BY <1>0, <1>1 DEF Clearing, SameRow, Owns
<1>8. Seamless'
  BY <1>0 DEF Seamless, GivenUp, Oldest
<1>9. Teardowns'
  <2>1. ASSUME NEW b \in Conn
        PROVE  /\ conn'[b] \notin {"new", "open"} => closing'[b]
               /\ conn'[b] # "gone" => out'[b].k # "closed"
    BY <1>0, <2>1 DEF Teardowns
  <2>2. QED
    BY <2>1 DEF Teardowns
<1>10. Onward
  BY <1>0 DEF Onward, HostType
<1>11. \A b \in Conn : Sending(b)' /\ (Owns(b)' => Owner(b)')
  BY <1>4, <1>10, OthersKept
<1>12. QED
  BY <1>4, <1>5, <1>6, <1>7, <1>8, <1>9, <1>11 DEF RoutesInv

LEMMA DrainInv ==
  ASSUME RoutesInv, NEW c \in Conn, Drain(c) PROVE RoutesInv'
<1> USE DEF Drain, Goto, host, events, conns
<1>0. /\ RowsType /\ RoutedType /\ HostType /\ Sending(c) /\ (Owns(c) => Owner(c))
      /\ out[c] \in Frame
      /\ conn[c] \notin {"new", "open"} => closing[c]
      /\ conn[c] # "gone" => out[c].k # "closed"
      /\ Owns(c) => conn[c] \in Up
      /\ conn[c] # "new" /\ task[c] = "drain" /\ batch[c] = <<>>
      /\ out[c].seq \in Nat
  BY RowFacts DEF Sending, Late
<1>1. Owns(c) =>
        /\ route # NoRoute /\ route \in Routes /\ route.conn = c /\ route.phase # "live"
        /\ route.pending \in Seq(Event) /\ conn[c] # "gone"
        /\ task[c] \in Late /\ task[c] \notin Early \cup Over
  BY <1>0 DEF Owner, Over, Owns, RoutedType, Routes, Up, Late, Early
<1>2. Blocks(<<>>) = 0 /\ ~HasExit(<<>>) /\ PendingFrom(c) = Delivery!Expected(c)
      /\ (ExitBefore(c) <=> out[c].exited \/ out[c].k = "exit") /\ Delivery!Expected(c) \in Nat
  <2>1. Blocks(<<>>) = 0 /\ ~HasExit(<<>>) /\ Delivery!Expected(c) \in Nat
    BY <1>0, NoEvents, PendingFromType
  <2>2. QED
    BY <1>0, <2>1 DEF PendingFrom, ExitBefore, Early
<1>3. CASE ~Owns(c) /\ task' = [task EXCEPT ![c] = "done"] /\ UNCHANGED <<route, batch, reg>>
  <2>1. /\ task' \in [Conn -> Unrouted \cup Early \cup Late \cup Over] /\ task'[c] \in Over
        /\ \A b \in Conn \ {c} : task'[b] = task[b]
    BY <1>0, <1>3 DEF RowsType, Over
  <2>2. RowsType' /\ \A b \in Conn \ {c} : SameRow(b)
    BY <1>0, <1>3, <2>1 DEF RowsType, SameRow
  <2>3. QED
    BY <1>0, <1>3, <2>1, <2>2, TaskOverInv DEF HostType, Unrouted, Owns
<1>4. CASE /\ Owns(c) /\ route.pending # <<>>
           /\ batch' = [batch EXCEPT ![c] = route.pending]
           /\ route' = [route EXCEPT !.phase = "draining", !.pending = <<>>]
           /\ task' = [task EXCEPT ![c] = "push"] /\ UNCHANGED reg
  <2>1. /\ ~ExitBefore(c) /\ Stretch(route.pending, Delivery!Expected(c))
        /\ route.next = Delivery!Expected(c) + Blocks(route.pending)
        /\ route.exitDone <=> HasExit(route.pending)
    BY <1>0, <1>1, <1>2, <1>4 DEF Owner
  <2>2. Delivery!IsLive(c)
    BY <1>0, <1>1, <1>2, <1>4, <2>1 DEF Sending, Delivery!IsLive
  <2>3. /\ task' \in [Conn -> Unrouted \cup Early \cup Late \cup Over] /\ task'[c] = "push"
        /\ \A b \in Conn \ {c} : task'[b] = task[b] /\ batch'[b] = batch[b]
        /\ batch' \in [Conn -> Seq(Event)] /\ batch'[c] = route.pending
    BY <1>0, <1>1, <1>4 DEF RowsType, Late
  <2>4. RowsType' /\ \A b \in Conn \ {c} : SameRow(b)
    BY <1>0, <1>4, <2>3 DEF RowsType, SameRow
  <2>5. /\ route'.conn = c /\ route'.next = route.next /\ route'.exitDone = route.exitDone
        /\ route'.phase = "draining" /\ route'.pending = <<>> /\ route' \in Routes
    <3>0. route \in Routes /\ route.conn = c
      BY <1>1, <1>4
    <3>1. PICK r : r = [route EXCEPT !.phase = "draining"]
      OBVIOUS
    <3>5. /\ r \in Routes /\ r.phase = "draining"
          /\ r.conn = c /\ r.next = route.next /\ r.exitDone = route.exitDone
      BY <3>0, <3>1 DEF Routes
    <3>2. route' = [r EXCEPT !.pending = <<>>]
      BY <1>4, <3>0, <3>1 DEF Routes
    <3>3. <<>> \in Seq(Event)
      OBVIOUS
    <3>4. QED
      BY <3>2, <3>3, <3>5 DEF Routes
  <2>6. Delivery!Expected(c)' = Delivery!Expected(c) /\ Delivery!IsLive(c)'
    BY <2>2 DEF Delivery!Expected, Delivery!IsLive
  <2>7. Sending(c)'
    BY <1>0, <1>1, <2>1, <2>3, <2>6 DEF Sending, Unrouted, Early
  <2>8. Owner(c)'
    <3>1. PendingFrom(c)' = Delivery!Expected(c) + Blocks(route.pending)
      BY <2>3, <2>6 DEF PendingFrom, Early
    <3>2. ExitBefore(c)' <=> HasExit(route.pending)
      BY <1>2, <2>1, <2>3 DEF ExitBefore, Early
    <3>3. Blocks(route.pending) \in Nat /\ Stretch(<<>>, PendingFrom(c)')
      BY <1>1, <1>4, BlocksType, NoEvents
    <3>4. route'.next = PendingFrom(c)' + Blocks(<<>>)
      BY <1>2, <2>1, <2>5, <3>1, <3>3
    <3>5. QED
      BY <1>2, <2>1, <2>5, <3>2, <3>3, <3>4 DEF Owner
  <2>9. QED
    BY <1>0, <1>1, <1>4, <2>3, <2>4, <2>5, <2>7, <2>8, RouteMovedInv DEF HostType, Late, Unrouted
<1>5. CASE /\ Owns(c) /\ route.pending = <<>> /\ route.exitDone /\ route' = NoRoute
           /\ reg' \in BOOLEAN /\ task' = [task EXCEPT ![c] = "done"] /\ UNCHANGED batch
  <2>1. /\ task' \in [Conn -> Unrouted \cup Early \cup Late \cup Over] /\ task'[c] \in Over
        /\ \A b \in Conn \ {c} : task'[b] = task[b]
    BY <1>0, <1>5 DEF RowsType, Over
  <2>2. RowsType' /\ \A b \in Conn \ {c} : SameRow(b)
    BY <1>0, <1>5, <2>1 DEF RowsType, SameRow
  <2>3. QED
    BY <1>0, <1>5, <2>1, <2>2, TaskOverInv DEF HostType, Unrouted, Owns
<1>6. CASE /\ Owns(c) /\ route.pending = <<>> /\ ~route.exitDone
           /\ route' = [route EXCEPT !.phase = "live"] /\ reg' = reg
           /\ task' = [task EXCEPT ![c] = "done"] /\ UNCHANGED batch
  <2>1. /\ ~ExitBefore(c) /\ route.next = Delivery!Expected(c)
    BY <1>0, <1>1, <1>2, <1>6 DEF Owner
  <2>2. Delivery!IsLive(c)
    BY <1>0, <1>1, <1>2, <1>6, <2>1 DEF Sending, Delivery!IsLive
  <2>3. /\ task' \in [Conn -> Unrouted \cup Early \cup Late \cup Over] /\ task'[c] = "done"
        /\ \A b \in Conn \ {c} : task'[b] = task[b]
    BY <1>0, <1>6 DEF RowsType, Over
  <2>4. RowsType' /\ \A b \in Conn \ {c} : SameRow(b)
    BY <1>0, <1>6, <2>3 DEF RowsType, SameRow
  <2>5. /\ route'.conn = c /\ route'.next = route.next /\ route'.exitDone = route.exitDone
        /\ route'.phase = "live" /\ route'.pending = <<>> /\ route' \in Routes
    BY <1>1, <1>6 DEF Routes
  <2>6. Delivery!Expected(c)' = Delivery!Expected(c) /\ Delivery!IsLive(c)'
    BY <2>2 DEF Delivery!Expected, Delivery!IsLive
  <2>7. Sending(c)'
    BY <1>0, <2>3 DEF Sending, Unrouted, Early, Late
  <2>8. Owner(c)'
    BY <1>6, <2>1, <2>3, <2>5, <2>6 DEF Owner, Over, Early, Late
  <2>9. QED
    BY <1>0, <1>1, <1>6, <2>3, <2>4, <2>5, <2>7, <2>8, RouteMovedInv DEF HostType, Late, Unrouted
<1>7. QED
  <2>1. reg \in BOOLEAN
    BY <1>0 DEF HostType
  <2>2. QED
    BY <2>1, <1>3, <1>4, <1>5, <1>6

LEMMA AskDetachInv ==
  ASSUME RoutesInv, NEW c \in Conn, AskDetach(c) PROVE RoutesInv'
<1> USE DEF AskDetach, Goto, host, events, conns
<1>0. /\ RowsType /\ HostType /\ Sending(c) /\ task[c] = "done" /\ batch[c] = <<>>
  BY RowFacts DEF Sending
<1>1. /\ task' \in [Conn -> Unrouted \cup Early \cup Late \cup Over] /\ task'[c] \in Over
      /\ \A b \in Conn \ {c} : task'[b] = task[b]
  BY <1>0 DEF RowsType, ClearStep, Over
<1>2. /\ out' \in [Conn -> Frame] /\ \A b \in Conn \ {c} : out'[b] = out[b]
      /\ out'[c].k = "left"
  <2>1. out[c].k # "left"
    BY DEF Delivery!IsLive
  <2>2. "left" \in FrameKinds
    BY DEF FrameKinds
  <2>3. QED
    BY <1>0, <2>1, <2>2, ToldFacts
<1>3. RowsType' /\ \A b \in Conn \ {c} : SameRow(b)
  BY <1>0, <1>1, <1>2 DEF RowsType, SameRow
<1>4. reg' \in BOOLEAN /\ attached' \in BOOLEAN
  BY <1>0 DEF HostType, HostDetach
<1>5. QED
  BY <1>0, <1>1, <1>2, <1>3, <1>4, TaskOverInv DEF Unrouted

LEMMA TaskClearInv ==
  ASSUME RoutesInv, NEW c \in Conn, TaskRemove(c) \/ TaskDetach(c) PROVE RoutesInv'
<1> USE DEF Goto, host, events, conns
<1>0. /\ RowsType /\ HostType /\ Sending(c) /\ task[c] \in {"remove", "removeOnly", "detach"}
      /\ batch[c] = <<>>
      /\ conn[c] # "gone" => out[c].k # "closed"
  BY RowFacts DEF Sending, TaskRemove, TaskDetach
<1>1. /\ task' \in [Conn -> Unrouted \cup Early \cup Late \cup Over] /\ task'[c] \in Over
      /\ \A b \in Conn \ {c} : task'[b] = task[b]
  BY <1>0 DEF RowsType, Over, TaskRemove, TaskDetach
<1>2. RowsType' /\ \A b \in Conn \ {c} : SameRow(b)
  BY <1>0, <1>1 DEF RowsType, SameRow, TaskRemove, TaskDetach
<1>3. /\ reg' \in BOOLEAN /\ attached' \in BOOLEAN
      /\ (route' = route \/ route' = NoRoute)
  BY <1>0 DEF HostType, HostDetach, TaskRemove, TaskDetach, RemoveRoute
<1>4. UNCHANGED <<proc, nextSeq, queue, ev, evConn, reaping, conn, closing, out, batch>>
  BY DEF TaskRemove, TaskDetach
<1>5. QED
  BY <1>0, <1>1, <1>2, <1>3, <1>4, TaskOverInv DEF Unrouted

\* A connection installs its route, while no other task is about to.
LEMMA RouteInstalledInv ==
  ASSUME RoutesInv, NEW c \in Conn,
         UNCHANGED <<nextSeq, queue, ev, evConn, reaping, conn, closing>>,
         reg' \in BOOLEAN, attached' \in BOOLEAN, proc' \in {"unborn", "running", "exited"},
         proc' = "exited" <=> proc = "exited", proc' = "unborn" => proc = "unborn",
         \A b \in Conn \ {c} : task[b] = "creating" => proc' = "unborn",
         route' \in Routes, route'.conn = c, route'.next = nextSeq, route'.pending = <<>>,
         route'.exitDone <=> proc' = "exited", route'.phase # "none",
         RowsType', \A b \in Conn \ {c} : SameRow(b),
         task[c] \in Unrouted, task[c] # "idle", task'[c] \notin Unrouted,
         route'.phase = "live" \/ task'[c] \in {"ending"} \cup Late => conn[c] \in Up,
         conn[c] # "gone" => out'[c].k # "closed", Sending(c)', Owner(c)'
  PROVE  RoutesInv'
<1>0. /\ RouteType /\ HostType /\ RoutedType /\ RowsType
      /\ Birth /\ Channel /\ Clearing /\ Seamless /\ Teardowns
  BY DEF RoutesInv, RouteType
<1>1. c # 0 /\ route' # NoRoute
  <2>1. c # 0
    BY RoutesAssumption DEF Conn
  <2>2. QED
    BY <2>1 DEF NoRoute, NewRoute
<1>2. HostType'
  BY <1>0 DEF HostType
<1>3. RoutedType'
  BY RoutesAssumption DEF RoutedType
<1>4. RouteType'
  BY <1>2, <1>3 DEF RouteType
<1>5. Birth'
  <2>1. conn[c] # "new" /\ task'[c] \notin {"creating"}
    BY <1>0 DEF Birth, Unrouted
  <2>2. \A b \in Conn : task'[b] = "creating" => proc' = "unborn" /\ b = 1
    BY <1>0, <2>1 DEF Birth, SameRow, Unrouted
  <2>3. \A b \in Conn : conn'[b] = "new" => task'[b] = "idle"
    BY <1>0, <2>1 DEF Birth, SameRow
  <2>4. QED
    BY <1>0, <2>2, <2>3 DEF Birth
<1>6. Channel'
  BY <1>0 DEF Channel, Oldest
<1>7. Clearing'
  BY <1>0 DEF Clearing, SameRow, Owns
<1>8. Seamless'
  <2>1. nextSeq \in Nat /\ Oldest' \in Int /\ Oldest' <= nextSeq
    <3>1. nextSeq \in Nat /\ Blocks(queue) \in Nat
      BY <1>0, RoutesAssumption, BlocksType DEF HostType
    <3>2. QED
      BY <3>1 DEF Oldest
  <2>2. QED
    BY <2>1 DEF Seamless
<1>9. Teardowns'
  <2>1. ASSUME NEW b \in Conn
        PROVE  /\ conn'[b] \notin {"new", "open"} => closing'[b]
               /\ conn'[b] # "gone" => out'[b].k # "closed"
    BY <1>0, <2>1 DEF Teardowns, SameRow
  <2>2. QED
    BY <2>1 DEF Teardowns
<1>10. Onward
  BY <1>0 DEF Onward, HostType
<1>11. \A b \in Conn : Sending(b)' /\ (Owns(b)' => Owner(b)')
  BY <1>4, <1>10, OthersKept
<1>12. QED
  BY <1>4, <1>5, <1>6, <1>7, <1>8, <1>9, <1>11 DEF RoutesInv

LEMMA AttachInstallInv ==
  ASSUME RoutesInv, NEW c \in Conn, NEW from \in 0 .. nextSeq, AttachInstall(c, from)
  PROVE  RoutesInv'
<1> USE DEF AttachInstall, Goto, host, events, conns
<1>0. /\ RowsType /\ HostType /\ Sending(c) /\ Birth /\ task[c] = "looked" /\ batch[c] = <<>>
      /\ conn[c] # "gone" => out[c].k # "closed"
      /\ conn[c] # "gone" => out[c].k = "none"
      /\ nextSeq \in Nat /\ nextSeq \in 0 .. MaxSeq /\ from \in 0 .. MaxSeq
  BY RowFacts, RoutesAssumption DEF Sending, Unrouted, RoutesInv, HostType
<1>1. /\ task' \in [Conn -> Unrouted \cup Early \cup Late \cup Over] /\ task'[c] = "reply"
      /\ \A b \in Conn \ {c} : task'[b] = task[b]
  BY <1>0 DEF RowsType, Early
<1>2. /\ offer' \in [Conn -> Offers] /\ \A b \in Conn \ {c} : offer'[b] = offer[b]
      /\ offer'[c].seq = from /\ offer'[c].upto = nextSeq
      /\ offer'[c].exited <=> (proc = "exited")
  <2>0. PICK x \in BOOLEAN : x = (proc = "exited")
    OBVIOUS
  <2>1. PICK o \in Offers : o = [seq |-> from, upto |-> nextSeq, exited |-> x]
    BY <1>0 DEF Offers
  <2>2. offer' = [offer EXCEPT ![c] = o]
    BY <2>0, <2>1
  <2>3. offer' \in [Conn -> Offers] /\ offer'[c] = o /\ \A b \in Conn \ {c} : offer'[b] = offer[b]
    BY <1>0, <2>2 DEF RowsType
  <2>4. QED
    BY <2>0, <2>1, <2>3
<1>3. RowsType' /\ \A b \in Conn \ {c} : SameRow(b)
  BY <1>0, <1>1, <1>2 DEF RowsType, SameRow
<1>4. /\ route'.conn = c /\ route'.next = nextSeq /\ route'.phase = "replaying"
      /\ route'.pending = <<>> /\ (route'.exitDone <=> proc = "exited") /\ route' \in Routes
  <2>1. PICK x \in BOOLEAN : x = (proc = "exited")
    OBVIOUS
  <2>2. route' = NewRoute(c, nextSeq, "replaying", x)
    BY <2>1
  <2>3. /\ route'.conn = c /\ route'.next = nextSeq /\ route'.phase = "replaying"
        /\ route'.pending = <<>> /\ route'.exitDone = x /\ route' \in Routes
    <3>1. <<>> \in Seq(Event)
      OBVIOUS
    <3>2. QED
      BY <1>0, <2>2, <3>1 DEF NewRoute, Routes
  <2>4. QED
    BY <2>1, <2>3
<1>5. Sending(c)'
  BY <1>0, <1>1, <1>2 DEF Sending, Unrouted, Early, Late
<1>6. Owner(c)'
  <2>1. task'[c] \in Early
    BY <1>1 DEF Early
  <2>2. PendingFrom(c)' = nextSeq /\ (ExitBefore(c)' <=> proc = "exited")
    BY <1>2, <2>1 DEF PendingFrom, ExitBefore
  <2>3. Stretch(<<>>, PendingFrom(c)') /\ Blocks(<<>>) = 0 /\ ~HasExit(<<>>)
    BY NoEvents
  <2>4. route'.next = PendingFrom(c)' + Blocks(<<>>)
    BY <1>0, <1>4, <2>2, <2>3
  <2>5. QED
    BY <1>4, <2>2, <2>3, <2>4 DEF Owner
<1>7. task'[c] \notin Unrouted /\ task[c] \in Unrouted /\ task'[c] \notin {"ending"} \cup Late
  BY <1>0, <1>1 DEF Unrouted, Late
<1>8. reg' \in BOOLEAN /\ attached' \in BOOLEAN /\ proc' \in {"unborn", "running", "exited"}
  BY <1>0 DEF HostType
<1>9. \A b \in Conn \ {c} : task[b] = "creating" => proc' = "unborn"
  BY <1>0 DEF Birth
<1>10. QED
  BY <1>0, <1>3, <1>4, <1>5, <1>6, <1>7, <1>8, <1>9, RouteInstalledInv

LEMMA CreateInv ==
  ASSUME RoutesInv, NEW c \in Conn, Create(c) PROVE RoutesInv'
<1> USE DEF Create, Goto, host, events, conns
<1>0. /\ RowsType /\ HostType /\ Sending(c) /\ Birth /\ task[c] = "creating" /\ batch[c] = <<>>
      /\ conn[c] # "gone" => out[c].k # "closed"
      /\ conn[c] # "gone" => out[c].k = "none" /\ ~out[c].exited
      /\ ~Owns(c) /\ out[c] \in Frame
      /\ conn[c] \notin {"new", "open"} => closing[c]
      /\ proc = "unborn" /\ nextSeq = 0 /\ queue = <<>>
  BY RowFacts DEF Sending, Unrouted, RoutesInv, Birth
<1>1. /\ task' \in [Conn -> Unrouted \cup Early \cup Late \cup Over] /\ task'[c] = "done"
      /\ \A b \in Conn \ {c} : task'[b] = task[b]
      /\ task'[c] \in Over /\ task'[c] \notin Unrouted \cup Early \cup Late
  BY <1>0 DEF RowsType, Over, Unrouted, Early, Late
<1>2. CASE ~(Registered(c) /\ ~closing[c])
  <2>1. UNCHANGED <<reg, proc, attached, route, out>>
    BY <1>2
  <2>2. RowsType' /\ \A b \in Conn \ {c} : SameRow(b)
    BY <1>0, <1>1, <2>1 DEF RowsType, SameRow
  <2>3. Sending(c)' /\ ~Owns(c)'
    BY <1>0, <1>1, <2>1 DEF Sending, Owns
  <2>4. QED
    BY <1>0, <1>1, <2>1, <2>2, <2>3, ConnStepInv DEF HostType, Unrouted, Birth
<1>3. CASE Registered(c) /\ ~closing[c]
  <2>1. /\ reg' = TRUE /\ proc' = "running" /\ attached' = TRUE
        /\ route' = NewRoute(c, 0, "live", FALSE) /\ Told(c, "created", 0)
    BY <1>3
  <2>2. conn[c] = "open" /\ out[c].k = "none" /\ ~out[c].exited
    BY <1>0, <1>3 DEF RowsType, Up, Registered
  <2>3. /\ out' \in [Conn -> Frame] /\ \A b \in Conn \ {c} : out'[b] = out[b]
        /\ out'[c].k = "created" /\ out'[c].seq = 0 /\ out'[c].exited = out[c].exited
    <3>1. "created" \in FrameKinds
      BY DEF FrameKinds
    <3>2. QED
      BY <1>0, <2>1, <2>2, <3>1, ToldFacts
  <2>4. RowsType' /\ \A b \in Conn \ {c} : SameRow(b)
    BY <1>0, <1>1, <2>3 DEF RowsType, SameRow
  <2>5. /\ route'.conn = c /\ route'.next = nextSeq /\ route'.phase = "live"
        /\ route'.pending = <<>> /\ ~route'.exitDone /\ route' \in Routes
    BY <1>0, <2>1, RoutesAssumption DEF NewRoute, Routes
  <2>6. Sending(c)'
    BY <1>0, <1>1 DEF Sending
  <2>7. Owner(c)'
    BY <1>0, <1>1, <2>2, <2>3, <2>5 DEF Owner, Delivery!IsLive, Delivery!Expected
  <2>8. \A b \in Conn \ {c} : task[b] = "creating" => proc' = "unborn"
    BY <1>0 DEF Birth
  <2>9. task[c] \in Unrouted /\ conn[c] \in Up /\ out'[c].k # "closed"
    BY <1>0, <2>2, <2>3 DEF Unrouted, Up
  <2>10. QED
    BY <1>0, <1>1, <2>1, <2>4, <2>5, <2>6, <2>7, <2>8, <2>9, RouteInstalledInv
<1>4. QED
  BY <1>2, <1>3

\* A step of the connection's own loop: its task is left alone.
LEMMA LoopInv ==
  ASSUME RoutesInv, NEW c \in Conn,
         UNCHANGED <<proc, nextSeq, queue, ev, evConn, reaping, tasks, reg>>,
         attached' \in BOOLEAN, route' = route \/ route' = NoRoute,
         conn[c] # "new", conn'[c] # "new", closing'[c], closing' \in [Conn -> BOOLEAN],
         conn' \in [Conn -> Up \cup {"new", "detachAgain", "leave", "gone"}],
         out' \in [Conn -> Frame],
         \A b \in Conn \ {c} : SameRow(b),
         conn'[c] # "gone" => conn[c] # "gone" /\ out' = out,
         Owns(c)' => \/ conn'[c] \in Up
                     \/ conn[c] \notin Up /\ out' = out
                     \/ conn[c] \notin Up /\ conn'[c] = "gone"
  PROVE  RoutesInv'
<1> USE DEF tasks
<1>0. /\ RowsType /\ HostType /\ Sending(c) /\ (Owns(c) => Owner(c))
      /\ conn[c] # "gone" => out[c].k # "closed"
      /\ Owns(c) => task[c] \notin Unrouted
      /\ Owns(c) /\ (route.phase = "live" \/ task[c] \in {"ending"} \cup Late) => conn[c] \in Up
  BY RowFacts
<1>1. RowsType'
  BY <1>0 DEF RowsType
<1>2. Sending(c)'
  <2>1. CASE conn'[c] = "gone"
    BY <1>0, <2>1 DEF Sending
  <2>2. CASE conn'[c] # "gone"
    BY <1>0, <2>2 DEF Sending, Delivery!Replaying, Delivery!Expected, Delivery!IsLive
  <2>3. QED
    BY <2>1, <2>2
<1>3. Owns(c)' => Owns(c) /\ route' = route
  BY DEF Owns
<1>4. ASSUME Owns(c)' PROVE Owner(c)'
  <2>1. CASE out' = out
    BY <1>0, <1>3, <1>4, <2>1
       DEF Owner, PendingFrom, ExitBefore, Delivery!Expected, Delivery!IsLive
  <2>2. CASE out' # out
    <3>1. conn[c] \notin Up /\ task[c] \notin Late /\ route.phase # "live"
      BY <1>0, <1>3, <1>4, <2>2 DEF Up
    <3>2. QED
      BY <1>0, <1>3, <1>4, <3>1 DEF Owner, PendingFrom, ExitBefore
  <2>3. QED
    BY <2>1, <2>2
<1>5. Owns(c)' => (route.phase # "live" /\ task'[c] \notin {"ending"} \cup Late) \/ conn'[c] \in Up
  BY <1>0, <1>3
<1>6. task'[c] = "creating" => proc = "unborn" /\ c = 1
  BY DEF RoutesInv, Birth
<1>7. conn'[c] # "gone" => out'[c].k # "closed"
  BY <1>0
<1>8. reg' \in BOOLEAN
  BY <1>0 DEF HostType
<1>9. QED
  BY <1>1, <1>2, <1>4, <1>5, <1>6, <1>7, <1>8, ConnStepInv

LEMMA LoopStepInv ==
  ASSUME RoutesInv, NEW c \in Conn, Disconnect(c) \/ Teardown(c) PROVE RoutesInv'
<1> USE DEF host, events, conns, ConnTo
<1>0. /\ RowsType /\ HostType
      /\ conn[c] \notin {"new", "open"} => closing[c]
      /\ out \in [Conn -> Frame] /\ closing \in [Conn -> BOOLEAN]
      /\ attached \in BOOLEAN
      /\ conn \in [Conn -> Up \cup {"new", "detachAgain", "leave", "gone"}]
  BY RowFacts DEF RowsType, HostType
<1>1. CASE Disconnect(c)
  <2>1. /\ conn[c] = "open" /\ conn'[c] = "closing" /\ closing'[c]
        /\ closing' \in [Conn -> BOOLEAN]
        /\ conn' \in [Conn -> Up \cup {"new", "detachAgain", "leave", "gone"}]
        /\ \A b \in Conn \ {c} : SameRow(b)
    BY <1>0, <1>1 DEF Disconnect, SameRow, Up, tasks
  <2>2. QED
    BY <1>0, <1>1, <2>1, LoopInv DEF Disconnect, Up
<1>2. CASE ListOwned(c)
  <2>1. /\ conn[c] = "closing" /\ closing[c]
        /\ conn'[c] = IF Owns(c) THEN "detach" ELSE "leave"
        /\ conn' \in [Conn -> Up \cup {"new", "detachAgain", "leave", "gone"}]
        /\ \A b \in Conn \ {c} : SameRow(b)
    BY <1>0, <1>2 DEF ListOwned, SameRow, Up, tasks
  <2>2. Owns(c)' => conn'[c] \in Up
    BY <1>2, <2>1 DEF Owns, ListOwned, Up
  <2>3. QED
    BY <1>0, <1>2, <2>1, <2>2, LoopInv DEF ListOwned
<1>3. CASE DetachOwned(c)
  <2>1. /\ conn[c] = "detach" /\ closing[c] /\ conn'[c] = "clear" /\ attached' \in BOOLEAN
        /\ conn' \in [Conn -> Up \cup {"new", "detachAgain", "leave", "gone"}]
        /\ \A b \in Conn \ {c} : SameRow(b)
    BY <1>0, <1>3 DEF DetachOwned, HostDetach, SameRow, Up, tasks
  <2>2. QED
    BY <1>0, <1>3, <2>1, LoopInv DEF DetachOwned, Up
<1>4. CASE ClearOwned(c)
  <2>1. /\ conn[c] = "clear" /\ closing[c] /\ conn'[c] \in {"detachAgain", "leave"}
        /\ conn' \in [Conn -> Up \cup {"new", "detachAgain", "leave", "gone"}]
        /\ \A b \in Conn \ {c} : SameRow(b)
    BY <1>0, <1>4 DEF ClearOwned, SameRow, Up, tasks
  <2>2. ~Owns(c)' /\ (route' = route \/ route' = NoRoute)
    BY <1>4 DEF ClearOwned, RemoveRoute, Owns
  <2>3. QED
    BY <1>0, <1>4, <2>1, <2>2, LoopInv DEF ClearOwned
<1>5. CASE DetachCleared(c)
  <2>1. /\ conn[c] = "detachAgain" /\ closing[c] /\ conn'[c] = "leave" /\ attached' \in BOOLEAN
        /\ conn' \in [Conn -> Up \cup {"new", "detachAgain", "leave", "gone"}]
        /\ \A b \in Conn \ {c} : SameRow(b)
    BY <1>0, <1>5 DEF DetachCleared, HostDetach, SameRow, tasks
  <2>2. QED
    BY <1>0, <1>5, <2>1, LoopInv DEF DetachCleared, Up
<1>6. CASE Leave(c)
  <2>1. Delivery!Closed \in Frame
    <3>1. Delivery!Nothing \in Frame /\ "closed" \in FrameKinds
      BY DEF Delivery!Nothing, Frame, FrameKinds
    <3>2. QED
      BY <3>1 DEF Delivery!Closed, Frame
  <2>2. /\ conn[c] = "leave" /\ closing[c] /\ conn'[c] = "gone"
        /\ conn' \in [Conn -> Up \cup {"new", "detachAgain", "leave", "gone"}]
        /\ out' \in [Conn -> Frame]
        /\ \A b \in Conn \ {c} : SameRow(b)
    BY <1>0, <1>6, <2>1 DEF Leave, SameRow, tasks
  <2>3. QED
    BY <1>0, <1>6, <2>2, LoopInv DEF Leave, Up
<1>7. QED
  BY <1>1, <1>2, <1>3, <1>4, <1>5, <1>6 DEF Teardown

\* The invariant is inductive.
LEMMA NextInv ==
  ASSUME RoutesInv, [Next]_vars PROVE RoutesInv'
<1>1. CASE Produce
  BY <1>1, ProduceInv
<1>2. CASE ProcExit
  BY <1>2, ProcExitInv
<1>3. CASE Kill \/ Reap \/ ReapRoute
  BY <1>3, TerminalInv
<1>4. CASE Dispatch
  BY <1>4, DispatchInv
<1>5. CASE EvStep
  BY <1>5, EvStepInv
<1>6. ASSUME NEW c \in Conn, \E what \in {"creating", "asked"} : Ask(c, what)
      PROVE  RoutesInv'
  BY <1>6, AskInv
<1>7. ASSUME NEW c \in Conn, AskDetach(c) PROVE RoutesInv'
  BY <1>7, AskDetachInv
<1>8. ASSUME NEW c \in Conn, Disconnect(c) \/ Teardown(c) PROVE RoutesInv'
  BY <1>8, LoopStepInv
<1>9. ASSUME NEW c \in Conn, TaskStep(c) PROVE RoutesInv'
  BY <1>9, CreateInv, AttachLookupInv, AttachInstallInv, AttachReplyInv, ReplayBlockInv,
     ReplayFailsInv, EndReplayInv, SendEndInv, FinishInv, DrainInv, PushItemInv, TaskClearInv
     DEF TaskStep
<1>10. CASE UNCHANGED vars
  <2>1. RouteType /\ Clearing /\ GivenUp' = GivenUp /\ Clearing' = Clearing
    BY <1>10 DEF RoutesInv, vars, events, tasks, GivenUp, Clearing, Owns
  <2>2. QED
    BY <1>10, <2>1, QuietInv DEF vars, host, events, conns, tasks, RouteType, HostType, RowsType
<1>11. QED
  BY <1>1, <1>2, <1>3, <1>4, <1>5, <1>6, <1>7, <1>8, <1>9, <1>10 DEF Next

-------------------------------------------------------------------------------
(* What the invariant gives. *)

LEMMA TypeCorrect ==
  ASSUME RoutesInv PROVE TypeOK
<1>0. HostType /\ RoutedType /\ RowsType
  BY DEF RoutesInv, RouteType
<1>1. route.phase \in {"none", "live"} => route.pending = <<>>
  <2>1. CASE route = NoRoute
    BY <2>1 DEF NoRoute, NewRoute
  <2>2. CASE route # NoRoute /\ route.phase = "live"
    BY <2>2, OwnerFacts DEF Owner
  <2>3. QED
    BY <1>0, <2>1, <2>2 DEF RoutedType
<1>2. /\ route.conn \in Conn \cup {0} /\ route.next \in 0 .. MaxSeq
      /\ route.phase \in {"none", "replaying", "draining", "live"}
      /\ Len(route.pending) <= MaxPending + 1
  BY <1>0 DEF RoutedType, Routes
<1>3. /\ conn \in [Conn -> {"new", "open", "closing", "detach", "clear",
                           "detachAgain", "leave", "gone"}]
      /\ task \in [Conn -> {"idle", "creating", "asked", "looked", "reply", "replay", "ending",
                           "finish", "drain", "push", "remove", "removeOnly", "detach", "done"}]
  BY <1>0 DEF RowsType, Up, Unrouted, Early, Late, Over
<1>4. QED
  BY <1>0, <1>1, <1>2, <1>3 DEF TypeOK, HostType, RowsType, Event

LEMMA InvSeamless ==
  ASSUME RoutesInv PROVE HandoffSeamless
<1> SUFFICES ASSUME route # NoRoute, ~(ev # "idle" /\ evConn = route.conn),
                    NEW s \in route.next .. nextSeq - 1
             PROVE  \E i \in 1 .. Len(queue) : queue[i] = s
  BY DEF HandoffSeamless
<1>0. HostType /\ Channel /\ Seamless /\ route.next \in Nat
  BY OwnerFacts DEF RoutesInv, RouteType
<1>1. /\ nextSeq \in Nat /\ queue \in Seq(Event) /\ Blocks(queue) \in Nat
      /\ Len(queue) \in Nat
  BY <1>0, RoutesAssumption, BlocksType, LenProperties DEF HostType
<1>2. PICK from \in Nat : from = Oldest /\ nextSeq = from + Blocks(queue)
  BY <1>0, <1>1 DEF Channel, Oldest
<1>3. from <= route.next /\ Stretch(queue, from)
  BY <1>0, <1>2 DEF Seamless, GivenUp, Channel
<1> DEFINE i == s - from + 1
<1>4. i \in 1 .. Blocks(queue) /\ from + i - 1 = s
  BY <1>0, <1>1, <1>2, <1>3
<1>5. i \in 1 .. Len(queue) /\ (i = Len(queue) => ~HasExit(queue)) /\ Len(queue) > 0
  BY <1>1, <1>4 DEF Blocks
<1> HIDE DEF i
<1>6. queue[i] = from + i - 1 \/ (queue[i] = ExitEvent /\ i = Len(queue))
  BY <1>3, <1>5 DEF Stretch
<1>7. queue[i] # ExitEvent \/ i # Len(queue)
  BY <1>1, <1>5 DEF HasExit
<1>8. QED
  BY <1>4, <1>5, <1>6, <1>7

\* A frame is one that the abstract specification puts.
LEMMA Puts ==
  ASSUME RowsType, NEW c \in Conn, NEW kind \in FrameKinds, NEW s \in Nat, Told(c, kind, s)
  PROVE  \/ out' = out
         \/ /\ Delivery!Put(c, kind, s) /\ out'[c] # out[c]
            /\ conn[c] # "gone" /\ out[c].k # "left"
<1>1. out \in [Conn -> Frame] /\ out[c] \in Frame
  BY DEF RowsType
<1>2. Delivery!After(out[c], kind, s).frames = out[c].frames + 1 /\ out[c].frames \in Nat
  BY <1>1, AfterType DEF Frame
<1>3. CASE /\ conn[c] # "gone" /\ out[c].k # "left"
           /\ out' = [out EXCEPT ![c] = Delivery!After(out[c], kind, s)]
  <2>1. out'[c] = Delivery!After(out[c], kind, s)
    BY <1>1, <1>3
  <2>2. out'[c] # out[c]
    BY <1>2, <2>1
  <2>3. QED
    BY <1>3, <2>2 DEF Delivery!Put, Delivery!Becomes
<1>4. QED
  BY <1>3 DEF Told

LEMMA DispatchDelivers ==
  ASSUME RoutesInv, Dispatch PROVE Delivery!Next \/ out' = out
<1> DEFINE c == route.conn
<1>0. RowsType /\ Seamless
  BY DEF RoutesInv, RouteType
<1>1. CASE Head(queue) # ExitEvent
  <2>1. PICK s \in Nat : s = Head(queue)
    BY <1>1, EventTaken DEF Dispatch
  <2>2. CASE /\ route # NoRoute /\ s = route.next /\ route.phase = "live"
             /\ Sent(c, "data", s)
    <3>1. /\ c \in Conn /\ Owner(c)
      BY <2>2, OwnerFacts
    <3>2. out' = out \/ (Delivery!Put(c, "data", s) /\ out'[c] # out[c] /\ out[c].k # "left")
      BY <1>0, <2>2, <3>1, Puts DEF Sent, FrameKinds
    <3>3. out[c].k = "left" \/ (Delivery!IsLive(c) /\ Delivery!Expected(c) = s)
      BY <2>2, <3>1 DEF Owner
    <3>4. QED
      BY <3>1, <3>2, <3>3 DEF Delivery!Next, Delivery!LiveBlock
  <2>3. CASE out' = out
    BY <2>3
  <2>4. QED
    BY <1>1, <2>1, <2>2, <2>3 DEF Dispatch, DispatchData, Quiet, NotSent
<1>2. CASE Head(queue) = ExitEvent
  <2>1. CASE route # NoRoute /\ route.phase = "live" /\ Sent(c, "exit", 0)
    <3>1. /\ c \in Conn /\ Owner(c)
      BY <2>1, OwnerFacts
    <3>2. out' = out \/ (Delivery!Put(c, "exit", 0) /\ out'[c] # out[c] /\ out[c].k # "left")
      BY <1>0, <2>1, <3>1, Puts DEF Sent, FrameKinds
    <3>3. out[c].k = "left" \/ Delivery!IsLive(c)
      BY <2>1, <3>1 DEF Owner
    <3>4. QED
      BY <3>1, <3>2, <3>3 DEF Delivery!Next, Delivery!Exit
  <2>2. CASE out' = out
    BY <2>2
  <2>3. QED
    BY <1>2, <2>1, <2>2 DEF Dispatch, DispatchExit, Quiet, NotSent
<1>3. QED
  BY <1>1, <1>2

LEMMA RequestDelivers ==
  ASSUME RoutesInv, NEW c \in Conn,
         Create(c) \/ AttachLookup(c) \/ AttachReply(c) \/ ReplayBlock(c) \/ ReplayFails(c)
  PROVE  Delivery!Next \/ out' = out
<1>0. /\ RowsType /\ Sending(c) /\ out[c] \in Frame
      /\ conn[c] \notin {"new", "open"} => closing[c]
      /\ conn[c] # "gone" => out[c].k # "closed"
      /\ offer[c].seq \in Nat /\ offer[c].upto \in Nat /\ offer[c].exited \in BOOLEAN
      /\ offer[c] \in Offers
  BY RowFacts
<1>1. CASE Create(c)
  <2>1. task[c] \in Unrouted
    BY <1>1 DEF Create, Unrouted
  <2>2. CASE Told(c, "created", 0)
    <3>1. out' = out \/ (Delivery!Put(c, "created", 0) /\ out'[c] # out[c] /\ conn[c] # "gone")
      BY <1>0, <2>2, Puts DEF FrameKinds
    <3>2. QED
      BY <1>0, <2>1, <3>1 DEF Sending, Delivery!Next, Delivery!Create, Delivery!Unopened
  <2>3. QED
    BY <1>1, <2>2 DEF Create
<1>2. CASE AttachLookup(c)
  <2>1. task[c] \in Unrouted
    BY <1>2 DEF AttachLookup, Unrouted
  <2>2. CASE Sent(c, "refused", 0)
    <3>1. out' = out \/ (Delivery!Put(c, "refused", 0) /\ out'[c] # out[c] /\ conn[c] # "gone")
      BY <1>0, <2>2, Puts DEF FrameKinds, Sent
    <3>2. QED
      BY <1>0, <2>1, <3>1 DEF Sending, Delivery!Next, Delivery!Refuse, Delivery!Unopened
  <2>3. QED
    BY <1>2, <2>2 DEF AttachLookup, NotSent, Quiet
<1>3. CASE AttachReply(c)
  <2>1. CASE Registered(c) /\ out' = [out EXCEPT ![c] =
                Delivery!AfterReply(out[c], offer[c].seq, offer[c].upto, offer[c].exited)]
    <3>1. conn[c] # "gone" /\ task[c] = "reply"
      BY <1>3, <2>1 DEF Registered, AttachReply
    <3>2. Delivery!Unopened(c) /\ out[c].k = "none" /\ offer[c].seq <= offer[c].upto
      BY <1>0, <3>1 DEF Sending, Delivery!Unopened, Early
    <3>3. offer[c].seq \in 0 .. MaxSeq /\ offer[c].upto \in 0 .. MaxSeq
      BY <1>0 DEF Offers
    <3>4. Delivery!Reply(c)
      BY <1>0, <2>1, <3>2, <3>3 DEF Delivery!Reply, Delivery!Becomes
    <3>5. out'[c].k = "reply"
      <4>1. out'[c] = Delivery!AfterReply(out[c], offer[c].seq, offer[c].upto, offer[c].exited)
        BY <1>0, <2>1 DEF RowsType
      <4>2. Delivery!After(out[c], "reply", offer[c].seq) \in Frame
            /\ Delivery!After(out[c], "reply", offer[c].seq).k = "reply"
        <5>1. "reply" \in FrameKinds
          BY DEF FrameKinds
        <5>2. QED
          BY <1>0, <5>1, AfterType
      <4>3. QED
        BY <4>1, <4>2 DEF Delivery!AfterReply, Frame
    <3>6. QED
      BY <3>2, <3>4, <3>5 DEF Delivery!Next
  <2>2. QED
    BY <1>3, <2>1 DEF AttachReply, NotSent
<1>4. CASE ReplayBlock(c)
  <2>1. /\ conn[c] = "open" \/ conn[c] = "new"
        /\ Delivery!Replaying(c) /\ Delivery!Expected(c) = offer[c].seq
        /\ out[c].upto = offer[c].upto /\ offer[c].seq < offer[c].upto
    BY <1>0, <1>4 DEF ReplayBlock, Sending
  <2>2. out' = out \/ (Delivery!Put(c, "rep", offer[c].seq) /\ out'[c] # out[c])
    BY <1>0, <1>4, Puts DEF ReplayBlock, FrameKinds
  <2>3. QED
    BY <2>1, <2>2 DEF Delivery!Next, Delivery!ReplayBlock
<1>5. CASE ReplayFails(c)
  <2>1. CASE ~closing[c] /\ Told(c, "fail", 0)
    <3>1. Delivery!Replaying(c)
      BY <1>0, <1>5, <2>1 DEF ReplayFails, Sending
    <3>2. out' = out \/ (Delivery!Put(c, "fail", 0) /\ out'[c] # out[c])
      BY <1>0, <2>1, Puts DEF FrameKinds
    <3>3. QED
      BY <3>1, <3>2 DEF Delivery!Next, Delivery!FailReplay
  <2>2. QED
    BY <1>5, <2>1 DEF ReplayFails
<1>6. QED
  BY <1>1, <1>2, <1>3, <1>4, <1>5

LEMMA StreamDelivers ==
  ASSUME RoutesInv, NEW c \in Conn, SendEnd(c) \/ PushItem(c) \/ AskDetach(c) \/ Leave(c)
  PROVE  Delivery!Next \/ out' = out
<1>0. /\ RowsType /\ Sending(c) /\ out[c] \in Frame
      /\ conn[c] \notin {"new", "open"} => closing[c]
      /\ conn[c] # "gone" => out[c].k # "closed"
      /\ offer[c].seq \in Nat /\ offer[c].upto \in Nat /\ batch[c] \in Seq(Event)
  BY RowFacts
<1>1. CASE SendEnd(c)
  <2>1. CASE Told(c, "end", offer[c].upto) /\ conn[c] # "gone"
    <3>1. /\ Delivery!Replaying(c) /\ Delivery!Expected(c) = out[c].upto
          /\ out[c].upto = offer[c].upto
      BY <1>0, <1>1, <2>1 DEF SendEnd, Sending, Early
    <3>2. out' = out \/ (Delivery!Put(c, "end", offer[c].upto) /\ out'[c] # out[c])
      BY <1>0, <2>1, Puts DEF FrameKinds
    <3>3. QED
      BY <3>1, <3>2 DEF Delivery!Next, Delivery!EndReplay
  <2>2. QED
    BY <1>1, <2>1 DEF SendEnd, Told
<1>2. CASE PushItem(c)
  <2>1. CASE batch[c] # <<>> /\ ~closing[c]
    <3>1. conn[c] # "gone" /\ Delivery!IsLive(c) /\ Stretch(batch[c], Delivery!Expected(c))
      BY <1>0, <1>2, <2>1 DEF PushItem, Sending, Late
    <3>2. PICK from \in Nat : from = Delivery!Expected(c)
      BY <1>0, PendingFromType
    <3>3. Stretch(batch[c], from)
      BY <3>1, <3>2
    <3>4. Head(batch[c]) # ExitEvent => Head(batch[c]) = from
      BY <1>0, <2>1, <3>3, TakeOldest
    <3>5. CASE Told(c, "exit", 0)
      <4>1. out' = out \/ (Delivery!Put(c, "exit", 0) /\ out'[c] # out[c])
        BY <1>0, <3>5, Puts DEF FrameKinds
      <4>2. QED
        BY <3>1, <4>1 DEF Delivery!Next, Delivery!Exit
    <3>6. CASE Told(c, "data", from)
      <4>1. out' = out \/ (Delivery!Put(c, "data", from) /\ out'[c] # out[c])
        BY <1>0, <3>6, Puts DEF FrameKinds
      <4>2. Delivery!Put(c, "data", from) => Delivery!LiveBlock(c)
        BY <3>1, <3>2 DEF Delivery!LiveBlock
      <4>3. QED
        BY <4>1, <4>2 DEF Delivery!Next
    <3>7. QED
      BY <1>2, <2>1, <3>4, <3>5, <3>6 DEF PushItem
  <2>2. QED
    BY <1>2, <2>1 DEF PushItem
<1>3. CASE AskDetach(c)
  <2>1. out' = out \/ (Delivery!Put(c, "left", 0) /\ out'[c] # out[c])
    BY <1>0, <1>3, Puts DEF FrameKinds, AskDetach
  <2>2. QED
    BY <1>3, <2>1 DEF Delivery!Next, Delivery!Leave, AskDetach
<1>4. CASE Leave(c)
  <2>1. out[c] # Delivery!Closed
    BY <1>0, <1>4 DEF Leave, Delivery!Closed, Delivery!Nothing
  <2>2. Delivery!Close(c) /\ out'[c] # out[c]
    BY <1>0, <1>4, <2>1 DEF Leave, Delivery!Close, Delivery!Becomes, RowsType
  <2>3. QED
    BY <2>2 DEF Delivery!Next
<1>5. QED
  BY <1>1, <1>2, <1>3, <1>4

LEMMA NextDelivers ==
  ASSUME RoutesInv, [Next]_vars PROVE [Delivery!Next]_out
<1>1. CASE Dispatch
  BY <1>1, DispatchDelivers
<1>2. ASSUME NEW c \in Conn, TaskStep(c) \/ AskDetach(c) \/ Teardown(c)
      PROVE  Delivery!Next \/ out' = out
  <2>1. CASE Create(c) \/ AttachLookup(c) \/ AttachReply(c) \/ ReplayBlock(c) \/ ReplayFails(c)
    BY <2>1, RequestDelivers
  <2>2. CASE SendEnd(c) \/ PushItem(c) \/ AskDetach(c) \/ Leave(c)
    BY <2>2, StreamDelivers
  <2>3. CASE out' = out
    BY <2>3
  <2>4. QED
    BY <1>2, <2>1, <2>2, <2>3
       DEF TaskStep, Teardown, AttachInstall, EndReplay, Finish, Drain, TaskRemove, TaskDetach,
           ListOwned, DetachOwned, ClearOwned, DetachCleared
<1>3. CASE out' = out
  BY <1>3
<1>4. QED
  BY <1>1, <1>2, <1>3
     DEF Next, vars, Produce, ProcExit, Kill, Reap, ReapRoute, EvStep, EvRemove, EvDetach,
         EvDisconnect, NotSent, Ask, Disconnect

\* An exited terminal is given up with its route.
ReleaseTold ==
  (Released /\ proc = "exited") =>
     \/ out[route.conn].exited
     \/ out'[route.conn].k \in {"exit", "left"}

LEMMA NextTold ==
  ASSUME RoutesInv, [Next]_vars PROVE ReleaseTold
<1> DEFINE c == route.conn
<1> SUFFICES ASSUME reg, ~reg', route # NoRoute, route' = NoRoute, proc = "exited"
             PROVE  out[c].exited \/ out'[c].k \in {"exit", "left"}
  BY DEF ReleaseTold, Released
<1>0. c \in Conn /\ Owner(c) /\ Owns(c)
  BY OwnerFacts
<1>1. CASE Dispatch
  <2>1. CASE Sent(c, "exit", 0) /\ route.phase = "live"
    BY <2>1, ToldLive
  <2>2. QED
    BY <1>1, <2>1 DEF Dispatch, DispatchExit, DispatchData
<1>2. ASSUME NEW b \in Conn, Drain(b)
      PROVE  out[c].exited \/ out'[c].k \in {"exit", "left"}
  <2>1. b = c /\ route.pending = <<>> /\ route.exitDone
    BY <1>2 DEF Drain, Owns
  <2>2. task[c] = "drain" /\ batch[c] = <<>> /\ out' = out
    BY <1>2, <2>1, RowFacts DEF Drain, Sending
  <2>3. ExitBefore(c)
    BY <1>0, <2>1, <2>2, NoEvents DEF Owner, Late
  <2>4. QED
    BY <2>2, <2>3, NoEvents DEF ExitBefore, Early
<1>3. ASSUME NEW b \in Conn, \E what \in {"creating", "asked"} : Ask(b, what) PROVE FALSE
  BY <1>3 DEF Ask, host
<1>4. ASSUME NEW b \in Conn, AskDetach(b) \/ Disconnect(b) \/ Teardown(b) PROVE FALSE
  BY <1>4 DEF AskDetach, Disconnect, Teardown, ListOwned, DetachOwned, ClearOwned, DetachCleared,
              Leave, host
<1>5. ASSUME NEW b \in Conn, TaskStep(b), ~Drain(b) PROVE FALSE
  BY <1>5 DEF TaskStep, Create, AttachLookup, AttachInstall, AttachReply, ReplayBlock,
              ReplayFails, EndReplay, SendEnd, Finish, PushItem, TaskRemove, TaskDetach, host
<1>6. CASE Produce \/ ProcExit \/ Kill \/ Reap \/ ReapRoute \/ EvStep \/ UNCHANGED vars
  BY <1>6 DEF Produce, ProcExit, Kill, Reap, ReapRoute, EvStep, EvRemove, EvDetach, EvDisconnect,
              vars, host
<1>7. QED
  BY <1>1, <1>2, <1>3, <1>4, <1>5, <1>6 DEF Next

-------------------------------------------------------------------------------
\* The invariant holds in every behaviour, however many connections come and whatever is
\* asked of them while the shell prints and exits.
THEOREM RoutesInvariant == Spec => []RoutesInv
<1>1. Init => RoutesInv
  BY InitInv
<1>2. RoutesInv /\ [Next]_vars => RoutesInv'
  BY NextInv
<1>3. QED
  BY <1>1, <1>2, PTL DEF Spec

\* The routes and the tasks are well typed, and the reader's and the pending queue keep
\* their bounds (PTY_EVENT_QUEUE_DEPTH, ROUTE_PENDING_MAX_BYTES).
THEOREM TypeCorrectness == Spec => []TypeOK
<1>1. RoutesInv => TypeOK
  BY TypeCorrect
<1>2. QED
  BY <1>1, RoutesInvariant, PTL

\* The handoff of a terminal to a connection is seamless: whatever the route still expects
\* is on its way to pty_events, so SequenceGap never happens.
THEOREM HandoffIsSeamless == Spec => []HandoffSeamless
<1>1. RoutesInv => HandoffSeamless
  BY InvSeamless
<1>2. QED
  BY <1>1, RoutesInvariant, PTL

\* The daemon's routing implements the ordered stream that every connection is promised:
\* the frames are those of OrderedDelivery, step by step.
THEOREM DeliveryIsOrdered == Spec => DeliveryOrdered
<1>1. Init => Delivery!Init
  BY DEF Init, Delivery!Init
<1>2. RoutesInv /\ [Next]_vars => [Delivery!Next]_out
  BY NextDelivers
<1>3. QED
  BY <1>1, <1>2, RoutesInvariant, PTL DEF Spec, DeliveryOrdered, Delivery!Spec

\* release_exited's contract: an exited terminal is dropped together with its route only
\* once the routed client has been told the exit, or has left.
THEOREM ReleaseIsTold == Spec => ReleasedIsTold
<1>1. RoutesInv /\ [Next]_vars => [ReleaseTold]_vars
  BY NextTold
<1>2. QED
  BY <1>1, RoutesInvariant, PTL DEF Spec, ReleasedIsTold, ReleaseTold
================================================================================
