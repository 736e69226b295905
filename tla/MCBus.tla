------------------------------- MODULE MCBus --------------------------------
(***************************************************************************)
(* What is on the CAN bus and what becomes of it in a node: the transport  *)
(* layer, the transmission queues, the filters, the dispatcher and the     *)
(* synchronization of clocks.  A behaviour of this module is a behaviour   *)
(* of one of them, chosen by the variable part, while the others stay in   *)
(* an initial state.                                                       *)
(***************************************************************************)
EXTENDS Integers, TLC

CONSTANTS
  Components,                     \* the parts a run is about
  Ifaces, MaxFrames,              \* CanIO: the interfaces and the bound on the frames
  a, b,                           \* Transport: the interfaces
  None

VARIABLES
  part,
  now, otr, sent, wire, rcv, buf, delivered, heard, spoiled, left,
  clock, queue, call, frames, handed, aged, dropped, sane,
  time, master, iface, slave, adj, pubs,
  names, root, link, walk, given, changed, changes,
  listeners, filters, anonymous, configs, added, hw, ready, pending, received, todo

TransferSetup(is, tid, lens, t, l, f) ==
  [ifaces |-> is, tid |-> tid, lens |-> lens, transfers |-> t, losses |-> l, failures |-> f]
TransferSetups ==
  {TransferSetup({a}, 3, {1, 2}, 3, 1, 0), TransferSetup({a}, 3, {1, 2, 4}, 2, 1, 0),
   TransferSetup({a, b}, 3, {1, 2}, 2, 1, 0), TransferSetup({a}, None, {1, 2, 3}, 2, 0, 1)}

T == INSTANCE Transport WITH
       TidMod <- 4, MaxBuffer <- 3, TidTimeout <- 2, Lifetime <- 5, Latency <- 2, MaxTime <- 7,
       Setups <- TransferSetups

Q == INSTANCE CanIO WITH
       now <- clock, Quota <- 4, Priorities <- {1, 2}, Lives <- {1, 2}, MaxTime <- 2

\* No step of CanIO tells one interface from another.
InterfaceSymmetry == Permutations(Ifaces)

Offsets == [m \in {1, 2} |-> 10 * m]
ClockSetup(m, i, p, l, d, e) ==
  [masters |-> m, ifaces |-> i, publications |-> p, losses |-> l, drops |-> d, late |-> e]
ClockSetups == {ClockSetup(2, 1, 4, 1, 0, 0), ClockSetup(1, 2, 3, 1, 0, 0), ClockSetup(1, 1, 4, 1, 1, 1)}

Y == INSTANCE TimeSync WITH
       now <- time, left <- pubs, Offset <- Offsets, Ifaces <- {1, 2}, TidMod <- 4,
       MinPeriod <- 1, MaxPeriod <- 2, PubTimeout <- 3, MaxTime <- 6, Setups <- ClockSetups

Listener(list, id) == [list |-> list, id |-> id]
ListenersDef ==
  "m1" :> Listener("message", 1) @@ "n1" :> Listener("message", 1)
  @@ "o1" :> Listener("message", 1) @@ "m2" :> Listener("message", 2)
  @@ "q1" :> Listener("request", 1) @@ "r1" :> Listener("request", 1) @@ "q2" :> Listener("request", 2)
  @@ "s1" :> Listener("response", 1) @@ "t1" :> Listener("response", 1)
  @@ "l" :> Listener("loopback", 1) @@ "k" :> Listener("loopback", 1)
Programs == {{"m1", "n1", "o1", "m2"}, {"q1", "r1", "q2"}, {"m1", "s1", "t1"}, {"m1", "l", "k"}}

D == INSTANCE Dispatcher WITH Listeners <- ListenersDef, Changes <- 2, Setups <- Programs

\* The smallest and the largest value of every field, and every end of a transfer.
Fr == INSTANCE Frame
Base == [prio : {0, 31}, src : {0, 1, 127}, dst : {0, 2, 127}, type : {"message", "request", "response"},
         dtid : {1, 2, 255, 65535}, tid : {31}, sot : {TRUE}, eot : {TRUE}, toggle : {FALSE}, payload : {<<>>}]
Ends == [prio : {16}, src : {1}, dst : {2}, type : {"request"}, dtid : {1}, tid : {21},
         sot : BOOLEAN, eot : BOOLEAN, toggle : BOOLEAN, payload : {<<>>, <<{0}, {1}, {2}, {3}, {4}, {5}, {6}>>}]
Sendable == {f \in Base \cup Ends : Fr!isValid(f) /\ (f.src = 0 => f.dtid <= 3)}
FilterSetups == {[listeners |-> {1, 2}, filters |-> 8, frames |-> 2, calls |-> 0]} \cup
                [listeners : {{1, 2}, {1, 2, 65535}}, filters : {1, 2}, frames : {1}, calls : {3}]

\* Messages of data type 255, from whatever node.
Added == {[id |-> {Fr!EFF} \cup Fr!bitpack(8, 16, 255), mask |-> {Fr!EFF, Fr!RTR, Fr!ERR} \cup (7..23)]}

F == INSTANCE Filters WITH
       left <- todo, Self <- 2, Setups <- FilterSetups, MaxConfigs <- 4, Crcs <- {0, 10922},
       Custom <- Added, Frames <- Sendable

tVars == <<now, otr, sent, wire, rcv, buf, delivered, heard, spoiled, left>>
qVars == <<clock, queue, call, frames, handed, aged, dropped, sane>>
yVars == <<time, master, iface, slave, adj, pubs>>
dVars == <<names, root, link, walk, given, changed, changes>>
fVars == <<listeners, filters, anonymous, configs, added, hw, ready, pending, received, todo>>

Init ==
  /\ part \in Components
  /\ T!TransportInit /\ (part # "transport" => left.transfers = 2 /\ left.losses = 0)
  /\ Q!CanIOInit
  /\ Y!TimeSyncInit /\ (part # "clocks" => pubs.publications = 3)
  /\ D!DispatcherInit /\ (part # "dispatcher" => names = {"q1", "r1", "q2"})
  /\ F!FiltersInit /\ (part # "filters" => todo.frames = 2)

Next ==
  \/ part = "transport" /\ T!TransportNext /\ UNCHANGED <<part, qVars, yVars, dVars, fVars>>
  \/ part = "queues" /\ Q!CanIONext /\ UNCHANGED <<part, tVars, yVars, dVars, fVars>>
  \/ part = "clocks" /\ Y!TimeSyncNext /\ UNCHANGED <<part, tVars, qVars, dVars, fVars>>
  \/ part = "dispatcher" /\ D!DispatcherNext /\ UNCHANGED <<part, tVars, qVars, yVars, fVars>>
  \/ part = "filters" /\ F!FiltersNext /\ UNCHANGED <<part, tVars, qVars, yVars, dVars>>

Spec == Init /\ [][Next]_<<part, tVars, qVars, yVars, dVars, fVars>>

-----------------------------------------------------------------------------
\* Transfers are delivered in the order they were sent, each once (Transport).
DeliveredInOrder == part = "transport" => T!DeliveredInOrder

\* A transfer whose frames all came is delivered (Transport).
IntactDelivered == part = "transport" => T!IntactDelivered

\* No frame is handed to an interface while one of a higher priority, or an
\* older one of the same, waits for it (CanIO).
NoInversion == [][part = "queues" => Q!InOrder]_qVars

\* A queue never removes a frame before it has expired (CanIO).
PeekKeepsUnexpired == part = "queues" => Q!PeekKeepsUnexpired

\* The clock of a slave is only ever set to that of its master (TimeSync).
AdjustsExactly == [][part = "clocks" => Y!ToMastersTime]_yVars

\* Every listener for a frame is given it once, whatever listeners the callbacks
\* start and stop (Dispatcher).
ReachesAll == [][part = "dispatcher" => D!GivenToAll]_dVars

\* A frame the node wants passes the filters and is read as the frame that was
\* sent, and of two frames that compete exactly one wins, never the one of the lower
\* priority: WantedArrives and ArbitrationDecides of Filters.
WantedArrives == part = "filters" => F!WantedArrives /\ F!ArbitrationDecides
=============================================================================
