----------------------------- MODULE MCNodeLive -----------------------------
(***************************************************************************)
(* What must not get stuck in a UAVCAN node: the calls of a service        *)
(* client, the update of the firmware of its peers, and the transmission   *)
(* queue of the SocketCAN driver.  A behaviour of this module is a         *)
(* behaviour of one of them, chosen by the variable part, while the others *)
(* stay in an initial state.                                               *)
(***************************************************************************)
EXTENDS Integers, Sequences

CONSTANT None

VARIABLES
  part,
  now, tid, made, registry, listening, expired, bus, results, cancelled, left,
  node, monitor, entry, timer, call, trigger, begin, declined, room,
  clock, down, tx, rx, inSocket, pending, filters, socket, inbox, used

CallSetup(l, m, s, c) == [losses |-> l, memory |-> m, sends |-> s, cancels |-> c]
CallSetups == {CallSetup(1, 1, 0, 1), CallSetup(2, 1, 1, 0)}

\* Transfer IDs come round after two calls.
S == INSTANCE Services WITH
       TidMod <- 2, Timeout <- 2, Latency <- 1, MaxCalls <- 3, MaxTime <- 10, Setups <- CallSetups

NodeSetup(n, l, r, i) == [nodes |-> n, losses |-> l, restarts |-> r, invalidations |-> i]
NodeSetups == {NodeSetup(1, 1, 1, 0), NodeSetup(1, 0, 1, 1), NodeSetup(2, 0, 0, 0)}

N == INSTANCE NodeInfo WITH
       left <- room, NodeMax <- 2, MaxUptime <- 2, NumAttempts <- 2, Setups <- NodeSetups,
       None <- "none"

\* One frame at a time in the socket; frames 1 are looped back, frames 2 pass the filters.
D == INSTANCE SocketCan WITH
       now <- clock, Ids <- {1, 2}, LoopbackIds <- {1}, Filtered <- {2}, InSocketMax <- 1,
       Lives <- {1}, MaxSends <- 2, MaxArrivals <- 1, MaxErrors <- 1, MaxNow <- 3

sVars == <<now, tid, made, registry, listening, expired, bus, results, cancelled, left>>
nVars == <<node, monitor, entry, timer, call, trigger, begin, declined, room>>
dVars == <<clock, down, tx, rx, inSocket, pending, filters, socket, inbox, used>>

Init ==
  /\ part \in {"services", "nodeinfo", "driver"}
  /\ S!ServicesInit /\ (part # "services" => left = CallSetup(1, 1, 0, 1))
  /\ N!NodeInfoInit /\ (part # "nodeinfo" => room = NodeSetup(1, 1, 1, 0))
  /\ D!SocketCanInit

Next ==
  \/ part = "services" /\ S!ServicesNext /\ UNCHANGED <<part, nVars, dVars>>
  \/ part = "nodeinfo" /\ N!NodeInfoNext /\ UNCHANGED <<part, sVars, dVars>>
  \/ part = "driver" /\ D!SocketCanNext /\ UNCHANGED <<part, sVars, nVars>>

\* The fairness of every part, for the part that runs.
Fairness ==
  /\ WF_sVars(part = "services" /\ S!HandleDeadline)
  /\ WF_sVars(part = "services" /\ S!EndOfDeadline)
  /\ WF_sVars(part = "services" /\ S!Tick)
  /\ WF_sVars(part = "services" /\ \E m \in bus : S!HandleRequest(m) \/ S!HandleResponse(m, TRUE))
  /\ WF_nVars(part = "nodeinfo" /\ N!HandleRetrieverTimer)
  /\ WF_nVars(part = "nodeinfo" /\ N!HandleTriggerTimer)
  /\ \A n \in 1..2 :
       /\ WF_nVars(part = "nodeinfo" /\ N!Answer(n))
       /\ WF_nVars(part = "nodeinfo" /\ (N!HandleInfo(n) \/ N!HandleNoInfo(n)))
       /\ WF_nVars(part = "nodeinfo" /\ N!AnswerBegin(n))
       /\ WF_nVars(part = "nodeinfo" /\ (N!HandleBegun(n) \/ N!HandleNotBegun(n)))
       /\ WF_nVars(part = "nodeinfo" /\ N!Second(n))
       /\ WF_nVars(part = "nodeinfo" /\ N!Start(n))
       /\ WF_nVars(part = "nodeinfo" /\ N!Updated(n))
  /\ WF_dVars(part = "driver" /\ D!Spin)
  /\ WF_dVars(part = "driver" /\ D!Transmit)
  /\ WF_dVars(part = "driver" /\ D!Elapse)

Spec == Init /\ [][Next]_<<part, sVars, nVars, dVars>> /\ Fairness

-----------------------------------------------------------------------------
\* A call is called back at most once, with the response to it or with its
\* timeout, and not at all once it was cancelled; as long as memory does not run out
\* a client with calls pending listens: OneResultEach and ListensWhilePending of
\* Services.
OneResultEach == part = "services" => S!OneResultEach /\ S!ListensWhilePending

\* Every call that was not cancelled is called back (Services).
EveryCallEnds == S!EveryCallEnds

\* Every node ends up with the new firmware, or the checker has declined
\* (NodeInfo).
UpdatesEnd ==
  \A n \in 1..2 :
    <>[](part # "nodeinfo" \/ n > room.nodes \/ node[n].fw = "new" \/ n \in declined)

\* An interface that is up never keeps a frame for good: it is written, fails or
\* expires (SocketCan).
QueueDrains == D!QueueDrains
=============================================================================
