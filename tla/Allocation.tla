----------------------------- MODULE Allocation -----------------------------
(***************************************************************************)
(* Allocation of node IDs by one server (libuavcan: DynamicNodeIDClient,   *)
(* AllocationRequestManager, NodeDiscoverer, centralized::Server and       *)
(* centralized::Storage).                                                  *)
(*                                                                         *)
(* A unique ID is a sequence of three parts, one per request.  A message   *)
(* waits in its sender's queue and then reaches every node at once, or is  *)
(* lost.  Timers fire at any time.  The server may fail to write to its    *)
(* disk, and may crash between two writes.  Its own node ID is none of     *)
(* those it gives away.                                                    *)
(***************************************************************************)
EXTENDS Integers, Sequences, FiniteSets

CONSTANTS
  Uid,          \* the unique ID of every client
  Static,       \* the unique ID of every node whose node ID is configured, by its node ID
  MaxNodeID,    \* NodeID::MaxRecommendedForRegularNodes
  MaxAttempts,  \* MaxAttemptsToGetNodeInfo
  Parts,        \* what a part of a unique ID may be
  Setups,       \* bounds on requests, status messages, losses, failures and crashes
  None

VARIABLES
  client,  \* of every client: parts received back, allocated node ID, queued request
  srv,     \* the server
  disk,    \* the storage backend: the node ID of every unique ID (0: none), and the mask
  left     \* what is left of the setup's bounds

allocationVars == <<client, srv, disk, left>>

Clients == DOMAIN Uid
UniqueIDs == {<<x, y, z>> : x, y, z \in Parts}
NoUid == <<0, 0, 0>>

\* Storage::init and AbstractServer::init: only the mask is read.
Started(mask) ==
  [cur |-> <<>>, mask |-> mask, committed |-> {}, known |-> [n \in {} |-> 0],
   asking |-> None, out |-> <<>>]

AllocationInit ==
  /\ client = [c \in Clients |-> [got |-> 0, id |-> None, out |-> None]]
  /\ srv = Started({})
  /\ disk = [ids |-> [u \in UniqueIDs \cup {NoUid} |-> 0], mask |-> {}]
  /\ left \in Setups

Use(what) == left[what] > 0 /\ left' = [left EXCEPT ![what] = @ - 1]

-----------------------------------------------------------------------------
\* DynamicNodeIDClient::handleTimerEvent
ClientTimer(c, preferred) ==
  /\ client[c].id = None /\ client[c].out = None
  /\ Use("requests")
  /\ client' = [client EXCEPT ![c].out = [first |-> client[c].got = 0,
                                          part |-> Uid[c][client[c].got + 1],
                                          last |-> client[c].got = 2,
                                          preferred |-> preferred],
                              ![c].got = 0]
  /\ UNCHANGED <<srv, disk>>

IsPrefix3(s, u) == s = SubSeq(u, 1, Len(s))

\* DynamicNodeIDClient::handleAllocation: of a request, and of a response.
Passive(cl) == IF cl.id = None THEN [cl EXCEPT !.got = 0] ELSE cl

Answered(c, cl, msg) ==
  IF cl.id # None THEN cl
  ELSE IF ~IsPrefix3(msg.uid, Uid[c]) THEN [cl EXCEPT !.got = 0]
  ELSE IF Len(msg.uid) = 3 THEN [cl EXCEPT !.got = 0, !.id = msg.id]
  ELSE [cl EXCEPT !.got = Len(msg.uid)]

-----------------------------------------------------------------------------
\* findFreeNodeID: upwards from the preferred node ID, then downwards.  0: none is free.
findFreeNodeIDAny(mask, preferred) == preferred

findFreeNodeID(mask, preferred) ==
  LET from == IF preferred = 0 THEN MaxNodeID ELSE preferred
      up == {n \in from..MaxNodeID : n \notin mask}
      down == {n \in 1..from : n \notin mask}
  IN IF up # {} THEN CHOOSE n \in up : \A m \in up : n <= m
     ELSE IF down # {} THEN CHOOSE n \in down : \A m \in down : n >= m
     ELSE 0

\* Storage::add: the node ID of the unique ID first, then the mask.
Add(s, id, uid, outcome) ==
  CASE outcome = "stored" ->
         /\ disk' = [ids |-> [disk.ids EXCEPT ![uid] = id], mask |-> s.mask \cup {id}]
         /\ srv' = [s EXCEPT !.mask = @ \cup {id}]
    [] outcome = "first write fails" -> disk' = disk /\ srv' = s
    [] outcome = "second write fails" ->
         disk' = [disk EXCEPT !.ids[uid] = id] /\ srv' = s
    [] outcome = "crash" ->
         disk' = [disk EXCEPT !.ids[uid] = id] /\ srv' = Started(disk.mask)

Outcomes == {"stored", "first write fails", "second write fails", "crash"}

Costs(outcome) == IF outcome = "stored" THEN UNCHANGED left ELSE Use("failures")

Response(s, uid, id) == [s EXCEPT !.out = Append(@, [uid |-> uid, id |-> id])]

\* centralized::Server::handleAllocationRequest
HandleAllocationRequest(s, uid, preferred) ==
  LET id == findFreeNodeID(s.mask, preferred)
  IN IF disk.ids[uid] # 0
     THEN srv' = Response(s, uid, disk.ids[uid]) /\ UNCHANGED <<disk, left>>
     ELSE IF id = 0 THEN srv' = s /\ UNCHANGED <<disk, left>>
     ELSE \E outcome \in Outcomes :
            /\ Costs(outcome)
            /\ Add(IF outcome = "stored" THEN Response(s, uid, id) ELSE s, id, uid, outcome)

\* AllocationRequestManager: the stage of a request, and the one it waits for.
detectRequestStage(m) == IF m.first THEN 1 ELSE IF m.last THEN 3 ELSE 2

\* AllocationRequestManager::handleAllocation, of a request; a stage times out at any time.
HandleRequest(m, timedOut) ==
  LET s == IF timedOut THEN [srv EXCEPT !.cur = <<>>] ELSE srv
      cur == Append(s.cur, m.part)
  IN IF detectRequestStage(m) # Len(s.cur) + 1 THEN srv' = s /\ UNCHANGED <<disk, left>>
     ELSE IF Len(cur) = 3 THEN HandleAllocationRequest([s EXCEPT !.cur = <<>>], cur, m.preferred)
     ELSE srv' = Response([s EXCEPT !.cur = cur], cur, 0) /\ UNCHANGED <<disk, left>>

DeliverRequest(c) ==
  /\ client[c].out # None
  /\ client' = [d \in Clients |-> IF d = c THEN [client[c] EXCEPT !.out = None] ELSE Passive(client[d])]
  /\ \E timedOut \in BOOLEAN : HandleRequest(client[c].out, timedOut)

DeliverResponse ==
  /\ srv.out # <<>>
  /\ srv' = [srv EXCEPT !.out = Tail(@)]
  /\ client' = [c \in Clients |-> Answered(c, client[c], Head(srv.out))]
  /\ UNCHANGED <<disk, left>>

LoseRequest(c) ==
  /\ client[c].out # None
  /\ Use("losses")
  /\ client' = [client EXCEPT ![c].out = None]
  /\ UNCHANGED <<srv, disk>>

LoseResponse ==
  /\ srv.out # <<>>
  /\ Use("losses")
  /\ srv' = [srv EXCEPT !.out = Tail(@)]
  /\ UNCHANGED <<client, disk>>

-----------------------------------------------------------------------------
\* NodeDiscoverer.  Nodes that are online, and the unique ID each tells when asked.
Holder(n) == {c \in Clients : client[c].id = n}
Online == DOMAIN Static \cup {client[c].id : c \in {d \in Clients : client[d].id # None}}
Told(n) == IF n \in DOMAIN Static THEN {Static[n]} ELSE {Uid[c] : c \in Holder(n)}

Forget(s, ns) == [s EXCEPT !.known = [n \in DOMAIN s.known \ ns |-> s.known[n]]]

\* needToQuery: a node found in the storage is remembered as committed and forgotten.
Unknown(s, n) == n \notin s.committed /\ n \notin s.mask
AfterCheck(s, n) ==
  IF Unknown(s, n) \/ n \in s.committed THEN s
  ELSE Forget([s EXCEPT !.committed = @ \cup {n}], {n})

HandleNodeStatus(n, restarted) ==
  /\ Use("statuses")
  /\ srv' = IF ~Unknown(srv, n) THEN AfterCheck(srv, n)
            ELSE [srv EXCEPT !.known = [m \in DOMAIN srv.known \cup {n} |->
                    IF m \in DOMAIN srv.known /\ ~(m = n /\ restarted) THEN srv.known[m] ELSE 0]]
  /\ UNCHANGED <<client, disk>>

\* pickNextNodeToQueryAndCleanupMap: the nodes that come before the one picked, in the map's
\* order, which is any, are checked and forgotten.
Cleaned(ns) == Forget([srv EXCEPT !.committed = @ \cup ns], ns)

HandleDiscoveryTimer ==
  LET wanted == {n \in DOMAIN srv.known : Unknown(srv, n)}
      others == DOMAIN srv.known \ wanted
  IN /\ srv.asking = None /\ DOMAIN srv.known # {}
     /\ IF wanted = {} THEN srv' = Cleaned(others)
        ELSE \E n \in wanted, gone \in SUBSET others :
               srv' = [Cleaned(gone) EXCEPT !.asking = n]
     /\ UNCHANGED <<client, disk, left>>

FinalizeAnyway(s, n, uid) ==
  \E outcome \in Outcomes : Costs(outcome) /\ Add(Forget(s, {n}), n, uid, outcome)

\* finalizeNodeDiscovery and handleNewNodeDiscovery: the server may have learnt of the node
\* while the answer was on its way.
Finalize(s, n, uid) ==
  IF Unknown(s, n) THEN \E outcome \in Outcomes : Costs(outcome) /\ Add(Forget(s, {n}), n, uid, outcome)
  ELSE srv' = Forget(AfterCheck(s, n), {n}) /\ UNCHANGED <<disk, left>>

\* handleGetNodeInfoResponse
InfoAnswer ==
  /\ srv.asking # None
  /\ \E uid \in Told(srv.asking) : Finalize([srv EXCEPT !.asking = None], srv.asking, uid)
  /\ UNCHANGED client

InfoTimeout ==
  LET n == srv.asking
      s == [srv EXCEPT !.asking = None]
  IN /\ n # None
     /\ IF n \notin DOMAIN srv.known THEN srv' = s /\ UNCHANGED <<disk, left>>
        ELSE IF srv.known[n] + 1 < MaxAttempts
        THEN srv' = [s EXCEPT !.known[n] = @ + 1] /\ UNCHANGED <<disk, left>>
        ELSE Finalize(s, n, NoUid)
     /\ UNCHANGED client

AllocationNext ==
  \/ \E c \in Clients, preferred \in {0, 1} : ClientTimer(c, preferred)
  \/ \E c \in Clients : DeliverRequest(c) \/ LoseRequest(c)
  \/ DeliverResponse \/ LoseResponse
  \/ \E n \in Online, restarted \in BOOLEAN : HandleNodeStatus(n, restarted)
  \/ HandleDiscoveryTimer \/ InfoAnswer \/ InfoTimeout

AllocationSpec == AllocationInit /\ [][AllocationNext]_allocationVars

-----------------------------------------------------------------------------
\* No two clients are given the same node ID.  The comment in Storage::add says that a write
\* that fails after the first only leaves "a dangling entry, but it's absolutely OK".
ClientsDiffer ==
  \A c, d \in Clients : c # d /\ client[c].id # None => client[c].id # client[d].id

\* No two clients are given the same node ID, and the storage never has two unique IDs for
\* one node ID, whatever order requests of several clients, lost messages, and the discovery
\* of configured nodes come in.
UniqueNodeIDs ==
  /\ ClientsDiffer
  /\ \A u, v \in UniqueIDs : u # v /\ disk.ids[u] # 0 => disk.ids[u] # disk.ids[v]
=============================================================================
