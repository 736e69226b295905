------------------------------- MODULE MCData -------------------------------
(***************************************************************************)
(* What UAVCAN nodes keep and how they write it down: on disk the Raft     *)
(* state of the distributed allocation server, with two nodes, and the     *)
(* table of the centralized one, with two clients whose unique IDs differ  *)
(* in the last part and a node whose ID 2 is configured; in memory the     *)
(* containers, the transfer buffers and the registry of data types; on the *)
(* wire the messages.  A behaviour of this module is a behaviour of one of *)
(* them, chosen by the variable part, while the others stay in an initial  *)
(* state.                                                                  *)
(***************************************************************************)
EXTENDS RaftStorage, TLC

CONSTANTS
  Components,  \* the parts a run is about
  n1, n2,      \* RaftStorage: nodes
  Setups,      \* Allocation: what may happen
  NaN

VARIABLES
  part,
  client, srv, disk, left,
  free, map, set, items, queued, used,
  buffers, static, memory,
  msgs, srvs, descriptor, frozen, users, answer, latest,
  schema, message, stream, size, at, phase, decoded

Uids == [c \in {"A", "B"} |-> IF c = "A" THEN <<1, 1, 1>> ELSE <<1, 1, 2>>]
Configured == [n \in {2} |-> <<2, 2, 2>>]
A == INSTANCE Allocation WITH
       Uid <- Uids, Static <- Configured, MaxNodeID <- 2, MaxAttempts <- 2, Parts <- {1, 2}

Setup(r, s, l, f) == [requests |-> r, statuses |-> s, losses |-> l, failures |-> f]
NoFailures == {Setup(7, 1, 0, 0), Setup(7, 0, 1, 0)}
Failing == {Setup(9, 0, 0, 1)}

\* Two blocks of memory, each for two pairs or two items.
C == INSTANCE Containers WITH
       Keys <- {"a", "b", "c"}, Values <- {1, 2}, Slots <- 2, Blocks <- {"x", "y"},
       MaxBlocks <- 2, MaxItems <- 3

\* A full buffer takes three blocks, the last of them in part, and an entry.
B == INSTANCE Buffers WITH
       BufferKeys <- {"a", "b"}, BlockSize <- 2, MaxSize <- 5, PoolBlocks <- 6, MaxLen <- 3,
       Byte <- {1, 2}

\* Two types of one name and kind, one of another name, one of another kind.
DataTypes == "A" :> [kind |-> "message", name |-> "x"] @@ "B" :> [kind |-> "message", name |-> "y"]
             @@ "C" :> [kind |-> "message", name |-> "x"] @@ "D" :> [kind |-> "service", name |-> "x"]
R == INSTANCE Registry WITH Types <- DataTypes, Ids <- {1, 2}

Field(len, signed, saturates, dynamic, max) ==
  [len |-> len, signed |-> signed, saturates |-> saturates, dynamic |-> dynamic, max |-> max]
MessageFields ==
  {Field(1, FALSE, TRUE, FALSE, 1), Field(3, TRUE, TRUE, FALSE, 1), Field(12, FALSE, FALSE, FALSE, 1),
   Field(5, FALSE, TRUE, TRUE, 2), Field(8, FALSE, TRUE, TRUE, 2), Field(11, TRUE, TRUE, TRUE, 1)}
Messages == {<<f>> : f \in MessageFields} \cup {<<f, g>> : f, g \in MessageFields}
FieldValues == {0, 1, 2, -3, 4, 300, 5000}
SmallMatrices == [1..2 -> [1..2 -> {0, 1, 2, NaN}]] \cup [1..3 -> [1..3 -> {0, 1}]]
M == INSTANCE Marshal WITH
       Schemas <- Messages, Values <- FieldValues, Capacities <- {2, 6}, Matrices <- SmallMatrices

aVars == <<client, srv, disk, left>>
cVars == <<free, map, set, items, queued, used>>
bVars == <<buffers, static, memory>>
rVars == <<msgs, srvs, descriptor, frozen, users, answer, latest>>
mVars == <<schema, message, stream, size, at, phase, decoded>>

Init ==
  /\ part \in Components
  /\ StorageInit
  /\ A!AllocationInit /\ (part # "table" => left = CHOOSE b \in Setups : TRUE)
  /\ C!ContainersInit /\ B!BuffersInit /\ R!RegistryInit
  /\ M!MarshalInit /\ (part # "messages" => schema = <<Field(1, FALSE, TRUE, FALSE, 1)>> /\ size = 2)

Next ==
  \/ part = "raft" /\ StorageNext /\ UNCHANGED <<part, aVars, cVars, bVars, rVars, mVars>>
  \/ part = "table" /\ A!AllocationNext /\ UNCHANGED <<part, storageVars, cVars, bVars, rVars, mVars>>
  \/ part = "containers" /\ C!ContainersNext /\ UNCHANGED <<part, storageVars, aVars, bVars, rVars, mVars>>
  \/ part = "buffers" /\ B!BuffersNext /\ UNCHANGED <<part, storageVars, aVars, cVars, rVars, mVars>>
  \/ part = "registry" /\ R!RegistryNext /\ UNCHANGED <<part, storageVars, aVars, cVars, bVars, mVars>>
  \/ part = "messages" /\ M!MarshalNext /\ UNCHANGED <<part, storageVars, aVars, cVars, bVars, rVars>>

Spec == Init /\ [][Next]_<<part, storageVars, aVars, cVars, bVars, rVars, mVars>>

Symmetry == Permutations({n1, n2})

-----------------------------------------------------------------------------
\* No two clients are given the same node ID (Allocation).
ClientsDiffer == part = "table" => A!ClientsDiffer

\* No two clients are given the same node ID, and the table never has two unique
\* IDs for one node ID (Allocation).
UniqueNodeIDs == part = "table" => A!UniqueNodeIDs

\* Map implements a dictionary, and the items of a Multiset are never moved:
\* MapIsDictionary and ItemsStay of Containers.
MapIsDictionary == C!MapIsDictionary /\ C!ItemsStay

\* Every block of the pool is in one place (Containers).
BlocksAccounted == part = "containers" => C!BlocksAccounted

\* A transfer buffer made of blocks reads as one made of an array (Buffers).
ReadsAsStatic == part = "buffers" => B!ReadsAsStatic

\* The registry is a map from names to IDs and back (Registry).
RegistryIsMap == part = "registry" => R!RegistryIsMap

\* What is decoded is what was encoded, as far as the fields have room for it
\* (Marshal).
SurvivesTheWire == part = "messages" => M!SurvivesTheWire
=============================================================================
