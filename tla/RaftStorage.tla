---------------------------- MODULE RaftStorage ----------------------------
(***************************************************************************)
(* How a server of the distributed allocation server keeps its term, its   *)
(* vote and its log in a key-value storage (PersistentState, Log and       *)
(* StorageMarshaller of libuavcan).  An operation is a sequence of writes, *)
(* each of which is read back.  A write may fail, before or after the value *)
(* was stored, and the server may die between any two of them.             *)
(***************************************************************************)
EXTENDS Integers, Sequences

CONSTANTS
  Node,      \* node IDs, each with the unique ID of its node
  MaxTerm,   \* bound on the terms
  Capacity,  \* Log::Capacity
  Nobody, None

ASSUME StorageAssumption ==
  /\ MaxTerm \in Nat /\ Capacity \in Nat \ {0}
  /\ Nobody \notin Node
  /\ None \notin Nat \cup Node \cup {Nobody}

Fields == {"term", "unique_id", "node_id"}
Heads == {"last_index", "current_term", "voted_for"}
Entry == [Fields -> (0..MaxTerm) \cup Node \cup {Nobody}]
Zero == [f \in Fields |-> IF f = "term" THEN 0 ELSE Nobody]
NewEntry(t, n) == [f \in Fields |-> IF f = "term" THEN t ELSE n]

VARIABLES
  ent,    \* ent[i][f]: what is stored as field f of the entry at index i
  head,   \* head[h]: what is stored as the last index, the term and the vote
  up,     \* "down", "boot" (in init), "ready" or "failed" (init has failed for good)
  mem,    \* the term, the vote and the log in memory
  step,   \* what is written next, or "none"
  goal,   \* what mem will be when the operation is done
  unsure  \* heads whose last write was reported as failed

storageVars == <<ent, head, up, mem, step, goal, unsure>>

Blank == [term |-> 0, vote |-> Nobody, log |-> <<>>]
Indices == 0..Capacity - 1

StorageInit ==
  /\ ent = [i \in Indices |-> [f \in Fields |-> None]]
  /\ head = [h \in Heads |-> None]
  /\ up = "down"
  /\ mem = Blank /\ goal = Blank
  /\ step = "none"
  /\ unsure = {}

-----------------------------------------------------------------------------
\* What init reads.
ReadLog == IF head["last_index"] = None THEN <<>>
           ELSE [i \in 1..head["last_index"] |-> ent[i]]
ReadTerm == IF head["current_term"] = None THEN 0 ELSE head["current_term"]
ReadVote == IF head["voted_for"] = None THEN Nobody ELSE head["voted_for"]
Restored == [term |-> ReadTerm, vote |-> ReadVote, log |-> ReadLog]

LastTerm(log) == IF log = <<>> THEN 0 ELSE log[Len(log)]["term"]

\* init accepts what it reads.
Bootable ==
  /\ head["last_index"] # None =>
       /\ head["last_index"] < Capacity
       /\ \A i \in 0..head["last_index"] : \A f \in Fields : ent[i][f] # None
  /\ head["current_term"] = None => ReadLog = <<>>
  /\ ReadTerm >= LastTerm(ReadLog)
  /\ head["voted_for"] = None => ReadLog = <<>> /\ ReadTerm = 0

\* The first thing that is not there: it and what comes after it is initialized.
FirstMissing ==
  CASE head["last_index"] = None -> "term"
    [] head["last_index"] # None /\ head["current_term"] = None -> "current_term"
    [] head["last_index"] # None /\ head["current_term"] # None
         /\ head["voted_for"] = None -> "voted_for"
    [] OTHER -> "none"

Boot ==
  /\ up = "down"
  /\ IF Bootable
     THEN /\ goal' = Restored
          /\ step' = FirstMissing
          /\ IF FirstMissing = "none" THEN up' = "ready" /\ mem' = Restored
             ELSE up' = "boot" /\ UNCHANGED mem
     ELSE up' = "failed" /\ UNCHANGED <<mem, step, goal>>
  /\ UNCHANGED <<ent, head, unsure>>

-----------------------------------------------------------------------------
\* The operations.  RaftCore appends no entry of a term newer than its own and removes
\* only entries it has.
Begin(first, new) ==
  /\ up = "ready" /\ step = "none"
  /\ step' = first
  /\ goal' = new
  /\ UNCHANGED <<ent, head, up, mem, unsure>>

append(t, n) ==
  /\ Len(mem.log) + 1 < Capacity
  /\ t <= mem.term
  /\ Begin("term", [mem EXCEPT !.log = Append(@, NewEntry(t, n))])

removeEntriesWhereIndexGreaterOrEqual(i) ==
  /\ i <= Len(mem.log)
  /\ Begin("last_index", [mem EXCEPT !.log = SubSeq(@, 1, i - 1)])

setCurrentTerm(t) == t >= mem.term /\ Begin("current_term", [mem EXCEPT !.term = t])

setVotedFor(v) == Begin("voted_for", [mem EXCEPT !.vote = v])

\* What the next write stores.
ValueOf(s) ==
  IF s \in Fields THEN IF goal.log = <<>> THEN Zero[s] ELSE goal.log[Len(goal.log)][s]
  ELSE [last_index |-> Len(goal.log), current_term |-> goal.term, voted_for |-> goal.vote][s]

StoreOver ==
  IF step \in Fields
  THEN ent' = [ent EXCEPT ![Len(mem.log)][step] = ValueOf(step)] /\ UNCHANGED head
  ELSE head' = [head EXCEPT ![step] = ValueOf(step)] /\ UNCHANGED ent

\* The entry is stored behind the last one, where no index covers it.
Store ==
  IF step \in Fields
  THEN ent' = [ent EXCEPT ![Len(goal.log)][step] = ValueOf(step)] /\ UNCHANGED head
  ELSE head' = [head EXCEPT ![step] = ValueOf(step)] /\ UNCHANGED ent

AfterIndexFirst(s) ==
  CASE s = "term" -> "last_index"
    [] s = "last_index" /\ up = "ready" -> "unique_id"
    [] s = "unique_id" -> "node_id"
    [] s = "last_index" /\ up = "boot" -> "current_term"
    [] s = "current_term" /\ up = "boot" -> "voted_for"
    [] OTHER -> "none"

\* The order of the writes: an entry before the index that makes it part of the log.
After(s) ==
  CASE s = "term" -> "unique_id"
    [] s = "unique_id" -> "node_id"
    [] s = "node_id" -> "last_index"
    [] s = "last_index" /\ up = "boot" -> "current_term"
    [] s = "current_term" /\ up = "boot" -> "voted_for"
    [] OTHER -> "none"

\* setAndGetBack.  The last write of an operation is followed by its effect in memory.
Write ==
  /\ step # "none"
  /\ Store
  /\ step' = After(step)
  /\ IF After(step) = "none" THEN mem' = goal /\ up' = "ready" ELSE UNCHANGED <<mem, up>>
  /\ unsure' = unsure \ {step}
  /\ UNCHANGED goal

\* The value that is read back is another one, or none: the operation returns an error.
\* (After a field that differs the code writes the entry's other fields first, which no
\* index covers.)
WriteFails ==
  /\ step # "none"
  /\ Store \/ UNCHANGED <<ent, head>>
  /\ step' = "none"
  /\ goal' = mem
  /\ IF up = "boot" THEN up' = "down" /\ UNCHANGED unsure
     ELSE unsure' = unsure \cup ({step} \cap Heads) /\ UNCHANGED up
  /\ UNCHANGED mem

Die ==
  /\ up \in {"boot", "ready"}
  /\ up' = "down"
  /\ mem' = Blank /\ goal' = Blank
  /\ step' = "none"
  /\ unsure' = {}
  /\ UNCHANGED <<ent, head>>

StorageNext ==
  \/ Boot
  \/ \E n \in Node : \E t \in 0..MaxTerm : append(t, n)
  \/ \E i \in 1..Capacity - 1 : removeEntriesWhereIndexGreaterOrEqual(i)
  \/ \E t \in 0..MaxTerm : setCurrentTerm(t)
  \/ \E v \in Node \cup {Nobody} : setVotedFor(v)
  \/ Write \/ WriteFails \/ Die

StorageSpec == StorageInit /\ [][StorageNext]_storageVars

-----------------------------------------------------------------------------
\* A server that dies at any point of any operation can be started again: init never
\* finds the storage damaged (current term below the last entry's, an entry missing).
InitSucceeds == up # "failed"

\* Unless a write was reported as failed, a restart finds what the server has in memory:
\* an operation that was interrupted has happened as a whole or not at all.
RestartFindsState == up = "ready" /\ unsure = {} => Restored = mem

-----------------------------------------------------------------------------
\* The inductive invariant.  What is in the storage, whether the server runs or not:
\* the keys are initialized in order, and no entry of the log has a newer term than the
\* server.
DiskSound ==
  /\ \A i \in 0..Capacity - 1 :
       /\ ent[i]["term"] \in (0..MaxTerm) \cup {None}
       /\ \A f \in {"unique_id", "node_id"} : ent[i][f] \in Node \cup {Nobody, None}
  /\ head["last_index"] \in (0..Capacity - 1) \cup {None}
  /\ head["current_term"] \in (0..MaxTerm) \cup {None}
  /\ head["voted_for"] \in Node \cup {Nobody, None}
  /\ head["last_index"] = None => head["current_term"] = None
  /\ head["current_term"] = None =>
       head["voted_for"] = None /\ head["last_index"] \in {0, None}
  /\ head["voted_for"] = None =>
       head["current_term"] \in {0, None} /\ head["last_index"] \in {0, None}
  /\ head["last_index"] # None =>
       \A i \in 0..head["last_index"] :
         /\ \A f \in Fields : ent[i][f] # None
         /\ ent[i]["term"] <= ReadTerm

\* What the storage has of a running server's state: its log in any case, the heads
\* unless their last write failed.
MemStored ==
  up = "ready" =>
    /\ mem \in [term : 0..MaxTerm, vote : Node \cup {Nobody}, log : Seq(Entry)]
    /\ Len(mem.log) < Capacity
    /\ \A h \in Heads : head[h] # None
    /\ \A f \in Fields : ent[0][f] # None
    /\ \A i \in 1..Len(mem.log) : ent[i] = mem.log[i]
    /\ head["current_term"] >= mem.term
    /\ \A i \in 0..Len(mem.log) : ent[i]["term"] <= mem.term
    /\ \A i \in 0..head["last_index"] : ent[i]["term"] <= mem.term
    /\ "last_index" \notin unsure => head["last_index"] = Len(mem.log)
    /\ "current_term" \notin unsure => head["current_term"] = mem.term
    /\ "voted_for" \notin unsure => head["voted_for"] = mem.vote

\* Where the operation is.
FieldsDone(s) ==
  CASE s = "unique_id" -> {"term"}
    [] s = "node_id" -> {"term", "unique_id"}
    [] s = "last_index" -> Fields
    [] OTHER -> {}

InOperation ==
  /\ step = "none" /\ up = "ready" => goal = mem
  /\ up = "ready" /\ step \in Fields =>
       \E n \in Node : \E t \in 0..mem.term :
         /\ Len(mem.log) + 1 < Capacity
         /\ goal = [mem EXCEPT !.log = Append(@, NewEntry(t, n))]
         /\ \A f \in FieldsDone(step) : ent[Len(mem.log) + 1][f] = NewEntry(t, n)[f]
  /\ up = "ready" /\ step = "last_index" =>
       \/ \E i \in 1..Len(mem.log) : goal = [mem EXCEPT !.log = SubSeq(@, 1, i - 1)]
       \/ \E n \in Node : \E t \in 0..mem.term :
            /\ Len(mem.log) + 1 < Capacity
            /\ goal = [mem EXCEPT !.log = Append(@, NewEntry(t, n))]
            /\ \A f \in Fields : ent[Len(mem.log) + 1][f] = NewEntry(t, n)[f]
  /\ up = "ready" /\ step = "current_term" =>
       \E t \in mem.term..MaxTerm : goal = [mem EXCEPT !.term = t]
  /\ up = "ready" /\ step = "voted_for" =>
       \E v \in Node \cup {Nobody} : goal = [mem EXCEPT !.vote = v]
  /\ up = "boot" =>
       /\ goal = Blank
       /\ step \in Fields \cup {"last_index"} =>
            /\ head["last_index"] = None
            /\ \A f \in FieldsDone(step) : ent[0][f] = Zero[f]
       /\ step = "current_term" => head["last_index"] = 0 /\ head["current_term"] = None
       /\ step = "voted_for" => /\ head["last_index"] = 0 /\ head["current_term"] = 0
                                /\ head["voted_for"] = None

StorageInv ==
  /\ ent \in [Indices -> [Fields -> (0..MaxTerm) \cup Node \cup {Nobody, None}]]
  /\ head \in [Heads -> Nat \cup Node \cup {Nobody, None}]
  /\ up \in {"down", "boot", "ready"}
  /\ step \in Fields \cup Heads \cup {"none"}
  /\ up = "down" => step = "none"
  /\ up = "boot" => step # "none"
  /\ unsure \subseteq Heads /\ (up # "ready" => unsure = {})
  /\ DiskSound /\ MemStored /\ InOperation
=============================================================================
