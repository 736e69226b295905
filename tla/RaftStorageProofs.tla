------------------------- MODULE RaftStorageProofs -------------------------
(***************************************************************************)
(* Proofs about RaftStorage, for every set of nodes and every capacity.    *)
(* StorageInv is inductive: the keys are written in an order that leaves   *)
(* every interrupted operation invisible, or done.                         *)
(***************************************************************************)
EXTENDS RaftStorage, TLAPS

USE SMTT(30), ZenonT(30)

LEMMA StorageStart == StorageInit => StorageInv
  <1> SUFFICES ASSUME StorageInit PROVE StorageInv
    OBVIOUS
  <1> USE StorageAssumption
  <1>1. DiskSound
    BY DEF StorageInit, DiskSound, Indices, Fields, Heads
  <1>2. MemStored /\ InOperation
    BY DEF StorageInit, MemStored, InOperation
  <1> QED BY <1>1, <1>2 DEF StorageInit, StorageInv, Fields, Heads

\* An index is written over entries that are all stored and are the log's.
LEMMA IndexGoal ==
  ASSUME StorageInv, up = "ready", step = "last_index"
  PROVE  /\ Len(goal.log) \in 0..Capacity - 1
         /\ \A i \in 0..Len(goal.log) : \A f \in Fields : ent[i][f] # None
         /\ \A i \in 0..Len(goal.log) : ent[i]["term"] <= mem.term
         /\ goal.term = mem.term /\ goal.vote = mem.vote /\ goal.log \in Seq(Entry)
         /\ DOMAIN goal = {"term", "vote", "log"} /\ goal = [mem EXCEPT !.log = goal.log]
         /\ \A i \in 1..Len(goal.log) : ent[i] = goal.log[i]
  <1> USE StorageAssumption
  <1>0. /\ MemStored /\ InOperation
        /\ ent \in [Indices -> [Fields -> (0..MaxTerm) \cup Node \cup {Nobody, None}]]
    BY DEF StorageInv
  <1>1. /\ mem \in [term : 0..MaxTerm, vote : Node \cup {Nobody}, log : Seq(Entry)]
        /\ mem.term \in 0..MaxTerm /\ mem.log \in Seq(Entry) /\ Len(mem.log) \in Nat
        /\ Len(mem.log) < Capacity
        /\ \A i \in 0..Len(mem.log) : ent[i]["term"] <= mem.term
        /\ \A i \in 1..Len(mem.log) : ent[i] = mem.log[i]
        /\ \A f \in Fields : ent[0][f] # None
    BY <1>0 DEF MemStored
  <1>2. \A i \in 0..Len(mem.log) : \A f \in Fields : ent[i][f] # None
    <2>1. \A i \in 1..Len(mem.log) : mem.log[i] \in Entry
      BY <1>1
    <2>2. \A e \in Entry : \A f \in Fields : e[f] # None
      BY DEF Entry
    <2>3. \A i \in 0..Len(mem.log) : i = 0 \/ i \in 1..Len(mem.log)
      BY <1>1
    <2> QED BY ZenonT(30), <1>1, <2>1, <2>2, <2>3
  <1>3. CASE \E i \in 1..Len(mem.log) : goal = [mem EXCEPT !.log = SubSeq(@, 1, i - 1)]
    <2>1. PICK i \in 1..Len(mem.log) : goal = [mem EXCEPT !.log = SubSeq(@, 1, i - 1)]
      BY <1>3
    <2>2. goal.log = SubSeq(mem.log, 1, i - 1) /\ goal = [mem EXCEPT !.log = goal.log]
          /\ goal.term = mem.term /\ goal.vote = mem.vote
          /\ DOMAIN goal = {"term", "vote", "log"}
      BY <1>1, <2>1
    <2>3. Len(goal.log) = i - 1 /\ goal.log \in Seq(Entry)
          /\ \A j \in 1..Len(goal.log) : goal.log[j] = mem.log[j]
      BY <1>1, <2>2
    <2>4. /\ Len(goal.log) \in 0..Capacity - 1
          /\ \A j \in 0..Len(goal.log) : j \in 0..Len(mem.log)
          /\ \A j \in 1..Len(goal.log) : j \in 1..Len(mem.log)
      BY <1>1, <2>3
    <2> QED BY ZenonT(30), <1>1, <1>2, <2>2, <2>3, <2>4
  <1>4. ASSUME NEW n \in Node, NEW t \in 0..mem.term,
               Len(mem.log) + 1 < Capacity,
               goal = [mem EXCEPT !.log = Append(@, NewEntry(t, n))],
               \A f \in Fields : ent[Len(mem.log) + 1][f] = NewEntry(t, n)[f]
        PROVE  /\ Len(goal.log) \in 0..Capacity - 1
               /\ \A i \in 0..Len(goal.log) : \A f \in Fields : ent[i][f] # None
               /\ \A i \in 0..Len(goal.log) : ent[i]["term"] <= mem.term
               /\ goal.term = mem.term /\ goal.vote = mem.vote /\ goal.log \in Seq(Entry)
               /\ DOMAIN goal = {"term", "vote", "log"} /\ goal = [mem EXCEPT !.log = goal.log]
               /\ \A i \in 1..Len(goal.log) : ent[i] = goal.log[i]
    <2> DEFINE k == Len(mem.log) + 1
    <2>0. NewEntry(t, n) \in Entry /\ \A f \in Fields : NewEntry(t, n)[f] # None
      BY <1>1 DEF NewEntry, Entry
    <2>1. goal.log = Append(mem.log, NewEntry(t, n)) /\ goal = [mem EXCEPT !.log = goal.log]
          /\ goal.term = mem.term /\ goal.vote = mem.vote
          /\ DOMAIN goal = {"term", "vote", "log"}
      BY <1>1, <1>4
    <2>2. Len(goal.log) = k /\ goal.log \in Seq(Entry) /\ goal.log[k] = NewEntry(t, n)
          /\ \A j \in 1..Len(mem.log) : goal.log[j] = mem.log[j]
      BY <1>1, <2>0, <2>1
    <2>3. k \in Indices /\ ent[k] = NewEntry(t, n)
      <3>1. k \in Indices
        BY <1>1, <1>4 DEF Indices
      <3> QED BY <1>0, <1>4, <3>1 DEF NewEntry
    <2>4. ent[k]["term"] <= mem.term
      BY <1>1, <2>3 DEF NewEntry, Fields
    <2>5. /\ k \in 0..Capacity - 1
          /\ \A j \in 0..k : j \in 0..Len(mem.log) \/ j = k
          /\ \A j \in 1..k : j \in 1..Len(mem.log) \/ j = k
      BY <1>1, <1>4
    <2>6. \A f \in Fields : ent[k][f] # None
      BY <2>0, <2>3
    <2> HIDE DEF k
    <2> QED BY ZenonT(30), <1>1, <1>2, <2>1, <2>2, <2>3, <2>4, <2>5, <2>6
  <1> QED BY <1>0, <1>3, <1>4 DEF InOperation

\* The write of an operation, whether it is reported as done or not: the storage stays
\* sound.
LEMMA StoreDisk ==
  ASSUME StorageInv, step # "none", Store
  PROVE  /\ DiskSound'
         /\ ent' \in [Indices -> [Fields -> (0..MaxTerm) \cup Node \cup {Nobody, None}]]
         /\ head' \in [Heads -> Nat \cup Node \cup {Nobody, None}]
  <1> USE StorageAssumption
  <1>0. /\ DiskSound /\ MemStored /\ InOperation
        /\ ent \in [Indices -> [Fields -> (0..MaxTerm) \cup Node \cup {Nobody, None}]]
        /\ head \in [Heads -> Nat \cup Node \cup {Nobody, None}]
        /\ step \in Fields \cup Heads /\ up \in {"boot", "ready"}
    BY DEF StorageInv
  <1>1. CASE up = "ready" /\ step \in Fields
    <2>1. PICK n \in Node, t \in 0..mem.term :
               /\ Len(mem.log) + 1 < Capacity
               /\ goal = [mem EXCEPT !.log = Append(@, NewEntry(t, n))]
      BY <1>0, <1>1 DEF InOperation
    <2>2. /\ mem.term \in 0..MaxTerm /\ mem.log \in Seq(Entry) /\ Len(mem.log) \in Nat
          /\ goal.log = Append(mem.log, NewEntry(t, n))
      BY <1>0, <1>1, <2>1 DEF MemStored
    <2>3. /\ Len(goal.log) = Len(mem.log) + 1 /\ goal.log # <<>>
          /\ goal.log[Len(goal.log)] = NewEntry(t, n)
      BY <2>2
    <2>4. ValueOf(step) = NewEntry(t, n)[step]
      BY <1>1, <2>3 DEF ValueOf
    <2> DEFINE k == Len(mem.log) + 1
    <2> DEFINE v == NewEntry(t, n)[step]
    <2>5. /\ k \in Indices /\ head' = head
          /\ ent' = [ent EXCEPT ![k][step] = v]
      BY <1>1, <2>1, <2>2, <2>3, <2>4 DEF Store, Indices
    <2>6. /\ v # None
          /\ step = "term" => v = t
          /\ step # "term" => v \in Node
          /\ t \in 0..MaxTerm
      BY <1>1, <2>2 DEF NewEntry
    <2>7. \A i \in Indices : \A f \in Fields :
            ent'[i][f] = IF i = k /\ f = step THEN v ELSE ent[i][f]
      BY <1>0, <1>1, <2>5
    <2> HIDE DEF k, v
    <2>8. head["current_term"] # None /\ t <= head["current_term"]
      BY <1>0, <1>1, <2>2 DEF MemStored, DiskSound, Heads
    <2>9. DiskSound'
      BY <1>0, <1>1, <2>5, <2>6, <2>7, <2>8 DEF DiskSound, ReadTerm, Indices, Fields
    <2> QED BY <1>0, <1>1, <2>5, <2>6, <2>7, <2>9
  <1>2. CASE up = "ready" /\ step = "last_index"
    <2>1. /\ mem.term \in 0..MaxTerm /\ mem.log \in Seq(Entry) /\ Len(mem.log) \in Nat
          /\ Len(mem.log) < Capacity
          /\ head["current_term"] # None /\ head["current_term"] \in 0..MaxTerm
          /\ mem.term <= head["current_term"]
          /\ head["voted_for"] # None
          /\ \A i \in 0..Len(mem.log) : ent[i]["term"] <= mem.term
      BY <1>0, <1>2 DEF MemStored, DiskSound, Heads
    <2> DEFINE k == Len(goal.log)
    <2>3. /\ k \in 0..Capacity - 1
          /\ \A i \in 0..k : \A f \in Fields : ent[i][f] # None
          /\ \A i \in 0..k : ent[i]["term"] <= mem.term
      BY <1>2, IndexGoal
    <2>4. ent' = ent /\ head' = [head EXCEPT !["last_index"] = k]
      BY <1>2 DEF Store, ValueOf, Fields
    <2> HIDE DEF k
    <2>5. /\ head'["last_index"] = k
          /\ head'["current_term"] = head["current_term"]
          /\ head'["voted_for"] = head["voted_for"]
      BY <1>0, <2>4 DEF Heads
    <2>6. \A i \in 0..k : ent[i]["term"] <= head["current_term"]
      <3>1. \A i \in 0..k : ent[i]["term"] \in 0..MaxTerm
        BY <1>0, <2>3 DEF DiskSound, Fields
      <3> QED BY <2>1, <2>3, <3>1
    <2>7. ReadTerm' = head["current_term"]
      BY <2>1, <2>5 DEF ReadTerm
    <2>8. k \in Nat /\ k # None
      BY <2>3
    <2>9. DiskSound'
      BY ZenonT(30), <1>0, <2>1, <2>3, <2>4, <2>5, <2>6, <2>7, <2>8 DEF DiskSound
    <2> QED BY <1>0, <2>4, <2>8, <2>9
  <1>3. CASE up = "ready" /\ step \in {"current_term", "voted_for"}
    <2>1. /\ mem.term \in 0..MaxTerm /\ goal.term \in mem.term..MaxTerm
          /\ mem.vote \in Node \cup {Nobody} /\ goal.vote \in Node \cup {Nobody}
          /\ \A h \in Heads : head[h] # None
          /\ \A i \in 0..head["last_index"] : ent[i]["term"] <= mem.term
      BY <1>0, <1>3 DEF InOperation, MemStored
    <2>2. ent' = ent /\ head' = [head EXCEPT ![step] =
                                  IF step = "current_term" THEN goal.term ELSE goal.vote]
      BY <1>3 DEF Store, ValueOf, Fields
    <2>3. /\ head'["last_index"] = head["last_index"]
          /\ head'["current_term"] = IF step = "current_term" THEN goal.term ELSE head["current_term"]
          /\ head'["voted_for"] = IF step = "voted_for" THEN goal.vote ELSE head["voted_for"]
      BY <1>0, <1>3, <2>2 DEF Heads
    <2>4. head["last_index"] \in 0..Capacity - 1 /\ head["current_term"] \in 0..MaxTerm
      BY <1>0, <2>1 DEF DiskSound, Heads
    <2>5. \A i \in 0..head["last_index"] : ent[i]["term"] \in 0..MaxTerm
      BY <1>0, <2>4 DEF DiskSound, Fields
    <2>6. \A i \in 0..head["last_index"] : ent[i]["term"] <= head'["current_term"]
      BY <1>0, <2>1, <2>3, <2>4, <2>5 DEF DiskSound, ReadTerm
    <2>7. head'["current_term"] \in 0..MaxTerm /\ head'["current_term"] # None
          /\ head'["voted_for"] \in Node \cup {Nobody} /\ head'["voted_for"] # None
      BY <1>0, <2>1, <2>3, <2>4 DEF DiskSound, Heads
    <2>8. DiskSound'
      BY ZenonT(30), <1>0, <2>2, <2>3, <2>4, <2>6, <2>7 DEF DiskSound, ReadTerm
    <2>9. goal.term \in Nat
      BY <2>1
    <2> QED BY <1>0, <1>3, <2>1, <2>2, <2>8, <2>9
  <1>4. CASE up = "boot"
    <2>0. goal.log = <<>> /\ goal.term = 0 /\ goal.vote = Nobody /\ Len(goal.log) = 0
      BY <1>0, <1>4 DEF InOperation, Blank
    <2>1. CASE step \in Fields
      <3>1. ent' = [ent EXCEPT ![0][step] = Zero[step]] /\ head' = head
            /\ head["last_index"] = None
        BY <1>0, <1>4, <2>0, <2>1 DEF Store, ValueOf, InOperation
      <3>2. 0 \in Indices /\ Zero[step] # None
            /\ (step = "term" => Zero[step] = 0) /\ (step # "term" => Zero[step] = Nobody)
        BY <2>1 DEF Indices, Zero, Fields
      <3>3. \A i \in Indices : \A f \in Fields :
              ent'[i][f] = IF i = 0 /\ f = step THEN Zero[step] ELSE ent[i][f]
        BY <1>0, <2>1, <3>1, <3>2
      <3>4. DiskSound'
        BY <1>0, <3>1, <3>2, <3>3 DEF DiskSound, Indices, Fields
      <3> QED BY <1>0, <2>1, <3>1, <3>2, <3>3, <3>4
    <2>2. CASE step \in Heads
      <3>1. /\ ent' = ent
            /\ head' = [head EXCEPT ![step] = IF step = "voted_for" THEN Nobody ELSE 0]
        BY <2>0, <2>2 DEF Store, ValueOf, Fields, Heads
      <3>2. \A h \in Heads : head'[h] = IF h # step THEN head[h]
                                         ELSE IF h = "voted_for" THEN Nobody ELSE 0
        BY <1>0, <2>2, <3>1
      <3>3. step = "last_index" =>
              head["last_index"] = None /\ ent[0]["term"] = 0 /\ \A f \in Fields : ent[0][f] # None
        <4> SUFFICES ASSUME step = "last_index"
                     PROVE  head["last_index"] = None /\ ent[0]["term"] = 0
                            /\ \A f \in Fields : ent[0][f] # None
          OBVIOUS
        <4>1. FieldsDone(step) = Fields
          BY DEF FieldsDone
        <4>2. head["last_index"] = None /\ \A f \in Fields : ent[0][f] = Zero[f]
          BY <1>0, <1>4, <4>1 DEF InOperation
        <4> QED BY <4>2 DEF Zero, Fields
      <3>4. (step = "current_term" => head["last_index"] = 0 /\ head["current_term"] = None)
            /\ (step = "voted_for" => head["last_index"] = 0 /\ head["current_term"] = 0)
        BY <1>0, <1>4 DEF InOperation
      <3>5. DiskSound'
        BY <1>0, <2>2, <3>1, <3>2, <3>3, <3>4 DEF DiskSound, ReadTerm, Heads
      <3> QED BY <1>0, <2>2, <3>1, <3>5
    <2> QED BY <1>0, <2>1, <2>2
  <1> QED BY <1>0, <1>1, <1>2, <1>3, <1>4 DEF Heads

\* A field of a new entry is written behind the log.
LEMMA FieldWrite ==
  ASSUME StorageInv, up = "ready", step \in Fields, Store
  PROVE  /\ head' = head
         /\ Len(mem.log) \in Nat /\ Len(mem.log) + 1 \in Indices
         /\ \A i \in Indices \ {Len(mem.log) + 1} : ent'[i] = ent[i]
         /\ step = "term" => ent'[Len(mem.log) + 1]["term"] <= mem.term
         /\ step # "term" => ent'[Len(mem.log) + 1]["term"] = ent[Len(mem.log) + 1]["term"]
         /\ \E n \in Node : \E t \in 0..mem.term :
              /\ goal = [mem EXCEPT !.log = Append(@, NewEntry(t, n))]
              /\ ent'[Len(mem.log) + 1][step] = NewEntry(t, n)[step]
              /\ \A f \in FieldsDone(step) : ent'[Len(mem.log) + 1][f] = NewEntry(t, n)[f]
  <1> USE StorageAssumption
  <1>0. /\ MemStored /\ InOperation
        /\ ent \in [Indices -> [Fields -> (0..MaxTerm) \cup Node \cup {Nobody, None}]]
    BY DEF StorageInv
  <1>1. PICK n \in Node, t \in 0..mem.term :
             /\ Len(mem.log) + 1 < Capacity
             /\ goal = [mem EXCEPT !.log = Append(@, NewEntry(t, n))]
             /\ \A f \in FieldsDone(step) : ent[Len(mem.log) + 1][f] = NewEntry(t, n)[f]
    BY <1>0 DEF InOperation
  <1>2. /\ mem.term \in 0..MaxTerm /\ mem.log \in Seq(Entry) /\ Len(mem.log) \in Nat
        /\ goal.log = Append(mem.log, NewEntry(t, n))
    BY <1>0, <1>1 DEF MemStored
  <1>3. /\ Len(goal.log) = Len(mem.log) + 1 /\ goal.log # <<>>
        /\ goal.log[Len(goal.log)] = NewEntry(t, n)
    BY <1>2
  <1>4. /\ head' = head /\ Len(mem.log) + 1 \in Indices
        /\ ent' = [ent EXCEPT ![Len(mem.log) + 1][step] = NewEntry(t, n)[step]]
    <2>1. Len(mem.log) + 1 \in Indices
      BY <1>1, <1>2 DEF Indices
    <2>2. ValueOf(step) = NewEntry(t, n)[step]
      BY <1>3 DEF ValueOf
    <2>3. head' = head /\ ent' = [ent EXCEPT ![Len(goal.log)][step] = ValueOf(step)]
      BY DEF Store
    <2> QED BY <1>3, <2>1, <2>2, <2>3
  <1>5. /\ \A i \in Indices \ {Len(mem.log) + 1} : ent'[i] = ent[i]
        /\ \A f \in Fields : ent'[Len(mem.log) + 1][f] =
             IF f = step THEN NewEntry(t, n)[step] ELSE ent[Len(mem.log) + 1][f]
    BY <1>0, <1>4
  <1>6. /\ step = "term" => ent'[Len(mem.log) + 1]["term"] <= mem.term
        /\ step # "term" => ent'[Len(mem.log) + 1]["term"] = ent[Len(mem.log) + 1]["term"]
    BY <1>1, <1>2, <1>5 DEF NewEntry, Fields
  <1>7. FieldsDone(step) \subseteq Fields
    BY DEF FieldsDone, Fields
  <1>8. /\ ent'[Len(mem.log) + 1][step] = NewEntry(t, n)[step]
        /\ \A f \in FieldsDone(step) : ent'[Len(mem.log) + 1][f] = NewEntry(t, n)[f]
    BY <1>1, <1>5, <1>7
  <1> QED BY <1>1, <1>2, <1>4, <1>5, <1>6, <1>8

\* A write that is reported as failed leaves the storage with what is in memory.
LEMMA StoreMem ==
  ASSUME StorageInv, up = "ready", step # "none", Store,
         up' = up, mem' = mem, unsure' = unsure \cup ({step} \cap Heads)
  PROVE  MemStored'
  <1> USE StorageAssumption
  <1>0. /\ DiskSound /\ MemStored /\ InOperation
        /\ ent \in [Indices -> [Fields -> (0..MaxTerm) \cup Node \cup {Nobody, None}]]
        /\ head \in [Heads -> Nat \cup Node \cup {Nobody, None}]
        /\ step \in Fields \cup Heads
    BY DEF StorageInv
  <1>1. CASE step \in Fields
    <2> DEFINE k == Len(mem.log) + 1
    <2>1. /\ head' = head /\ Len(mem.log) \in Nat /\ k \in Indices
          /\ \A i \in Indices \ {k} : ent'[i] = ent[i]
          /\ step = "term" => ent'[k]["term"] <= mem.term
          /\ step # "term" => ent'[k]["term"] = ent[k]["term"]
      BY <1>1, FieldWrite
    <2>2. \A i \in 0..Len(mem.log) : i \in Indices \ {k}
      BY <2>1 DEF Indices
    <2>3. unsure' = unsure /\ head["last_index"] \in Indices
      BY <1>0, <1>1 DEF Fields, Heads, DiskSound, MemStored, Indices
    <2>4. \A i \in 0..head["last_index"] : i \in Indices
      BY <2>3 DEF Indices
    <2> HIDE DEF k
    <2>5. \A i \in 0..head["last_index"] : ent'[i]["term"] <= mem.term
      BY ZenonT(30), <1>0, <2>1, <2>4 DEF MemStored
    <2>6. \A i \in 0..Len(mem.log) : ent'[i] = ent[i]
      BY <2>1, <2>2
    <2>7. 0 \in 0..Len(mem.log) /\ \A i \in 1..Len(mem.log) : i \in 0..Len(mem.log)
      BY <2>1
    <2> QED BY ZenonT(30), <1>0, <2>1, <2>3, <2>5, <2>6, <2>7 DEF MemStored
  <1>2. CASE step \in Heads
    <2> DEFINE v == ValueOf(step)
    <2>1. ent' = ent /\ head' = [head EXCEPT ![step] = v] /\ unsure' = unsure \cup {step}
      BY <1>2 DEF Store, Fields, Heads
    <2> HIDE DEF v
    <2>2. \A h \in Heads : head'[h] = IF h = step THEN v ELSE head[h]
      BY <1>0, <2>1
    <2>3. /\ v # None
          /\ step = "last_index" => \A i \in 0..v : ent[i]["term"] <= mem.term
          /\ step = "current_term" => v >= mem.term
      <3>1. CASE step = "last_index"
        <4>1. v = Len(goal.log)
          BY <3>1 DEF v, ValueOf, Fields
        <4>2. Len(goal.log) \in Nat
          BY <3>1, IndexGoal
        <4> QED BY <3>1, <4>1, <4>2, IndexGoal
      <3>2. CASE step = "current_term"
        <4>1. goal.term \in mem.term..MaxTerm /\ mem.term \in 0..MaxTerm
          BY <1>0, <3>2 DEF InOperation, MemStored
        <4>2. v = goal.term
          BY <3>2 DEF v, ValueOf, Fields
        <4> QED BY <3>2, <4>1, <4>2
      <3>3. CASE step = "voted_for"
        <4>1. goal.vote \in Node \cup {Nobody}
          BY <1>0, <3>3 DEF InOperation, MemStored
        <4>2. v = goal.vote
          BY <3>3 DEF v, ValueOf, Fields
        <4> QED BY <3>3, <4>1, <4>2
      <3> QED BY <1>2, <3>1, <3>2, <3>3 DEF Heads
    <2>4. \A h \in Heads : h \notin unsure' => h \notin unsure /\ head'[h] = head[h]
      BY <2>1, <2>2
    <2>5. {"last_index", "current_term", "voted_for"} = Heads
      BY DEF Heads
    <2>6. \A h \in Heads : head'[h] # None
      BY <1>0, <2>2, <2>3 DEF MemStored
    <2>7. head'["current_term"] >= mem.term
      BY <1>0, <2>2, <2>3, <2>5 DEF MemStored
    <2>8. \A i \in 0..head'["last_index"] : ent[i]["term"] <= mem.term
      BY ZenonT(30), <1>0, <2>2, <2>3, <2>5 DEF MemStored
    <2> QED BY ZenonT(30), <1>0, <2>1, <2>4, <2>5, <2>6, <2>7, <2>8 DEF MemStored
  <1> QED BY <1>0, <1>1, <1>2

\* What init reads back from a sound storage is a state a server can have.
LEMMA ReadBack ==
  ASSUME StorageInv
  PROVE  /\ ReadTerm \in 0..MaxTerm /\ ReadVote \in Node \cup {Nobody}
         /\ ReadLog \in Seq(Entry) /\ Len(ReadLog) \in 0..Capacity - 1
         /\ head["last_index"] # None => Len(ReadLog) = head["last_index"]
         /\ head["last_index"] \in {0, None} => ReadLog = <<>>
         /\ \A i \in 1..Len(ReadLog) : ReadLog[i] = ent[i] /\ ent[i]["term"] <= ReadTerm
  <1> USE StorageAssumption
  <1>0. /\ DiskSound
        /\ ent \in [Indices -> [Fields -> (0..MaxTerm) \cup Node \cup {Nobody, None}]]
    BY DEF StorageInv
  <1>1. ReadTerm \in 0..MaxTerm /\ ReadVote \in Node \cup {Nobody}
    BY <1>0 DEF DiskSound, ReadTerm, ReadVote
  <1>2. CASE head["last_index"] = None
    <2>1. ReadLog = <<>>
      BY <1>2 DEF ReadLog
    <2> QED BY <1>1, <1>2, <2>1
  <1>3. CASE head["last_index"] # None
    <2> DEFINE k == head["last_index"]
    <2>1. k \in 0..Capacity - 1 /\ k \in Nat
      BY <1>0, <1>3 DEF DiskSound
    <2>2. \A i \in 0..k : i \in Indices /\ ent[i]["term"] <= ReadTerm
                          /\ \A f \in Fields : ent[i][f] # None
      BY <1>0, <1>3, <2>1 DEF DiskSound, Indices
    <2>3. \A i \in 1..k : ent[i] \in Entry /\ ent[i]["term"] <= ReadTerm
      <3> TAKE i \in 1..k
      <3>1. i \in 0..k
        BY <2>1
      <3>2. ent[i] \in [Fields -> (0..MaxTerm) \cup Node \cup {Nobody, None}]
        BY <1>0, <2>2, <3>1
      <3> QED BY <2>2, <3>1, <3>2 DEF Entry
    <2>4. ReadLog = [i \in 1..k |-> ent[i]]
      BY <1>3 DEF ReadLog
    <2> HIDE DEF k
    <2>5. ReadLog \in Seq(Entry) /\ Len(ReadLog) = k
      BY <2>1, <2>3, <2>4
    <2>6. \A i \in 1..k : ReadLog[i] = ent[i]
      BY <2>4
    <2>7. k = 0 => ReadLog = <<>>
      BY <2>5
    <2> QED BY <1>1, <1>3, <2>1, <2>3, <2>5, <2>6, <2>7 DEF k
  <1> QED BY <1>2, <1>3

LEMMA BootStep ==
  ASSUME StorageInv, Boot
  PROVE  StorageInv'
  <1> USE StorageAssumption
  <1>0. /\ DiskSound /\ unsure = {} /\ up = "down" /\ step = "none"
        /\ ent \in [Indices -> [Fields -> (0..MaxTerm) \cup Node \cup {Nobody, None}]]
        /\ head \in [Heads -> Nat \cup Node \cup {Nobody, None}]
        /\ ent' = ent /\ head' = head /\ unsure' = unsure
    BY DEF StorageInv, Boot
  <1>1. DiskSound'
    BY <1>0 DEF DiskSound, ReadTerm
  <1>2. Bootable
    <2>1. ReadTerm >= LastTerm(ReadLog)
      BY ReadBack DEF LastTerm
    <2>2. /\ head["current_term"] = None => ReadLog = <<>>
          /\ head["voted_for"] = None => ReadLog = <<>> /\ ReadTerm = 0
      BY <1>0, ReadBack DEF DiskSound, ReadTerm
    <2>3. head["last_index"] # None =>
            /\ head["last_index"] < Capacity
            /\ \A i \in 0..head["last_index"] : \A f \in Fields : ent[i][f] # None
      BY <1>0 DEF DiskSound
    <2> QED BY <2>1, <2>2, <2>3 DEF Bootable
  <1>3. goal' = Restored /\ step' = FirstMissing
        /\ IF FirstMissing = "none" THEN up' = "ready" /\ mem' = Restored
           ELSE up' = "boot" /\ UNCHANGED mem
    BY <1>2 DEF Boot
  <1>4. CASE FirstMissing = "none"
    <2>1. \A h \in Heads : head[h] # None
      BY <1>4 DEF FirstMissing, Heads
    <2>2. /\ head["last_index"] = Len(ReadLog) /\ head["current_term"] = ReadTerm
          /\ head["voted_for"] = ReadVote /\ ReadTerm \in 0..MaxTerm
          /\ head["last_index"] \in 0..Capacity - 1
      BY <1>0, <2>1, ReadBack DEF ReadTerm, ReadVote, Heads, DiskSound
    <2>3. /\ \A i \in 0..head["last_index"] : ent[i]["term"] <= ReadTerm
          /\ \A f \in Fields : ent[0][f] # None
      BY <1>0, <2>1, <2>2 DEF DiskSound, Heads
    <2>4. mem' = [term |-> ReadTerm, vote |-> ReadVote, log |-> ReadLog] /\ goal' = mem'
          /\ up' = "ready" /\ step' = "none"
      BY <1>3, <1>4 DEF Restored
    <2>5. mem'.term = ReadTerm /\ mem'.vote = ReadVote /\ mem'.log = ReadLog
          /\ mem' \in [term : 0..MaxTerm, vote : Node \cup {Nobody}, log : Seq(Entry)]
      BY <2>4, ReadBack
    <2>6. Len(ReadLog) < Capacity /\ ReadTerm >= ReadTerm
          /\ \A i \in 1..Len(ReadLog) : ent[i] = ReadLog[i]
      BY <2>2, ReadBack
    <2>7. MemStored'
      BY ZenonT(30), <1>0, <2>1, <2>2, <2>3, <2>5, <2>6 DEF MemStored
    <2>8. InOperation'
      BY <2>4 DEF InOperation, Fields
    <2> QED BY <1>0, <1>1, <2>4, <2>7, <2>8 DEF StorageInv
  <1>5. CASE FirstMissing # "none"
    <2>1. \/ FirstMissing = "term" /\ head["last_index"] = None
          \/ /\ FirstMissing = "current_term" /\ head["last_index"] # None
             /\ head["current_term"] = None
          \/ /\ FirstMissing = "voted_for" /\ head["last_index"] # None
             /\ head["current_term"] # None /\ head["voted_for"] = None
      BY <1>5 DEF FirstMissing
    <2>2. /\ FirstMissing = "current_term" => head["last_index"] = 0
          /\ FirstMissing = "voted_for" => head["last_index"] = 0 /\ head["current_term"] = 0
          /\ head["last_index"] \in {0, None} /\ head["current_term"] \in {0, None}
          /\ head["voted_for"] = None
      BY <1>0, <2>1 DEF DiskSound
    <2>3. ReadLog = <<>> /\ ReadTerm = 0 /\ ReadVote = Nobody
      BY <2>2, ReadBack DEF ReadTerm, ReadVote
    <2>4. goal' = Blank /\ up' = "boot"
      BY <1>3, <1>5, <2>3 DEF Restored, Blank
    <2>5. MemStored'
      BY <2>4 DEF MemStored
    <2>6. InOperation'
      BY <1>0, <1>3, <2>1, <2>2, <2>4 DEF InOperation, FieldsDone, Fields
    <2> QED BY <1>0, <1>1, <1>3, <1>5, <2>1, <2>4, <2>5, <2>6 DEF StorageInv, Fields, Heads
  <1> QED BY <1>4, <1>5

\* An operation begins: nothing is written yet.
LEMMA BeginStep ==
  ASSUME StorageInv, up = "ready", InOperation', step' \in Fields \cup Heads,
         UNCHANGED <<ent, head, up, mem, unsure>>
  PROVE  StorageInv'
  <1>1. DiskSound'
    BY DEF StorageInv, DiskSound, ReadTerm
  <1>2. MemStored'
    BY DEF StorageInv, MemStored
  <1> QED BY <1>1, <1>2 DEF StorageInv, Fields, Heads

LEMMA OperationStep ==
  ASSUME StorageInv,
         \/ \E n \in Node : \E t \in 0..MaxTerm : append(t, n)
         \/ \E i \in 1..Capacity - 1 : removeEntriesWhereIndexGreaterOrEqual(i)
         \/ \E t \in 0..MaxTerm : setCurrentTerm(t)
         \/ \E v \in Node \cup {Nobody} : setVotedFor(v)
  PROVE  StorageInv'
  <1> USE StorageAssumption
  <1>1. ASSUME NEW n \in Node, NEW t \in 0..MaxTerm, append(t, n) PROVE StorageInv'
    <2>1. /\ up = "ready" /\ step' = "term" /\ UNCHANGED <<ent, head, up, mem, unsure>>
          /\ Len(mem.log) + 1 < Capacity /\ t <= mem.term
          /\ goal' = [mem EXCEPT !.log = Append(@, NewEntry(t, n))]
      BY <1>1 DEF append, Begin
    <2>2. t \in 0..mem.term
      BY <2>1 DEF StorageInv, MemStored
    <2>3. FieldsDone("term") = {}
      BY DEF FieldsDone
    <2>4. InOperation'
      BY ZenonT(30), <2>1, <2>2, <2>3 DEF InOperation
    <2> QED BY <2>1, <2>4, BeginStep DEF Fields
  <1>2. ASSUME NEW i \in 1..Capacity - 1, removeEntriesWhereIndexGreaterOrEqual(i)
        PROVE  StorageInv'
    <2>1. /\ up = "ready" /\ step' = "last_index" /\ UNCHANGED <<ent, head, up, mem, unsure>>
          /\ i <= Len(mem.log)
          /\ goal' = [mem EXCEPT !.log = SubSeq(@, 1, i - 1)]
      BY <1>2 DEF removeEntriesWhereIndexGreaterOrEqual, Begin
    <2>2. i \in 1..Len(mem.log)
      BY <2>1 DEF StorageInv, MemStored
    <2>3. "last_index" \notin Fields
      BY DEF Fields
    <2>4. InOperation'
      BY ZenonT(30), <2>1, <2>2, <2>3 DEF InOperation
    <2> QED BY <2>1, <2>4, BeginStep DEF Heads
  <1>3. ASSUME NEW t \in 0..MaxTerm, setCurrentTerm(t) PROVE StorageInv'
    <2>1. /\ up = "ready" /\ step' = "current_term" /\ UNCHANGED <<ent, head, up, mem, unsure>>
          /\ t >= mem.term /\ goal' = [mem EXCEPT !.term = t]
      BY <1>3 DEF setCurrentTerm, Begin
    <2>2. t \in mem.term..MaxTerm
      BY <2>1 DEF StorageInv, MemStored
    <2>3. "current_term" \notin Fields
      BY DEF Fields
    <2>4. InOperation'
      BY ZenonT(30), <2>1, <2>2, <2>3 DEF InOperation
    <2> QED BY <2>1, <2>4, BeginStep DEF Heads
  <1>4. ASSUME NEW v \in Node \cup {Nobody}, setVotedFor(v) PROVE StorageInv'
    <2>1. /\ up = "ready" /\ step' = "voted_for" /\ UNCHANGED <<ent, head, up, mem, unsure>>
          /\ goal' = [mem EXCEPT !.vote = v]
      BY <1>4 DEF setVotedFor, Begin
    <2>2. "voted_for" \notin Fields
      BY DEF Fields
    <2>3. InOperation'
      BY ZenonT(30), <2>1, <2>2 DEF InOperation
    <2> QED BY <2>1, <2>3, BeginStep DEF Heads
  <1> QED BY <1>1, <1>2, <1>3, <1>4

LEMMA WriteFailsStep ==
  ASSUME StorageInv, WriteFails
  PROVE  StorageInv'
  <1> USE StorageAssumption
  <1>0. /\ step # "none" /\ step' = "none" /\ goal' = mem /\ mem' = mem
        /\ step \in Fields \cup Heads /\ up \in {"boot", "ready"}
        /\ unsure \subseteq Heads /\ (up # "ready" => unsure = {})
        /\ ent \in [Indices -> [Fields -> (0..MaxTerm) \cup Node \cup {Nobody, None}]]
        /\ head \in [Heads -> Nat \cup Node \cup {Nobody, None}]
    BY DEF StorageInv, WriteFails
  <1>1. /\ DiskSound'
        /\ ent' \in [Indices -> [Fields -> (0..MaxTerm) \cup Node \cup {Nobody, None}]]
        /\ head' \in [Heads -> Nat \cup Node \cup {Nobody, None}]
    <2>1. CASE Store
      BY <1>0, <2>1, StoreDisk
    <2>2. CASE UNCHANGED <<ent, head>>
      BY <1>0, <2>2 DEF StorageInv, DiskSound, ReadTerm
    <2> QED BY <2>1, <2>2 DEF WriteFails
  <1>2. CASE up = "boot"
    <2>1. up' = "down" /\ unsure' = unsure
      BY <1>2 DEF WriteFails
    <2> QED BY <1>0, <1>1, <1>2, <2>1 DEF StorageInv, MemStored, InOperation, Fields
  <1>3. CASE up = "ready"
    <2>1. up' = up /\ unsure' = unsure \cup ({step} \cap Heads)
      BY <1>3 DEF WriteFails
    <2>2. MemStored'
      <3>1. CASE Store
        BY <1>0, <1>3, <2>1, <3>1, StoreMem
      <3>2. CASE UNCHANGED <<ent, head>>
        BY <1>0, <2>1, <3>2 DEF StorageInv, MemStored
      <3> QED BY <3>1, <3>2 DEF WriteFails
    <2>3. InOperation'
      BY <1>0, <1>3, <2>1 DEF InOperation, Fields
    <2> QED BY <1>0, <1>1, <1>3, <2>1, <2>2, <2>3 DEF StorageInv
  <1> QED BY <1>0, <1>2, <1>3

LEMMA DieStep ==
  ASSUME StorageInv, Die
  PROVE  StorageInv'
  <1>1. DiskSound'
    BY DEF StorageInv, Die, DiskSound, ReadTerm
  <1>2. MemStored' /\ InOperation'
    BY DEF Die, MemStored, InOperation
  <1> QED BY <1>1, <1>2 DEF StorageInv, Die

\* A field of a new entry is written: the operation goes on.
LEMMA WriteField ==
  ASSUME StorageInv, Write, up = "ready", step \in Fields
  PROVE  StorageInv'
  <1> USE StorageAssumption
  <1> DEFINE k == Len(mem.log) + 1
  <1>0. /\ Store /\ step # "none" /\ goal' = goal /\ unsure \subseteq Heads
        /\ step' = After(step) /\ unsure' = unsure \ {step}
    BY DEF StorageInv, Write, Fields
  <1>1. /\ step' \in {"unique_id", "node_id", "last_index"}
        /\ FieldsDone(step') = FieldsDone(step) \cup {step}
        /\ step' \in Fields \/ step' = "last_index"
        /\ step' = "last_index" => FieldsDone(step') = Fields
    BY <1>0 DEF After, Fields, FieldsDone
  <1>2. mem' = mem /\ up' = up
    BY <1>0, <1>1 DEF Write
  <1>3. unsure' = unsure /\ {step} \cap Heads = {}
    BY <1>0 DEF Fields, Heads
  <1>4. MemStored'
    BY <1>0, <1>2, <1>3, StoreMem
  <1>5. PICK n \in Node, t \in 0..mem.term :
             /\ goal = [mem EXCEPT !.log = Append(@, NewEntry(t, n))]
             /\ ent'[k][step] = NewEntry(t, n)[step]
             /\ \A f \in FieldsDone(step) : ent'[k][f] = NewEntry(t, n)[f]
    BY <1>0, FieldWrite
  <1>6. k < Capacity
    BY <1>0, FieldWrite DEF Indices
  <1>7. \A f \in FieldsDone(step') : ent'[k][f] = NewEntry(t, n)[f]
    BY <1>1, <1>5
  <1>8. InOperation'
    BY ZenonT(30), <1>0, <1>1, <1>2, <1>5, <1>6, <1>7 DEF InOperation
  <1>9. step' \in Fields \cup Heads
    BY <1>1 DEF Fields, Heads
  <1> QED BY <1>0, <1>2, <1>3, <1>4, <1>8, <1>9, StoreDisk DEF StorageInv, Fields, Heads

\* The last write of an operation: what is in memory is what is stored.
LEMMA WriteHead ==
  ASSUME StorageInv, Write, up = "ready", step \in Heads
  PROVE  StorageInv'
  <1> USE StorageAssumption
  <1> DEFINE v == ValueOf(step)
  <1>0. /\ Store /\ step # "none" /\ goal' = goal /\ unsure \subseteq Heads
        /\ MemStored /\ InOperation
        /\ head \in [Heads -> Nat \cup Node \cup {Nobody, None}]
    BY DEF StorageInv, Write, Heads
  <1>1. step' = "none" /\ mem' = goal /\ up' = "ready" /\ unsure' = unsure \ {step}
    BY DEF Write, After, Heads
  <1>2. ent' = ent /\ head' = [head EXCEPT ![step] = v]
    BY <1>0 DEF Store, Fields, Heads
  <1> HIDE DEF v
  <1>3. \A h \in Heads : head'[h] = IF h = step THEN v ELSE head[h]
    BY <1>0, <1>2
  <1>4. {"last_index", "current_term", "voted_for"} = Heads
    BY DEF Heads
  <1>5. \A h \in Heads : h \notin unsure' => h = step \/ h \notin unsure
    BY <1>1
  <1>6. InOperation'
    BY <1>0, <1>1 DEF InOperation, Fields
  <1>7. MemStored'
    <2>1. CASE step = "last_index"
      <3>1. v = Len(goal.log) /\ Len(goal.log) < Capacity /\ Len(goal.log) # None
        BY <2>1, IndexGoal DEF v, ValueOf, Fields
      <3>2. goal \in [term : 0..MaxTerm, vote : Node \cup {Nobody}, log : Seq(Entry)]
        BY <1>0, <2>1, IndexGoal DEF MemStored
      <3> QED BY ZenonT(30), <1>0, <1>1, <1>2, <1>3, <1>4, <1>5, <2>1, <3>1, <3>2, IndexGoal
              DEF MemStored
    <2>2. CASE step = "current_term"
      <3>1. PICK t \in mem.term..MaxTerm : goal = [mem EXCEPT !.term = t]
        BY <1>0, <2>2 DEF InOperation
      <3>2. /\ goal.term = t /\ goal.vote = mem.vote /\ goal.log = mem.log
            /\ goal \in [term : 0..MaxTerm, vote : Node \cup {Nobody}, log : Seq(Entry)]
            /\ mem.term \in 0..MaxTerm /\ t \in 0..MaxTerm /\ t # None /\ t >= t
        BY <1>0, <3>1 DEF MemStored
      <3>3. v = t
        BY <2>2, <3>2 DEF v, ValueOf, Fields
      <3>4. head["last_index"] \in 0..Capacity - 1 /\ Len(mem.log) \in 0..Capacity - 1
        BY <1>0 DEF MemStored, StorageInv, DiskSound, Heads
      <3>5. /\ \A i \in 0..Len(mem.log) : ent[i]["term"] \in (0..MaxTerm) \cup {None}
            /\ \A i \in 0..head["last_index"] : ent[i]["term"] \in (0..MaxTerm) \cup {None}
        BY <3>4 DEF StorageInv, DiskSound
      <3>6. /\ \A i \in 0..Len(mem.log) : ent[i]["term"] # None
            /\ \A i \in 0..head["last_index"] : ent[i]["term"] # None
        <4>1. \A i \in 1..Len(mem.log) : mem.log[i] \in Entry /\ ent[i] = mem.log[i]
          BY <1>0 DEF MemStored
        <4>2. ent[0]["term"] # None
          BY <1>0 DEF MemStored, Fields
        <4>3. \A i \in 0..Len(mem.log) : i = 0 \/ i \in 1..Len(mem.log)
          BY <3>4
        <4>4. \A e \in Entry : e["term"] # None
          BY DEF Entry, Fields
        <4>5. \A i \in 0..head["last_index"] : ent[i]["term"] # None
          BY <1>0 DEF StorageInv, DiskSound, MemStored, Fields, Heads
        <4> QED BY ZenonT(30), <4>1, <4>2, <4>3, <4>4, <4>5
      <3>7. /\ \A i \in 0..Len(mem.log) : ent[i]["term"] <= t
            /\ \A i \in 0..head["last_index"] : ent[i]["term"] <= t
        BY <1>0, <3>1, <3>2, <3>5, <3>6 DEF MemStored
      <3> QED BY ZenonT(30), <1>0, <1>1, <1>2, <1>3, <1>4, <1>5, <2>2, <3>2, <3>3, <3>7
              DEF MemStored
    <2>3. CASE step = "voted_for"
      <3>1. PICK u \in Node \cup {Nobody} : goal = [mem EXCEPT !.vote = u]
        BY <1>0, <2>3 DEF InOperation
      <3>2. /\ goal.term = mem.term /\ goal.vote = u /\ goal.log = mem.log /\ u # None
            /\ goal \in [term : 0..MaxTerm, vote : Node \cup {Nobody}, log : Seq(Entry)]
        BY <1>0, <3>1 DEF MemStored
      <3>3. v = u
        BY <2>3, <3>2 DEF v, ValueOf, Fields
      <3> QED BY ZenonT(30), <1>0, <1>1, <1>2, <1>3, <1>4, <1>5, <2>3, <3>2, <3>3
              DEF MemStored
    <2> QED BY <2>1, <2>2, <2>3 DEF Heads
  <1> QED BY <1>0, <1>1, <1>6, <1>7, StoreDisk DEF StorageInv

\* init fills what is missing, in the order in which it will look for it.
LEMMA WriteBoot ==
  ASSUME StorageInv, Write, up = "boot"
  PROVE  StorageInv'
  <1> USE StorageAssumption
  <1>0. /\ Store /\ step # "none" /\ step \in Fields \cup Heads /\ unsure = {}
        /\ DiskSound /\ InOperation /\ goal = Blank /\ goal' = goal
        /\ ent \in [Indices -> [Fields -> (0..MaxTerm) \cup Node \cup {Nobody, None}]]
        /\ head \in [Heads -> Nat \cup Node \cup {Nobody, None}]
        /\ step' = After(step) /\ unsure' = {}
        /\ IF After(step) = "none" THEN mem' = goal /\ up' = "ready" ELSE UNCHANGED <<mem, up>>
    BY DEF StorageInv, Write, InOperation
  <1>1. /\ goal.log = <<>> /\ goal.term = 0 /\ goal.vote = Nobody /\ Len(goal.log) = 0
        /\ 0 \in Indices
    BY <1>0 DEF Blank, Indices
  <1>2. CASE step \in Fields
    <2>1. ent' = [ent EXCEPT ![0][step] = Zero[step]] /\ head' = head
      BY <1>0, <1>1, <1>2 DEF Store, ValueOf
    <2>2. \A f \in Fields : ent'[0][f] = IF f = step THEN Zero[step] ELSE ent[0][f]
      BY <1>0, <1>1, <1>2, <2>1
    <2>3. /\ step' \in {"unique_id", "node_id", "last_index"}
          /\ FieldsDone(step') = FieldsDone(step) \cup {step}
          /\ FieldsDone(step) \subseteq Fields
      BY <1>0, <1>2 DEF After, Fields, FieldsDone
    <2>4. head["last_index"] = None /\ \A f \in FieldsDone(step) : ent[0][f] = Zero[f]
      BY <1>0, <1>2 DEF InOperation
    <2>5. \A f \in FieldsDone(step') : ent'[0][f] = Zero[f]
      BY <1>2, <2>2, <2>3, <2>4
    <2>6. up' = "boot"
      BY <1>0, <2>3
    <2>7. step' # "current_term" /\ step' # "voted_for" /\ step' # "none"
          /\ step' \in Fields \cup Heads
      BY <2>3 DEF Fields, Heads
    <2>8. InOperation' /\ MemStored'
      BY ZenonT(30), <1>0, <2>1, <2>4, <2>5, <2>6, <2>7 DEF InOperation, MemStored
    <2> QED BY <1>0, <2>6, <2>7, <2>8, StoreDisk DEF StorageInv
  <1>3. CASE step = "last_index"
    <2>1. head' = [head EXCEPT !["last_index"] = 0] /\ step' = "current_term" /\ up' = "boot"
      BY <1>0, <1>1, <1>3 DEF Store, ValueOf, Fields, After
    <2>2. head'["last_index"] = 0 /\ head'["current_term"] = None
      BY <1>0, <1>3, <2>1 DEF Heads, InOperation, DiskSound
    <2>3. InOperation' /\ MemStored'
      BY <1>0, <2>1, <2>2 DEF InOperation, MemStored, Fields
    <2> QED BY <1>0, <2>1, <2>3, StoreDisk DEF StorageInv, Heads
  <1>4. CASE step = "current_term"
    <2>1. head' = [head EXCEPT !["current_term"] = 0] /\ step' = "voted_for" /\ up' = "boot"
      BY <1>0, <1>1, <1>4 DEF Store, ValueOf, Fields, After
    <2>2. head'["last_index"] = 0 /\ head'["current_term"] = 0 /\ head'["voted_for"] = None
      BY <1>0, <1>4, <2>1 DEF Heads, InOperation, DiskSound
    <2>3. InOperation' /\ MemStored'
      BY <1>0, <2>1, <2>2 DEF InOperation, MemStored, Fields
    <2> QED BY <1>0, <2>1, <2>3, StoreDisk DEF StorageInv, Heads
  <1>5. CASE step = "voted_for"
    <2>1. /\ head' = [head EXCEPT !["voted_for"] = Nobody] /\ step' = "none" /\ up' = "ready"
          /\ ent' = ent /\ mem' = Blank
      BY <1>0, <1>1, <1>5 DEF Store, ValueOf, Fields, After
    <2>2. /\ head'["last_index"] = 0 /\ head'["current_term"] = 0 /\ head'["voted_for"] = Nobody
          /\ head["last_index"] = 0 /\ head["current_term"] = 0
      BY <1>0, <1>5, <2>1 DEF Heads, InOperation
    <2>3. mem'.term = 0 /\ mem'.vote = Nobody /\ mem'.log = <<>> /\ Len(mem'.log) = 0
          /\ mem' \in [term : 0..MaxTerm, vote : Node \cup {Nobody}, log : Seq(Entry)]
      BY <2>1 DEF Blank
    <2>4. ent[0]["term"] <= 0 /\ \A f \in Fields : ent[0][f] # None
      BY <1>0, <2>2 DEF DiskSound, ReadTerm
    <2>5. MemStored'
      BY <2>1, <2>2, <2>3, <2>4 DEF MemStored, Heads
    <2>6. InOperation'
      BY <1>0, <2>1 DEF InOperation, Fields
    <2> QED BY <1>0, <2>1, <2>5, <2>6, StoreDisk DEF StorageInv
  <1> QED BY <1>0, <1>2, <1>3, <1>4, <1>5 DEF Heads

LEMMA StorageStep ==
  ASSUME StorageInv, [StorageNext]_storageVars
  PROVE  StorageInv'
  <1>1. CASE Boot
    BY <1>1, BootStep
  <1>2. CASE \/ \E n \in Node : \E t \in 0..MaxTerm : append(t, n)
             \/ \E i \in 1..Capacity - 1 : removeEntriesWhereIndexGreaterOrEqual(i)
             \/ \E t \in 0..MaxTerm : setCurrentTerm(t)
             \/ \E v \in Node \cup {Nobody} : setVotedFor(v)
    BY <1>2, OperationStep
  <1>3. CASE Write
    <2>1. up \in {"boot", "ready"} /\ step \in Fields \cup Heads
      BY <1>3 DEF Write, StorageInv
    <2> QED BY <1>3, <2>1, WriteField, WriteHead, WriteBoot
  <1>4. CASE WriteFails
    BY <1>4, WriteFailsStep
  <1>5. CASE Die
    BY <1>5, DieStep
  <1>6. CASE UNCHANGED storageVars
    <2>1. UNCHANGED <<ent, head, up, mem, step, goal, unsure>>
      BY <1>6 DEF storageVars
    <2>2. DiskSound' /\ MemStored'
      BY <2>1 DEF StorageInv, DiskSound, ReadTerm, MemStored
    <2>3. InOperation
      BY DEF StorageInv
    <2>4. ASSUME up = "ready", step \in Fields
          PROVE  (\E n \in Node : \E t \in 0..mem.term :
                    /\ Len(mem.log) + 1 < Capacity
                    /\ goal = [mem EXCEPT !.log = Append(@, NewEntry(t, n))]
                    /\ \A f \in FieldsDone(step) : ent[Len(mem.log) + 1][f] = NewEntry(t, n)[f])'
      BY <2>1, <2>3, <2>4 DEF InOperation
    <2>5. ASSUME up = "ready", step = "last_index"
          PROVE  (\/ \E i \in 1..Len(mem.log) : goal = [mem EXCEPT !.log = SubSeq(@, 1, i - 1)]
                  \/ \E n \in Node : \E t \in 0..mem.term :
                       /\ Len(mem.log) + 1 < Capacity
                       /\ goal = [mem EXCEPT !.log = Append(@, NewEntry(t, n))]
                       /\ \A f \in Fields : ent[Len(mem.log) + 1][f] = NewEntry(t, n)[f])'
      BY <2>1, <2>3, <2>5 DEF InOperation
    <2>6. (up = "boot" =>
             /\ goal = Blank
             /\ step \in Fields \cup {"last_index"} =>
                  /\ head["last_index"] = None
                  /\ \A f \in FieldsDone(step) : ent[0][f] = Zero[f]
             /\ step = "current_term" => head["last_index"] = 0 /\ head["current_term"] = None
             /\ step = "voted_for" => /\ head["last_index"] = 0 /\ head["current_term"] = 0
                                      /\ head["voted_for"] = None)'
      BY <2>1, <2>3 DEF InOperation
    <2>7. (/\ step = "none" /\ up = "ready" => goal = mem
           /\ up = "ready" /\ step = "current_term" =>
                \E t \in mem.term..MaxTerm : goal = [mem EXCEPT !.term = t]
           /\ up = "ready" /\ step = "voted_for" =>
                \E v \in Node \cup {Nobody} : goal = [mem EXCEPT !.vote = v])'
      BY <2>1, <2>3 DEF InOperation
    <2>8. InOperation'
      BY ZenonT(30), <2>1, <2>4, <2>5, <2>6, <2>7 DEF InOperation
    <2> QED BY <2>1, <2>2, <2>8 DEF StorageInv
  <1> QED BY <1>1, <1>2, <1>3, <1>4, <1>5, <1>6 DEF StorageNext

LEMMA StorageInvariant == StorageSpec => []StorageInv
  <1>1. StorageInv /\ [StorageNext]_storageVars => StorageInv'
    BY StorageStep
  <1> QED BY <1>1, StorageStart, PTL DEF StorageSpec

\* Log::init and PersistentState::init never report a damaged storage, wherever in
\* append, removeEntriesWhereIndexGreaterOrEqual, setCurrentTerm, setVotedFor or init
\* the server died, and whichever writes failed.
THEOREM InitAlwaysSucceeds == StorageSpec => []InitSucceeds
  <1>1. StorageInv => InitSucceeds
    BY DEF StorageInv, InitSucceeds
  <1> QED BY <1>1, StorageInvariant, PTL

\* While no write of the term, the vote or the last index was reported as failed, a
\* restart reads back exactly the term, the vote and the log the server has in memory.
THEOREM RestartAlwaysFindsState == StorageSpec => []RestartFindsState
  <1>1. ASSUME StorageInv PROVE RestartFindsState
    <2> SUFFICES ASSUME up = "ready", unsure = {} PROVE Restored = mem
      BY DEF RestartFindsState
    <2> USE StorageAssumption
    <2>1. /\ MemStored
          /\ \A h \in Heads : head[h] # None
          /\ mem \in [term : 0..MaxTerm, vote : Node \cup {Nobody}, log : Seq(Entry)]
          /\ head["last_index"] = Len(mem.log) /\ head["current_term"] = mem.term
          /\ head["voted_for"] = mem.vote
          /\ \A i \in 1..Len(mem.log) : ent[i] = mem.log[i]
      BY <1>1 DEF StorageInv, MemStored
    <2>2. ReadTerm = mem.term /\ ReadVote = mem.vote
      BY <2>1 DEF ReadTerm, ReadVote, Heads
    <2>3. ReadLog = mem.log
      <3>1. /\ ReadLog \in Seq(Entry) /\ Len(ReadLog) = Len(mem.log)
            /\ \A i \in 1..Len(ReadLog) : ReadLog[i] = mem.log[i]
        BY <1>1, <2>1, ReadBack DEF Heads
      <3> QED BY <2>1, <3>1
    <2> QED BY <2>1, <2>2, <2>3 DEF Restored
  <1> QED BY <1>1, StorageInvariant, PTL
=============================================================================
