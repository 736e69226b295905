------------------------------ MODULE Registry ------------------------------
(***************************************************************************)
(* The data types of the program (libuavcan: GlobalDataTypeRegistry), from *)
(* the registrations before main() to the start of the node, which freezes *)
(* them, and the service that tells other nodes of them                    *)
(* (DataTypeInfoProvider).                                                 *)
(***************************************************************************)
EXTENDS Integers, Sequences, SequencesExt

CONSTANTS
  Types,  \* the C++ types: functions to their kind and full name
  Ids,    \* the data type IDs they are registered with
  None

VARIABLES
  msgs, srvs,  \* the lists of the registry: entries of Types
  descriptor,  \* of every type's static entry: its kind, name and ID
  frozen,
  users,       \* IDs the dispatcher has servers, subscribers and publishers for
  answer,      \* the last request for a data type's information, and the answer
  latest       \* of every kind and name: the ID last registered with success, or None

registryVars == <<msgs, srvs, descriptor, frozen, users, answer, latest>>

Kinds == {"message", "service"}
Names == {Types[t].name : t \in DOMAIN Types}

\* A default descriptor is a service without a name.
RegistryInit ==
  /\ msgs = <<>> /\ srvs = <<>>
  /\ descriptor = [t \in DOMAIN Types |-> [kind |-> "service", id |-> 0, name |-> ""]]
  /\ frozen = FALSE
  /\ users = [server |-> {}, subscriber |-> {}, publisher |-> {}]
  /\ answer = None
  /\ latest = [k \in Kinds, n \in Names |-> None]

-----------------------------------------------------------------------------
match(d, kind, name) == d.kind = kind /\ d.name = name

\* The entry itself only.
removeEntryItself(list, t, d) == SelectSeq(list, LAMBDA p : p # t)

\* remove: the entry, and every other of its kind and name.
removeEntry(list, t, d) == SelectSeq(list, LAMBDA p : p # t /\ ~match(d[p], d[t].kind, d[t].name))

collides(list, t, d) == \E i \in 1..Len(list) : d[list[i]].id = d[t].id \/ d[list[i]].name = d[t].name

\* insertBefore the first entry with a greater ID.
insertSorted(list, t, d) ==
  LET lower == SelectSeq(list, LAMBDA p : d[p].id <= d[t].id)
      n == Len(lower)
  IN SubSeq(list, 1, n) \o <<t>> \o SubSeq(list, n + 1, Len(list))

selectList(lists, kind) == IF kind = "message" THEN lists.msgs ELSE lists.srvs
WithList(lists, kind, l) == IF kind = "message" THEN [lists EXCEPT !.msgs = l] ELSE [lists EXCEPT !.srvs = l]

\* remove(&entry), by the kind the descriptor has now.
Removed(lists, t, d) ==
  WithList(lists, d[t].kind, removeEntry(selectList(lists, d[t].kind), t, d))

\* registImpl
registImpl(lists, t, d) ==
  LET list == selectList(lists, d[t].kind)
  IN IF collides(list, t, d) THEN lists ELSE WithList(lists, d[t].kind, insertSorted(list, t, d))

\* registerDataType<t>(id)
registerDataType(t, id) ==
  LET new == [descriptor EXCEPT ![t] = [kind |-> Types[t].kind, id |-> id, name |-> Types[t].name]]
      old == Removed([msgs |-> msgs, srvs |-> srvs], t, descriptor)
      gone == Removed(old, t, new)
      lists == registImpl(gone, t, new)
      ok == ~collides(selectList(gone, new[t].kind), t, new)
  IN /\ ~frozen
     /\ descriptor' = new
     /\ msgs' = lists.msgs /\ srvs' = lists.srvs
     /\ latest' = [latest EXCEPT ![new[t].kind, new[t].name] = IF ok THEN id ELSE None]
     /\ UNCHANGED <<frozen, users, answer>>

\* Node::start calls freeze().
freeze ==
  /\ ~frozen /\ frozen' = TRUE
  /\ UNCHANGED <<msgs, srvs, descriptor, users, answer, latest>>

-----------------------------------------------------------------------------
\* find, by kind and ID and by name, messages first: an entry or None.
FirstOf(list, fits) ==
  LET found == SelectSeq(list, LAMBDA t : t \in fits) IN IF found = <<>> THEN None ELSE Head(found)
findId(kind, id) ==
  FirstOf(selectList([msgs |-> msgs, srvs |-> srvs], kind),
          {t \in DOMAIN descriptor : descriptor[t].kind = kind /\ descriptor[t].id = id})
findKind(kind, name) ==
  FirstOf(selectList([msgs |-> msgs, srvs |-> srvs], kind),
          {t \in DOMAIN descriptor : match(descriptor[t], kind, name)})
find(name) == IF findKind("message", name) # None THEN findKind("message", name) ELSE findKind("service", name)

\* A user of a type: the node registers a listener or a publisher of its ID.
Use(role, kind, name) ==
  /\ frozen /\ findKind(kind, name) # None
  /\ (role = "server") = (kind = "service")
  /\ users' = [users EXCEPT ![role] = @ \cup {descriptor[findKind(kind, name)].id}]
  /\ UNCHANGED <<msgs, srvs, descriptor, frozen, answer, latest>>

\* The flags of the answer.
Flags(d) ==
  {"KNOWN"} \cup (IF d.kind = "service" /\ d.id \in users.server THEN {"SERVING"} ELSE {})
            \cup (IF d.kind = "message" /\ d.id \in users.subscriber THEN {"SUBSCRIBED"} ELSE {})
            \cup (IF d.kind = "message" /\ d.id \in users.publisher THEN {"PUBLISHING"} ELSE {})

\* handleGetDataTypeInfoRequest, by name or, with an empty name, by kind and ID.
handleGetDataTypeInfoRequest(name, kind, id) ==
  LET t == IF name = "" THEN IF kind \in Kinds THEN findId(kind, id) ELSE None ELSE find(name)
  IN /\ frozen
     /\ answer' = [name |-> name, kind |-> kind, id |-> id,
                   flags |-> IF t = None THEN {} ELSE Flags(descriptor[t]),
                   found |-> IF t = None THEN None ELSE descriptor[t]]
     /\ UNCHANGED <<msgs, srvs, descriptor, frozen, users, latest>>

RegistryNext ==
  \/ \E t \in DOMAIN Types, id \in Ids : registerDataType(t, id)
  \/ freeze
  \/ \E role \in DOMAIN users, kind \in Kinds, name \in Names : Use(role, kind, name)
  \/ \E name \in Names : handleGetDataTypeInfoRequest(name, "message", 0)
  \/ \E kind \in Kinds \cup {"other"}, id \in Ids : handleGetDataTypeInfoRequest("", kind, id)

RegistrySpec == RegistryInit /\ [][RegistryNext]_registryVars

-----------------------------------------------------------------------------
\* The registry is a map: after any order of registrations, of types that share names or
\* IDs, each list is sorted by distinct IDs (else a debug build aborts) and looking a name
\* up gives the ID it was last registered with, or nothing if that registration failed.
RegistryIsMap ==
  /\ \A list \in {msgs, srvs} : \A i \in 1..Len(list) - 1 : descriptor[list[i]].id < descriptor[list[i + 1]].id
  /\ \A kind \in Kinds, name \in Names :
       LET t == findKind(kind, name)
       IN IF latest[kind, name] = None THEN t = None
          ELSE t # None /\ descriptor[t].id = latest[kind, name] /\ findId(kind, latest[kind, name]) = t
=============================================================================
