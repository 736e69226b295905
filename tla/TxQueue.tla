------------------------------ MODULE TxQueue ------------------------------
(***************************************************************************)
(* The queue in which a CAN frame waits for its interface (libuavcan:      *)
(* AvlTree and CanTxQueue), as operators on trees.                         *)
(*                                                                         *)
(* An entry is a record with a number of its own (its address), a priority *)
(* (a larger one is more urgent) and a deadline.  A node holds the entries *)
(* of one priority, the head and its equal_keys list, as a sequence.  The  *)
(* height of a node follows from its subtrees in every function of the     *)
(* source, so a node is always built with the right one.                   *)
(***************************************************************************)
EXTENDS Integers, Sequences, SequencesExt

CONSTANT None

Nil == [h |-> 0]
heightOf(n) == n.h
maxOf(x, y) == IF x > y THEN x ELSE y
Node(l, q, r) == [l |-> l, q |-> q, r |-> r, h |-> maxOf(heightOf(l), heightOf(r)) + 1]
balanceOf(n) == IF n = Nil THEN 0 ELSE heightOf(n.l) - heightOf(n.r)

rotateRight(y) == Node(y.l.l, y.l.q, Node(y.l.r, y.q, y.r))
rotateLeft(x) == Node(Node(x.l, x.q, x.r.l), x.r.q, x.r.r)

Key(n) == Head(n.q).prio

RECURSIVE EntriesOf(_)
EntriesOf(n) == IF n = Nil THEN {} ELSE ToSet(n.q) \cup EntriesOf(n.l) \cup EntriesOf(n.r)

appendToFront(q, e) == <<e>> \o q
appendToEndOf(q, e) == Append(q, e)

RECURSIVE insertNode(_, _)
insertNode(n, e) ==
  IF n = Nil THEN Node(Nil, <<e>>, Nil)
  ELSE IF e.prio = Key(n) THEN [n EXCEPT !.q = appendToEndOf(@, e)]
  ELSE LET m == IF e.prio < Key(n) THEN Node(insertNode(n.l, e), n.q, n.r)
                ELSE Node(n.l, n.q, insertNode(n.r, e))
       IN CASE balanceOf(m) > 1 /\ e.prio < Key(m.l) -> rotateRight(m)
            [] balanceOf(m) < -1 /\ e.prio > Key(m.r) -> rotateLeft(m)
            [] balanceOf(m) > 1 /\ e.prio > Key(m.l) -> rotateRight(Node(rotateLeft(m.l), m.q, m.r))
            [] balanceOf(m) < -1 /\ e.prio < Key(m.r) -> rotateLeft(Node(m.l, m.q, rotateRight(m.r)))
            [] OTHER -> m

\* The entry itself, or nothing if it is not in this list.
deleteFromList(q, e) == SelectSeq(q, LAMBDA x : x # e)

RECURSIVE MinHead(_)
MinHead(n) == IF n.l = Nil THEN Head(n.q) ELSE MinHead(n.l)

Rebalanced(m) ==
  CASE m = Nil -> m
    [] m # Nil /\ balanceOf(m) > 1 ->
         IF balanceOf(m.l) >= 0 THEN rotateRight(m) ELSE rotateRight(Node(rotateLeft(m.l), m.q, m.r))
    [] m # Nil /\ balanceOf(m) < -1 ->
         IF balanceOf(m.r) <= 0 THEN rotateLeft(m) ELSE rotateLeft(Node(m.l, m.q, rotateRight(m.r)))
    [] OTHER -> m

\* A node without a list goes whatever its entry is: the priorities are all that is compared.
\* With two children it takes over the least entry to its right, one entry of a list of them.
RECURSIVE removeNode(_, _)
removeNode(n, e) ==
  CASE n = Nil -> n
    [] n # Nil /\ e.prio < Key(n) -> Rebalanced(Node(removeNode(n.l, e), n.q, n.r))
    [] n # Nil /\ e.prio > Key(n) -> Rebalanced(Node(n.l, n.q, removeNode(n.r, e)))
    [] n # Nil /\ e.prio = Key(n) /\ Len(n.q) > 1 -> [n EXCEPT !.q = deleteFromList(@, e)]
    [] OTHER ->
         IF n.l = Nil \/ n.r = Nil THEN IF n.l # Nil THEN n.l ELSE n.r
         ELSE Rebalanced(Node(n.l, <<MinHead(n.r)>>, removeNode(n.r, MinHead(n.r))))

-----------------------------------------------------------------------------
isExpired(e, t) == t > e.deadline

(***************************************************************************)
(* searchForNonExpiredMax, from the root.  Its result is the tree, the     *)
(* entry found, the entries it has destroyed, and whether the tree is      *)
(* still a tree: the loop for an expired right child removes the entry of  *)
(* the node itself and links the node below itself, and an entry destroyed *)
(* while a node still points to it is read again later.                    *)
(***************************************************************************)
Peeked(root, got, gone, sane) == [root |-> root, got |-> got, gone |-> gone, sane |-> sane]

RECURSIVE searchForNonExpiredMax(_, _, _, _)
searchForNonExpiredMax(root, n, t, gone) ==
  IF n = Nil THEN Peeked(root, None, gone, TRUE)
  ELSE IF isExpired(Head(n.q), t)
  THEN LET rest == removeNode(root, Head(n.q))
       IN IF Head(n.q) \in EntriesOf(rest) THEN Peeked(rest, None, gone \cup {Head(n.q)}, FALSE)
          ELSE searchForNonExpiredMax(rest, rest, t, gone \cup {Head(n.q)})
  ELSE IF n.r # Nil /\ isExpired(Head(n.r.q), t)
  THEN Peeked(root, None, gone \cup {Head(n.q)}, FALSE)
  ELSE IF n.r = Nil THEN Peeked(root, Head(n.q), gone, TRUE)
  ELSE searchForNonExpiredMax(root, n.r, t, gone)

peek(root, t) == searchForNonExpiredMax(root, root, t, {})

\* push, with room for `quota` entries.
push(root, e, t, quota) ==
  IF t >= e.deadline \/ Len(SetToSeq(EntriesOf(root))) >= quota THEN root ELSE insertNode(root, e)
=============================================================================
