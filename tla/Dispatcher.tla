----------------------------- MODULE Dispatcher -----------------------------
(***************************************************************************)
(* Who is given a frame (libuavcan: Dispatcher, its ListenerRegistry and   *)
(* LoopbackFrameListenerRegistry, LinkedListRoot, GenericSubscriber's      *)
(* start and stop).  The lists are intrusive: a listener is its own node,  *)
(* and it keeps its link when it is removed.  One thread walks a list and  *)
(* calls the listeners back, which start and stop listeners meanwhile.     *)
(***************************************************************************)
EXTENDS Integers, Sequences

CONSTANTS
  Listeners,  \* of every listener: its list and its data type ID
  Setups,     \* the sets of listeners that a program may have
  Changes,    \* bound on the starts and stops during one walk
  None

VARIABLES
  names,    \* the listeners of the program
  root,     \* LinkedListRoot::root_ of every list
  link,     \* LinkedListNode::next_ of every listener
  walk,     \* the frame that is being handled, the listener it has come to and the next one
  given,    \* how often every listener has been given that frame
  changed,  \* listeners started or stopped since the frame came
  changes   \* how many times

dispatcherVars == <<names, root, link, walk, given, changed, changes>>

Lists == {"message", "request", "response", "loopback"}

DispatcherInit ==
  /\ names \in Setups
  /\ root = [k \in Lists |-> None]
  /\ link = [l \in names |-> None]
  /\ walk = None
  /\ given = [l \in names |-> 0]
  /\ changed = {} /\ changes = 0

-----------------------------------------------------------------------------
\* LinkedListRoot.  List(r, n) is the list of root r and links n, in order.
RECURSIVE List(_, _)
List(r, n) == IF r = None THEN <<>> ELSE <<r>> \o List(n[r], n)

In(k) == LET s == List(root[k], link) IN {s[i] : i \in DOMAIN s}

\* remove: the removed node's own link stays.
remove(r, n, l) ==
  IF r = l THEN [root |-> n[l], link |-> n]
  ELSE [root |-> r, link |-> [p \in DOMAIN n |->
         IF n[p] = l /\ \E i \in DOMAIN List(r, n) : List(r, n)[i] = p THEN n[l] ELSE n[p]]]

\* insert: at the beginning.
insert(r, n, l) == [root |-> l, link |-> [n EXCEPT ![l] = r]]

\* insertBefore the first of the nodes in before.
insertBefore(r, n, l, before) ==
  LET s == List(r, n)
      first == CHOOSE i \in 1..Len(s) + 1 :
                 /\ i \in DOMAIN s => s[i] \in before
                 /\ \A j \in 1..i - 1 : s[j] \notin before
  IN IF first = 1 THEN insert(r, n, l)
     ELSE [root |-> r, link |-> [n EXCEPT ![l] = n[s[first - 1]], ![s[first - 1]] = l]]

-----------------------------------------------------------------------------
\* The list in the order of the comment on it.
ComparatorUp(id, listener) == id < Listeners[listener].id

\* DataTypeIDInsertionComparator
Comparator(id, listener) == id > Listeners[listener].id

\* add: one listener for the requests of a service, any number for the rest.
Added(k, at, l) ==
  IF k = "loopback" THEN insert(at.root, at.link, l)
  ELSE IF k = "request" /\ \E p \in In(k) \ {l} : Listeners[p].id = Listeners[l].id THEN at
  ELSE insertBefore(at.root, at.link, l, {p \in names : Comparator(Listeners[l].id, p)})

Becomes(k, at, l) ==
  /\ root' = [root EXCEPT ![k] = at.root] /\ link' = at.link
  /\ IF walk = None THEN UNCHANGED <<changed, changes>>
     ELSE changes < Changes /\ changes' = changes + 1 /\ changed' = changed \cup {l}
  /\ UNCHANGED <<names, walk, given>>

\* Nothing else runs while a frame is handled, but the callback of the listener it has come to.
Calling == walk # None /\ walk.calling

\* genericStart: stop, then add.  A callback starts its own listener, or one that was not
\* listening when the frame came.
Start(l) ==
  LET k == Listeners[l].list
  IN /\ walk = None \/ (Calling /\ (l = walk.p \/ (l \notin In(k) /\ l \notin changed)))
     /\ Becomes(k, Added(k, remove(root[k], link, l), l), l)

\* stop
Stop(l) ==
  LET k == Listeners[l].list
  IN /\ walk = None \/ Calling
     /\ l \in In(k)
     /\ Becomes(k, remove(root[k], link, l), l)

-----------------------------------------------------------------------------
\* A frame for this node: Dispatcher::handleFrame and handleLoopbackFrame choose the list.
Receive(k, id) ==
  /\ walk = None /\ root[k] # None
  /\ walk' = [list |-> k, id |-> id, p |-> root[k], next |-> None, calling |-> FALSE]
  /\ given' = [l \in names |-> 0]
  /\ changed' = {} /\ changes' = 0
  /\ UNCHANGED <<names, root, link>>

\* The walk goes on with p, or ends.
Onwards(p) == walk' = IF p = None THEN None ELSE [walk EXCEPT !.p = p, !.calling = FALSE]

\* ListenerRegistry::handleFrame and invokeListeners: the listener the walk has come to.  The
\* frame calls back once: given a second time, it is no new transfer to the listener.
Visit ==
  /\ walk # None /\ ~walk.calling
  /\ LET id == Listeners[walk.p].id
         matches == walk.list = "loopback" \/ id = walk.id
     IN \/ /\ matches
           /\ given' = [given EXCEPT ![walk.p] = @ + 1]
           /\ IF given[walk.p] = 0 THEN walk' = [walk EXCEPT !.next = link[walk.p], !.calling = TRUE]
              ELSE Onwards(link[walk.p])
        \/ /\ ~matches
           /\ Onwards(IF id < walk.id THEN None ELSE link[walk.p])
           /\ UNCHANGED given
  /\ UNCHANGED <<names, root, link, changed, changes>>

\* The next listener is looked up after the callback.
ReturnLate ==
  /\ Calling
  /\ Onwards(link[walk.p])
  /\ UNCHANGED <<names, root, link, given, changed, changes>>

\* The callback returns.
Return ==
  /\ Calling
  /\ Onwards(walk.next)
  /\ UNCHANGED <<names, root, link, given, changed, changes>>

DispatcherNext ==
  \/ \E l \in names : Start(l) \/ Stop(l)
  \/ \E k \in Lists, id \in {Listeners[l].id : l \in names} : Receive(k, id)
  \/ Visit \/ Return

DispatcherSpec == DispatcherInit /\ [][DispatcherNext]_dispatcherVars

-----------------------------------------------------------------------------
\* A frame reaches its listeners whatever the callbacks of the others do: when the walk ends,
\* each listener for it that was neither started nor stopped meanwhile has been given it
\* exactly once, and one for another data type never.
GivenToAll ==
  walk # None /\ walk' = None =>
    \A l \in names \ changed :
      given'[l] = IF l \in In(walk.list) /\ (walk.list = "loopback" \/ Listeners[l].id = walk.id)
                  THEN 1 ELSE 0
ReachesAll == [][GivenToAll]_dispatcherVars
=============================================================================
