------------------------------- MODULE CanIO -------------------------------
(***************************************************************************)
(* CanIOManager: send and receive over several interfaces of which some    *)
(* may not take a frame now.  One thread calls them; the driver (external) *)
(* answers select() with any of the interfaces asked for, and an interface *)
(* that is ready may still refuse what it is given.                        *)
(***************************************************************************)
EXTENDS TxQueue, FiniteSets

CONSTANTS
  Ifaces,
  Quota,       \* entries that fit into the queue of an interface
  Priorities,
  Lives,       \* how long before its deadline a frame is sent
  MaxFrames,   \* bound on the frames
  MaxTime      \* bound on the time

VARIABLES
  now,
  queue,       \* tx_queues_: the tree of every interface
  call,        \* send() in progress: the frame, the interfaces still to serve, the blocking deadline
  frames,      \* number of frames sent so far; a frame's number is its address
  handed,      \* the entry each interface has taken in this step, if any
  aged,        \* whether a queue has removed an entry because it had expired
  dropped,     \* entries that a queue removed before they had expired
  sane         \* FALSE once a tree has been corrupted: nothing is known of what follows

canIOVars == <<now, queue, call, frames, handed, aged, dropped, sane>>

CanIOInit ==
  /\ now = 0
  /\ queue = [i \in Ifaces |-> Nil]
  /\ call = None
  /\ frames = 0
  /\ handed = [i \in Ifaces |-> None]
  /\ aged = FALSE
  /\ dropped = {}
  /\ sane = TRUE

makePendingTxMask == {i \in Ifaces : queue[i] # Nil}

\* Every round begins with a peek into every queue.
PeekedAt(i) == peek(queue[i], now)

Forgotten(peeked) ==
  /\ aged' = (aged \/ \E i \in Ifaces : \E e \in peeked[i].gone : isExpired(e, now))
  /\ dropped' = dropped \cup UNION {{e \in peeked[i].gone : ~isExpired(e, now)} : i \in Ifaces}
  /\ sane' = \A i \in Ifaces : peeked[i].sane

BeginSend(prio, life, wait) ==
  /\ sane /\ call = None /\ frames < MaxFrames
  /\ frames' = frames + 1
  /\ call' = [frame |-> [n |-> frames + 1, prio |-> prio, deadline |-> now + life],
              mask |-> Ifaces,
              until |-> now + (IF wait > life THEN life ELSE wait)]
  /\ handed' = [i \in Ifaces |-> None]
  /\ UNCHANGED <<now, queue, aged, dropped, sane>>

ChosenNew(p, i) ==
  IF p.got # None /\ (i \notin call.mask \/ p.got.prio > call.frame.prio) THEN p.got
  ELSE IF i \in call.mask THEN call.frame
  ELSE None

\* The entry an interface that is ready is given, and refuses if it is in `refusing`.
Chosen(p, i) ==
  IF p.got # None /\ (i \notin call.mask \/ p.got.prio >= call.frame.prio) THEN p.got
  ELSE IF i \in call.mask THEN call.frame
  ELSE None

sendFromTxQueue(p) == removeNode(p.root, p.got)

Round(ready, refusing) ==
  LET peeked == [i \in Ifaces |-> PeekedAt(i)]
      given == [i \in ready \ refusing |-> Chosen(peeked[i], i)]
      took == {i \in DOMAIN given : given[i] # None}
      mask == call.mask \ {i \in took : given[i] = call.frame}
      rest == [i \in Ifaces |-> IF i \in took /\ given[i] # call.frame
                                THEN sendFromTxQueue(peeked[i]) ELSE peeked[i].root]
      timedOut == now >= call.until
  IN /\ sane /\ call # None
     /\ handed' = [i \in Ifaces |-> IF i \in took THEN given[i] ELSE None]
     /\ IF mask = {} \/ timedOut
        THEN /\ queue' = [i \in Ifaces |-> IF i \in mask THEN push(rest[i], call.frame, now, Quota)
                                           ELSE rest[i]]
             /\ call' = None
        ELSE /\ queue' = rest
             /\ call' = [call EXCEPT !.mask = mask]
     /\ Forgotten(peeked)
     /\ UNCHANGED <<now, frames>>

\* send: one turn of its loop.
SendRound ==
  /\ call # None
  /\ \E ready \in SUBSET (call.mask \cup makePendingTxMask) :
       \E refusing \in SUBSET ready : Round(ready, refusing)

\* receive: one turn of its loop; what it reads is not part of this model.
ReceiveRound ==
  LET peeked == [i \in Ifaces |-> PeekedAt(i)]
  IN /\ sane /\ call = None
     /\ \E ready \in SUBSET makePendingTxMask :
          LET took == {i \in ready : peeked[i].got # None}
          IN /\ handed' = [i \in Ifaces |-> IF i \in took THEN peeked[i].got ELSE None]
             /\ queue' = [i \in Ifaces |-> IF i \in took THEN sendFromTxQueue(peeked[i])
                                           ELSE peeked[i].root]
     /\ Forgotten(peeked)
     /\ UNCHANGED <<now, call, frames>>

Pass ==
  /\ now < MaxTime
  /\ now' = now + 1
  /\ handed' = [i \in Ifaces |-> None]
  /\ UNCHANGED <<queue, call, frames, aged, dropped, sane>>

CanIONext ==
  \/ \E prio \in Priorities, life \in Lives, wait \in {0, 1} : BeginSend(prio, life, wait)
  \/ SendRound
  \/ ReceiveRound
  \/ Pass

CanIOSpec == CanIOInit /\ [][CanIONext]_canIOVars

-----------------------------------------------------------------------------
\* As long as no queue has removed an expired frame: an interface is never given a frame while
\* a more urgent one, or one of the same priority that was sent earlier, waits for it.  The
\* frames of a transfer have one priority: they go out in their order.
InOrder ==
  \A i \in Ifaces :
    handed'[i] # None /\ ~aged' /\ sane' =>
      LET e == handed'[i]
      IN \A w \in EntriesOf(queue[i]) \ {e} :
           w.prio < e.prio \/ (w.prio = e.prio /\ e.n < w.n)
NoInversion == [][InOrder]_canIOVars

\* A queue drops a frame only once it has expired ("If the frame is expired, removes it and
\* continues traversing").
PeekKeepsUnexpired == dropped = {}
=============================================================================
