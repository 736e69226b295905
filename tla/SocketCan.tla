----------------------------- MODULE SocketCan -----------------------------
(***************************************************************************)
(* One SocketCAN interface and the driver's select() (libuavcan_linux:     *)
(* SocketCanIface, SocketCanDriver), with the socket (external): it takes  *)
(* a frame or refuses it for now, puts the frames it has taken on the bus  *)
(* in their order, and confirms each by looping it back into the receive   *)
(* buffer, among the frames of other nodes.                                *)
(***************************************************************************)
EXTENDS Integers, Sequences, FiniteSets, SequencesExt

CONSTANTS
  Ids,          \* CAN identifiers; a smaller one has the higher priority
  LoopbackIds,  \* those sent with CanIOFlagLoopback
  Filtered,     \* those the filters let through, once they are configured
  InSocketMax,  \* max_frames_in_socket_tx_queue
  Lives,        \* how long before its deadline a frame is sent
  MaxSends, MaxArrivals, MaxErrors, MaxNow   \* bounds

VARIABLES
  now, down,
  tx,        \* tx_queue_
  rx,        \* rx_queue_
  inSocket,  \* frames_in_socket_tx_queue_
  pending,   \* pending_loopback_ids_
  filters,   \* hw_filters_container_: the identifiers it accepts; all, as long as it is empty
  socket,    \* external: frames taken and not yet on the bus
  inbox,     \* external: the socket's receive buffer
  used       \* sends, arrivals and errors so far

socketCanVars == <<now, down, tx, rx, inSocket, pending, filters, socket, inbox, used>>

SocketCanInit ==
  /\ now = 0 /\ down = FALSE
  /\ tx = {} /\ rx = <<>>
  /\ inSocket = 0 /\ pending = {}
  /\ filters = {}
  /\ socket = <<>> /\ inbox = <<>>
  /\ used = [sends |-> 0, arrivals |-> 0, errors |-> 0]

Spend(what, max) == used[what] < max /\ used' = [used EXCEPT ![what] = @ + 1]

\* What pollRead and pollWrite work on.
Iface == [tx |-> tx, rx |-> rx, in |-> inSocket, pending |-> pending, socket |-> socket,
          inbox |-> inbox, errors |-> used.errors]

Top(items) == CHOOSE t \in items :
  \A u \in items \ {t} : t.id < u.id \/ (t.id = u.id /\ t.order < u.order)

checkHWFilters(id) == filters = {} \/ id \in filters

confirmSentFrame(n) == IF n > 0 THEN n - 1 ELSE n

ReadOneAsked(s, f) ==
  CASE f.loopback /\ f.id \in s.pending -> [s EXCEPT !.in = confirmSentFrame(@), !.pending = @ \ {f.id},
                                                   !.rx = Append(@, f)]
    [] ~f.loopback /\ checkHWFilters(f.id) -> [s EXCEPT !.rx = Append(@, f)]
    [] OTHER -> s

\* One frame from the socket: a confirmation goes on only if it was asked for.
ReadOne(s, f) ==
  CASE f.loopback -> [s EXCEPT !.in = confirmSentFrame(@), !.pending = @ \ {f.id},
                               !.rx = IF f.id \in s.pending THEN Append(@, f) ELSE @]
    [] ~f.loopback /\ checkHWFilters(f.id) -> [s EXCEPT !.rx = Append(@, f)]
    [] OTHER -> s

pollRead(s) == [FoldLeft(ReadOne, s, s.inbox) EXCEPT !.inbox = <<>>]

hasReadyTx(s) == s.tx # {} /\ s.in < InSocketMax

\* Every outcome: a write succeeds, is not possible now (the loop ends) or fails.
RECURSIVE pollWrite(_)
pollWrite(s) ==
  IF ~hasReadyTx(s) THEN {s}
  ELSE LET t == Top(s.tx)
           popped == [s EXCEPT !.tx = @ \ {t}]
       IN IF t.deadline < now THEN pollWrite(popped)
          ELSE {s}
               \cup pollWrite([popped EXCEPT !.in = @ + 1, !.socket = Append(@, t.id),
                                             !.pending = IF t.loopback THEN @ \cup {t.id} ELSE @])
               \cup (IF s.errors < MaxErrors THEN pollWrite([popped EXCEPT !.errors = @ + 1]) ELSE {})

Becomes(s) ==
  /\ tx' = s.tx /\ rx' = s.rx /\ inSocket' = s.in /\ pending' = s.pending
  /\ socket' = s.socket /\ inbox' = s.inbox

\* SocketCanIface::send; an interface that is down is not given anything.
Send(id, life) ==
  /\ ~down
  /\ used.sends < MaxSends /\ now + life < MaxNow
  /\ LET item == [id |-> id, deadline |-> now + life, order |-> used.sends, loopback |-> id \in LoopbackIds]
     IN \E s \in pollWrite(pollRead([Iface EXCEPT !.tx = @ \cup {item}])) :
          Becomes(s) /\ used' = [used EXCEPT !.sends = @ + 1, !.errors = s.errors]
  /\ UNCHANGED <<now, down, filters>>

\* The node's loop: CanIOManager::receive, SocketCanDriver::select and SocketCanIface::receive.
\* The socket is polled only if nothing has been read before; one frame goes to the caller.
Spin ==
  /\ IF rx # <<>>
     THEN rx' = Tail(rx) /\ UNCHANGED <<tx, inSocket, pending, socket, inbox, used>>
     ELSE /\ ~down
          /\ \E s \in pollWrite(pollRead(Iface)) :
               /\ Becomes([s EXCEPT !.rx = IF @ = <<>> THEN @ ELSE Tail(@)])
               /\ used' = [used EXCEPT !.errors = s.errors]
  /\ UNCHANGED <<now, down, filters>>

configureFilters ==
  /\ filters = {} /\ filters' = Filtered
  /\ UNCHANGED <<now, down, tx, rx, inSocket, pending, socket, inbox, used>>

\* updateDownStatusFromPollResult: nothing brings the interface up again.
GoesDown ==
  /\ ~down /\ down' = TRUE
  /\ UNCHANGED <<now, tx, rx, inSocket, pending, filters, socket, inbox, used>>

\* External: the socket puts its oldest frame on the bus and confirms it.
Transmit ==
  /\ socket # <<>>
  /\ socket' = Tail(socket)
  /\ inbox' = Append(inbox, [id |-> Head(socket), loopback |-> TRUE])
  /\ UNCHANGED <<now, down, tx, rx, inSocket, pending, filters, used>>

\* External: a frame of another node.
Arrive(id) ==
  /\ Spend("arrivals", MaxArrivals)
  /\ inbox' = Append(inbox, [id |-> id, loopback |-> FALSE])
  /\ UNCHANGED <<now, down, tx, rx, inSocket, pending, filters, socket>>

Elapse ==
  /\ now < MaxNow /\ now' = now + 1
  /\ UNCHANGED <<down, tx, rx, inSocket, pending, filters, socket, inbox, used>>

SocketCanNext ==
  \/ \E id \in Ids, life \in Lives : Send(id, life)
  \/ Spin
  \/ \E id \in Ids : Arrive(id)
  \/ configureFilters \/ GoesDown \/ Transmit \/ Elapse

\* The node spins, the clock goes on and a working bus takes the frames it is given.
SocketCanSpec ==
  /\ SocketCanInit /\ [][SocketCanNext]_socketCanVars
  /\ WF_socketCanVars(Spin) /\ WF_socketCanVars(Transmit) /\ WF_socketCanVars(Elapse)

-----------------------------------------------------------------------------
\* Whatever the socket refuses and however the confirmations mix with other traffic, an
\* interface that is up never keeps a frame for good: it is written, fails or expires.
QueueDrains == (tx # {}) ~> (tx = {} \/ down)
=============================================================================
