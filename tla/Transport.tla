----------------------------- MODULE Transport -----------------------------
(***************************************************************************)
(* Transfers of one data type from one node to another over redundant CAN  *)
(* interfaces (libuavcan: TransferSender, OutgoingTransferRegistry,        *)
(* Dispatcher, TransferListener, TransferReceiver, TransferBufferManager). *)
(*                                                                         *)
(* A transfer is known by its number; chunk k of its payload is the pair   *)
(* <<number, k>>, one per frame, and its CRC is the number: two transfers  *)
(* never have the same CRC.  Every interface keeps the order of its frames, *)
(* may lose any of them and is at most Latency behind.                     *)
(***************************************************************************)
EXTENDS Integers, Sequences, FiniteSets, SequencesExt

CONSTANTS
  TidMod,       \* 2^TransferID::BitLen
  MaxBuffer,    \* frames that fit into a transfer buffer
  TidTimeout,   \* DefaultTidTimeoutMSec, in ticks (the initial interval, too)
  Lifetime,     \* how long the registry keeps a transfer ID that is not used
  Latency,      \* bound on the time a frame is on its way
  MaxTime,      \* bound on the time
  Setups,       \* the interfaces, the transfer ID the sender had come to before the receiver
                \* came up, the numbers of frames of a transfer,
                \* and bounds on transfers, lost frames and failed allocations
  None

VARIABLES
  now,        \* the time; 0 stands for "never"
  otr,        \* the entry of the outgoing transfer registry
  sent,       \* [tid, len] of every transfer, by its number
  wire,       \* frames on their way, per interface
  rcv,        \* the TransferReceiver
  buf,        \* the transfer buffer
  delivered,  \* numbers of the transfers delivered to the application
  heard,      \* frames that the receiver has been given, of the transfer in progress
  spoiled,    \* transfers written over the buffer of one whose CRC did not match
  left        \* what is left of the setup's bounds

transportVars == <<now, otr, sent, wire, rcv, buf, delivered, heard, spoiled, left>>

Half == TidMod \div 2
increment(tid) == (tid + 1) % TidMod
computeForwardDistance(a, b) == (b - a + TidMod) % TidMod

TransportInit ==
  /\ now = 1
  /\ left \in Setups
  /\ otr = IF left.tid = None THEN None ELSE [tid |-> left.tid, deadline |-> 1 + Lifetime]
  /\ sent = <<>>
  /\ wire = [i \in left.ifaces |-> <<>>]
  /\ rcv = None /\ buf = None
  /\ delivered = <<>>
  /\ heard = [n |-> 0, k |-> 0, i |-> 0]
  /\ spoiled = {}

Use(what) == left[what] > 0 /\ left' = [left EXCEPT ![what] = @ - 1]

-----------------------------------------------------------------------------
\* TransferSender.  Frame k of transfer n; the toggle bit changes with every frame.
Frame(n, k) ==
  [n |-> n, k |-> k, tid |-> sent[n].tid, sot |-> k = 1, eot |-> k = sent[n].len,
   toggle |-> (k + 1) % 2]

\* Fewer transfers are on their way at a time than it takes to wrap the transfer ID.
Underway == UNION {{wire[i][j].n : j \in 1..Len(wire[i])} : i \in DOMAIN wire}

accessOrCreate == IF otr = None THEN 0 ELSE otr.tid

\* send: the first `good` frames are handed to the interfaces before one of them fails.
Send(len, good) ==
  LET n == Len(sent) + 1
  IN /\ Cardinality(Underway) < Half
     /\ Use("transfers")
     /\ otr' = [tid |-> increment(accessOrCreate), deadline |-> now + Lifetime]
     /\ sent' = Append(sent, [tid |-> accessOrCreate, len |-> len])
     /\ wire' = [i \in DOMAIN wire |-> wire[i] \o
                  [k \in 1..good |-> [n |-> n, k |-> k, at |-> now]]]
     /\ UNCHANGED <<now, rcv, buf, delivered, heard, spoiled>>

-----------------------------------------------------------------------------
\* TransferReceiver.  iface is None until the first frame.
NewReceiver == [iface |-> None, tid |-> 0, toggle |-> 0, pos |-> 0, crc |-> 0,
                this |-> 0, prev |-> 0, interval |-> TidTimeout]

isTimedOut(r) == now - r.this > TidTimeout

NeedRestartNarrow(r, f, i) ==
  \/ r.iface = None
  \/ isTimedOut(r)
  \/ r.iface = i /\ f.sot /\ r.tid # f.tid
  \/ now - r.this > r.interval /\ f.sot

NeedRestartSwitch(r, f, i) ==
  \/ r.iface = None
  \/ isTimedOut(r)
  \/ now - r.this > r.interval /\ f.sot /\ computeForwardDistance(r.tid, f.tid) < Half

NeedRestart(r, f, i) ==
  \/ r.iface = None
  \/ isTimedOut(r)
  \/ r.iface = i /\ f.sot /\ computeForwardDistance(f.tid, r.tid) > 1
  \/ now - r.this > r.interval /\ f.sot /\ computeForwardDistance(r.tid, f.tid) < Half

validate(r, f, i) == r.iface = i /\ f.toggle = r.toggle /\ f.tid = r.tid

Clamp(d) == IF d < 1 THEN 1 ELSE d

updateTransferTimings(r) ==
  [r EXCEPT !.prev = r.this,
            !.interval = IF r.prev = 0 THEN @ ELSE (@ * 7 + Clamp(r.this - r.prev)) \div 8]

prepareForNextTransfer(r) == [r EXCEPT !.tid = increment(@), !.toggle = 0, !.pos = 0]

\* TransferBufferManagerEntry::write of the chunk at a position.
Written(b, pos, chunk) ==
  LET old == IF b = None THEN <<>> ELSE b
  IN [j \in 1..(IF pos < Len(old) THEN Len(old) ELSE pos + 1) |->
        IF j = pos + 1 THEN chunk ELSE old[j]]

\* checkPayloadCrc, against the CRC that came with the first frame.
checkPayloadCrc(r, b) == r.crc # 0 /\ b = [k \in 1..sent[r.crc].len |-> <<r.crc, k>>]

Outcome(r, b, got) == [rcv |-> r, buf |-> b, got |-> got]

\* handleReception of a complete transfer: the buffer is released only after a match.
handleComplete(r, b) == IF checkPayloadCrc(r, b) THEN Outcome(r, None, r.crc) ELSE Outcome(r, b, None)

\* receive.  memory tells whether what has to be allocated can be.
receive(r0, b, f, memory) ==
  LET r == IF f.sot THEN [r0 EXCEPT !.this = now] ELSE r0
      next == [r EXCEPT !.crc = IF f.sot THEN f.n ELSE @, !.pos = @ + 1, !.toggle = 1 - @]
      done == prepareForNextTransfer(updateTransferTimings(next))
      after == Written(b, r.pos, <<f.n, f.k>>)
  IN IF f.sot /\ f.eot
     THEN Outcome([prepareForNextTransfer(updateTransferTimings(r)) EXCEPT !.crc = 0], None, f.n)
     ELSE IF ~memory \/ r.pos >= MaxBuffer
     THEN Outcome(prepareForNextTransfer(r), None, None)
     ELSE IF ~f.eot THEN Outcome(next, after, None)
     ELSE handleComplete(done, after)

addFrame(r, b, f, i, memory) ==
  LET new == [r EXCEPT !.iface = i, !.tid = f.tid, !.toggle = 0, !.pos = 0, !.crc = 0]
  IN CASE NeedRestart(r, f, i) /\ ~f.sot -> Outcome([new EXCEPT !.tid = increment(@)], None, None)
       [] NeedRestart(r, f, i) /\ f.sot -> receive(new, None, f, memory)
       [] ~NeedRestart(r, f, i) /\ validate(r, f, i) -> receive(r, b, f, memory)
       [] OTHER -> Outcome(r, b, None)

\* Dispatcher and TransferListener::handleFrame, for the next frame of interface i.
HandleFrame(i) ==
  /\ wire[i] # <<>>
  /\ wire' = [wire EXCEPT ![i] = Tail(@)]
  /\ \E memory \in {"none", "receiver", "all"} :
       LET f == Frame(Head(wire[i]).n, Head(wire[i]).k)
           r == IF rcv = None THEN NewReceiver ELSE rcv
           out == addFrame(r, buf, f, i, memory = "all")
           accepted == out # Outcome(r, buf, None)
       IN /\ IF memory = "all" THEN UNCHANGED left ELSE Use("failures")
          /\ IF rcv = None /\ (~f.sot \/ memory = "none") THEN UNCHANGED <<rcv, buf, delivered, heard, spoiled>>
             ELSE /\ rcv' = out.rcv
                  /\ buf' = out.buf
                  /\ delivered' = IF out.got = None THEN delivered ELSE Append(delivered, out.got)
                  /\ heard' = CASE memory # "all" -> [n |-> 0, k |-> 0, i |-> 0]
                                [] f.sot /\ out.rcv.iface = i -> [n |-> f.n, k |-> 1, i |-> i]
                                [] heard = [n |-> f.n, k |-> f.k - 1, i |-> i] -> [heard EXCEPT !.k = f.k]
                                [] OTHER -> heard
                  /\ spoiled' = IF f.sot /\ accepted /\ buf # None /\ ~NeedRestart(r, f, i)
                                THEN spoiled \cup {f.n} ELSE spoiled
  /\ UNCHANGED <<now, otr, sent>>

\* OutgoingTransferRegistry::cleanup
registryCleanup == IF otr # None /\ otr.deadline <= now THEN None ELSE otr

\* TransferListener::cleanup: a receiver that has timed out goes, with its buffer.
listenerCleanup ==
  IF rcv # None /\ isTimedOut(rcv) THEN rcv' = None /\ buf' = None ELSE UNCHANGED <<rcv, buf>>

\* Dispatcher::cleanup, from the scheduler.
Cleanup ==
  /\ otr' = registryCleanup
  /\ listenerCleanup
  /\ UNCHANGED <<now, sent, wire, delivered, heard, spoiled, left>>

Lose(i) ==
  /\ wire[i] # <<>>
  /\ Use("losses")
  /\ wire' = [wire EXCEPT ![i] = Tail(@)]
  /\ UNCHANGED <<now, otr, sent, rcv, buf, delivered, heard, spoiled>>

Tick ==
  /\ now < MaxTime
  /\ \A i \in DOMAIN wire : wire[i] # <<>> => now - Head(wire[i]).at < Latency
  /\ now' = now + 1
  /\ UNCHANGED <<otr, sent, wire, rcv, buf, delivered, heard, spoiled, left>>

TransportNext ==
  \/ \E len \in left.lens : \E good \in 1..len : Send(len, good)
  \/ \E i \in DOMAIN wire : HandleFrame(i) \/ Lose(i)
  \/ Cleanup
  \/ Tick

TransportSpec == TransportInit /\ [][TransportNext]_transportVars

-----------------------------------------------------------------------------
\* A transfer that came over both interfaces, whole or in parts, is delivered at most
\* once, and none is delivered after a later one.
DeliveredInOrder ==
  \A a, b \in 1..Len(delivered) : a < b => delivered[a] < delivered[b]

\* The receiver finds its way back after any loss: a transfer whose frames have all come,
\* one after the other on the receiver's interface, has been delivered, unless the one
\* before it had failed its CRC check and left its buffer behind.
IntactDelivered ==
  heard.n # 0 /\ heard.k = sent[heard.n].len /\ heard.k <= MaxBuffer /\ heard.n \notin spoiled
    => \E d \in 1..Len(delivered) : delivered[d] = heard.n
=============================================================================
