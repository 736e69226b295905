------------------------------ MODULE TimeSync ------------------------------
(***************************************************************************)
(* Synchronisation of clocks over the bus (libuavcan: GlobalTimeSyncMaster *)
(* and GlobalTimeSyncSlave; uavcan_linux::SystemClock, private mode).      *)
(*                                                                         *)
(* Every sync message carries the time at which the master sent the one    *)
(* before it, taken from the loopback of that frame.  A frame is sent or   *)
(* dropped before the master publishes again; it may be lost on its way    *)
(* to the slave.                                                           *)
(***************************************************************************)
EXTENDS Integers, Sequences

CONSTANTS
  Offset,        \* by how much the clock of every master is ahead; masters are node IDs
  Ifaces,        \* the CAN interfaces, 1..n
  TidMod,        \* transfer IDs are modulo this
  MinPeriod,     \* MIN_BROADCASTING_PERIOD_MS
  MaxPeriod,     \* MAX_BROADCASTING_PERIOD_MS
  PubTimeout,    \* RECOMMENDED_BROADCASTER_TIMEOUT_MS
  MaxTime,
  Setups         \* masters and interfaces in use; bounds on publications, losses, drops
                 \* and late loopbacks

VARIABLES
  now,
  master,  \* of every master: time of its last publication and its next transfer ID
  iface,   \* of every master and interface: IfaceMaster, its frame in the queue, its loopbacks
  slave,   \* GlobalTimeSyncSlave
  adj,     \* SystemClock::private_adj_ of the slave's node
  left

timeSyncVars == <<now, master, iface, slave, adj, left>>

Masters == DOMAIN Offset
NoFrame == [there |-> FALSE, tid |-> 0, prev |-> 0]

TimeSyncInit ==
  /\ now = 1
  /\ master = [m \in Masters |-> [prevPub |-> 0, tid |-> 0]]
  /\ iface = [m \in Masters |-> [i \in Ifaces |-> [prevTx |-> 0, prevPub |-> 0, frame |-> NoFrame, loopback |-> <<>>]]]
  /\ slave = [prevUtc |-> 0, prevMono |-> 0, master |-> 0, tid |-> 0, iface |-> 0, state |-> "Update"]
  /\ adj = 0
  /\ left \in Setups

Use(what) == left[what] > 0 /\ left' = [left EXCEPT ![what] = @ - 1]

-----------------------------------------------------------------------------
\* IfaceMaster::publish
Publishes(f, tid) ==
  [f EXCEPT !.prevPub = now, !.prevTx = 0,
            !.frame = [there |-> TRUE, tid |-> tid,
                       prev |-> IF now - f.prevPub >= MaxPeriod THEN 0 ELSE f.prevTx]]

\* GlobalTimeSyncMaster::publish: one transfer ID for all interfaces.
Publish(m) ==
  /\ m <= left.masters
  /\ now - master[m].prevPub >= MinPeriod
  /\ \A i \in Ifaces : ~iface[m][i].frame.there
  /\ left.publications > 0
  /\ LET late == IF \E i \in Ifaces : iface[m][i].loopback # <<>> THEN 1 ELSE 0
     IN /\ left.late >= late
        /\ left' = [left EXCEPT !.publications = @ - 1, !.late = @ - late]
  /\ master' = [master EXCEPT ![m] = [prevPub |-> now, tid |-> (@.tid + 1) % TidMod]]
  /\ iface' = [iface EXCEPT ![m] = [i \in Ifaces |->
       IF i <= left.ifaces THEN Publishes(iface[m][i], master[m].tid) ELSE iface[m][i]]]
  /\ UNCHANGED <<now, slave, adj>>

\* IfaceMaster::setTxTimestamp of every loopback, in order: a second one before the next
\* publication is not trusted, nor the first.
SetTxTimestamp(prevTx, stamp) == IF prevTx # 0 THEN 0 ELSE stamp

HandleLoopback(m, i) ==
  LET f == iface[m][i]
      first == SetTxTimestamp(f.prevTx, f.loopback[1])
  IN /\ f.loopback # <<>>
     /\ iface' = [iface EXCEPT ![m][i].loopback = <<>>,
                               ![m][i].prevTx = IF Len(f.loopback) = 1 THEN first
                                                ELSE SetTxTimestamp(first, f.loopback[2])]
     /\ UNCHANGED <<now, master, slave, adj, left>>

-----------------------------------------------------------------------------
\* SystemClock, of the slave's node.
getUtc == now + adj
adjustUtc(by) == adj' = adj + by

computeForwardDistance(a, b) == (b - a + TidMod) % TidMod

\* GlobalTimeSyncSlave::updateFromMsg
updateFromMsg(m, i, msg) ==
  [prevUtc |-> getUtc, prevMono |-> now, master |-> m, tid |-> msg.tid, iface |-> i, state |-> "Adjust"]

\* processMsg, in state Adjust: whether the message tells when the one before it was sent.
UsableAnyTid(msg) == msg.prev # 0 /\ now - slave.prevMono <= MaxPeriod

Usable(msg) ==
  /\ msg.prev # 0
  /\ computeForwardDistance(slave.tid, msg.tid) = 1
  /\ now - slave.prevMono <= MaxPeriod

\* processMsg, with adjustFromMsg and SystemClock::adjustUtc.  0 is no master.
ProcessMsg(m, i, msg) ==
  LET force == slave.master = 0 \/ m < slave.master \/ now - slave.prevMono > PubTimeout
      own == m = slave.master /\ i = slave.iface
  IN \/ /\ force \/ (own /\ (slave.state = "Update" \/ ~Usable(msg)))
        /\ slave' = updateFromMsg(m, i, msg)
        /\ UNCHANGED adj
     \/ /\ ~force /\ own /\ slave.state = "Adjust" /\ Usable(msg)
        /\ adjustUtc(msg.prev - slave.prevUtc)
        /\ slave' = [slave EXCEPT !.state = "Update"]
     \/ /\ ~force /\ ~own
        /\ UNCHANGED <<slave, adj>>

\* The frame goes out, its loopback is stamped by the master's clock, and the slave has it.
Transmit(m, i) ==
  /\ iface[m][i].frame.there
  /\ iface' = [iface EXCEPT ![m][i].frame = NoFrame,
                            ![m][i].loopback = Append(@, now + Offset[m])]
  /\ \/ ProcessMsg(m, i, iface[m][i].frame) /\ UNCHANGED left
     \/ Use("losses") /\ UNCHANGED <<slave, adj>>
  /\ UNCHANGED <<now, master>>

\* The frame expires in the queue.
Drop(m, i) ==
  /\ iface[m][i].frame.there
  /\ Use("drops")
  /\ iface' = [iface EXCEPT ![m][i].frame = NoFrame]
  /\ UNCHANGED <<now, master, slave, adj>>

Tick ==
  /\ now < MaxTime
  /\ now' = now + 1
  /\ UNCHANGED <<master, iface, slave, adj, left>>

TimeSyncNext ==
  \/ Tick
  \/ \E m \in Masters : Publish(m) \/ \E i \in Ifaces : HandleLoopback(m, i) \/ Transmit(m, i) \/ Drop(m, i)

TimeSyncSpec == TimeSyncInit /\ [][TimeSyncNext]_timeSyncVars

-----------------------------------------------------------------------------
\* An adjustment sets the slave's clock to that of the master it follows, exactly: it is
\* never computed from the times of two different messages, whichever of them are lost,
\* dropped or looped back late, and whichever masters and interfaces they came from.
ToMastersTime == adj' # adj => adj' = Offset[slave'.master]
AdjustsExactly == [][ToMastersTime]_timeSyncVars
=============================================================================
