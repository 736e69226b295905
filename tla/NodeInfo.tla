------------------------------ MODULE NodeInfo ------------------------------
(***************************************************************************)
(* Watching the nodes of the bus and updating their firmware (libuavcan:   *)
(* NodeStatusMonitor, NodeInfoRetriever and FirmwareUpdateTrigger, which   *)
(* listens to the retriever).                                              *)
(*                                                                         *)
(* A node publishes its status when it starts and once a second.  An       *)
(* answer is never older than a second: it arrives, or its call times      *)
(* out, before its node's uptime advances or the node answers again; but   *)
(* the node may restart meanwhile.  A node does not restart in its first   *)
(* two seconds: uptimes would not tell its lives apart.                    *)
(***************************************************************************)
EXTENDS Integers, FiniteSets

CONSTANTS
  NodeMax,      \* the nodes are 1..NodeMax
  MaxUptime,    \* uptime stops counting here
  NumAttempts,  \* num_attempts_ of the retriever
  Setups,       \* how many nodes take part; bounds on losses, restarts and invalidateAll
  None

VARIABLES
  node,      \* a node: up, uptime, firmware ("old" or "new"), whether it is updating
  monitor,   \* NodeStatusMonitor: the known mode of every node ("unknown", "offline", "online")
  entry,     \* NodeInfoRetriever::Entry of every node
  timer,     \* whether the retriever's timer runs, and the node it picked last
  call,      \* GetNodeInfo call to every node: none, sent, or answered (the answer is on its way)
  trigger,   \* FirmwareUpdateTrigger: pending nodes, timer, node queried last
  begin,     \* BeginFirmwareUpdate call to every node: None, "sent", or the answer
  declined,  \* nodes the firmware version checker gave up on
  left

nodeInfoVars == <<node, monitor, entry, timer, call, trigger, begin, declined, left>>

Nodes == 1..NodeMax
NoCall == [is |-> None, uptime |-> 0, fw |-> None]
NoEntry == [uptime |-> 0, attempts |-> 0, needed |-> FALSE, updated |-> FALSE]

NodeInfoInit ==
  /\ node = [n \in Nodes |-> [up |-> FALSE, uptime |-> 0, fw |-> "old", updating |-> FALSE]]
  /\ monitor = [n \in Nodes |-> "unknown"]
  /\ entry = [n \in Nodes |-> NoEntry]
  /\ timer = [runs |-> FALSE, last |-> 1]
  /\ call = [n \in Nodes |-> NoCall]
  /\ trigger = [pending |-> {}, runs |-> FALSE, last |-> 0]
  /\ begin = [n \in Nodes |-> None]
  /\ declined = {}
  /\ left \in Setups

Use(what) == left[what] > 0 /\ left' = [left EXCEPT ![what] = @ - 1]

-----------------------------------------------------------------------------
\* NodeStatusMonitor::handleNodeStatus: changeNodeStatus, the retriever's
\* handleNodeStatusChange, then its handleNodeStatusMessage.
Status(n, uptime) ==
  LET appears == monitor[n] # "online"
      restarted == uptime < entry[n].uptime
  IN /\ monitor' = [monitor EXCEPT ![n] = "online"]
     /\ entry' = [entry EXCEPT ![n] =
          [uptime |-> uptime,
           attempts |-> IF appears \/ restarted THEN 0 ELSE @.attempts,
           needed |-> appears \/ restarted \/ @.needed,
           updated |-> TRUE]]
     /\ timer' = [timer EXCEPT !.runs = @ \/ appears \/ restarted]

\* NodeStatusMonitor::handleTimerEvent: a silent node goes offline; the retriever and the
\* trigger forget it.
GoesOffline(n) ==
  /\ ~node[n].up /\ monitor[n] = "online"
  /\ monitor' = [monitor EXCEPT ![n] = "offline"]
  /\ entry' = [entry EXCEPT ![n].needed = FALSE, ![n].attempts = 0]
  /\ trigger' = [trigger EXCEPT !.pending = @ \ {n}]
  /\ UNCHANGED <<node, timer, call, begin, declined, left>>

-----------------------------------------------------------------------------
\* pickNextNodeToQuery: the nodes in the order of the round after the one picked last.
Distance(n, last) == (n - last - 1 + NodeMax) % NodeMax
First(ns, last) == CHOOSE n \in ns : \A m \in ns : Distance(n, last) <= Distance(m, last)

\* NodeInfoRetriever::handleTimerEvent
HandleRetrieverTimer ==
  LET needed == {n \in Nodes : entry[n].needed}
      ready == {n \in needed : entry[n].updated /\ call[n].is = None}
      next == First(ready, timer.last)
  IN /\ timer.runs
     /\ \/ /\ ready # {}
           /\ timer' = [timer EXCEPT !.last = next]
           /\ entry' = [entry EXCEPT ![next].updated = FALSE]
           /\ call' = [call EXCEPT ![next].is = "sent"]
        \/ /\ needed = {}
           /\ timer' = [timer EXCEPT !.runs = FALSE]
           /\ UNCHANGED <<entry, call>>
     /\ UNCHANGED <<node, monitor, trigger, begin, declined, left>>

\* The node answers with its uptime and what it runs.
Answer(n) ==
  /\ call[n].is = "sent" /\ node[n].up /\ begin[n] \in {None, "sent"}
  /\ call' = [call EXCEPT ![n] = [is |-> "answered", uptime |-> node[n].uptime, fw |-> node[n].fw]]
  /\ UNCHANGED <<node, monitor, entry, timer, trigger, begin, declined, left>>

\* FirmwareUpdateTrigger::trySetPendingNode
SetPending(n) == [trigger EXCEPT !.pending = @ \cup {n}, !.runs = TRUE]

\* handleGetNodeInfoResponse of an answer, with the trigger's handleNodeInfoRetrieved: the
\* checker asks for an update of old firmware.
KeptUptime(n, uptime) == entry[n].uptime
UptimeOfAnswer(n, uptime) == uptime

HandleInfo(n) ==
  /\ call[n].is = "answered"
  /\ call' = [call EXCEPT ![n] = NoCall]
  /\ entry' = [entry EXCEPT ![n].uptime = UptimeOfAnswer(n, call[n].uptime), ![n].needed = FALSE]
  /\ trigger' = IF call[n].fw = "old" THEN SetPending(n)
                ELSE [trigger EXCEPT !.pending = @ \ {n}]
  /\ UNCHANGED <<node, monitor, timer, begin, declined, left>>

\* handleGetNodeInfoResponse of a call that timed out, with handleNodeInfoUnavailable.
HandleNoInfo(n) ==
  LET last == entry[n].attempts + 1 >= NumAttempts
  IN /\ call[n].is # None
     /\ IF call[n].is = "sent" /\ ~node[n].up THEN UNCHANGED left ELSE Use("losses")
     /\ call' = [call EXCEPT ![n] = NoCall]
     /\ entry' = [entry EXCEPT ![n].attempts = @ + 1, ![n].needed = @ /\ ~last]
     /\ trigger' = IF last THEN [trigger EXCEPT !.pending = @ \ {n}] ELSE trigger
     /\ UNCHANGED <<node, monitor, timer, begin, declined>>

\* NodeInfoRetriever::invalidateAll
InvalidateAll ==
  /\ Use("invalidations")
  /\ monitor' = [n \in Nodes |-> "unknown"]
  /\ entry' = [n \in Nodes |-> NoEntry]
  /\ call' = [n \in Nodes |-> NoCall]
  /\ UNCHANGED <<node, timer, trigger, begin, declined>>

-----------------------------------------------------------------------------
\* FirmwareUpdateTrigger::handleTimerEvent, with pickNextNodeID: the lowest pending node
\* above the one queried last, or the lowest of all.  0: every pending node has a call.
Lowest(ns) == CHOOSE n \in ns : \A m \in ns : n <= m

pickNextNodeID ==
  LET free == {n \in trigger.pending : begin[n] = None}
      above == {n \in free : n > trigger.last}
  IN IF above # {} THEN Lowest(above) ELSE IF free # {} THEN Lowest(free) ELSE 0

HandleTriggerTimer ==
  /\ trigger.runs
  /\ IF trigger.pending = {}
     THEN trigger' = [trigger EXCEPT !.runs = FALSE] /\ UNCHANGED begin
     ELSE /\ trigger' = [trigger EXCEPT !.last = pickNextNodeID]
          /\ begin' = IF pickNextNodeID = 0 THEN begin
                      ELSE [begin EXCEPT ![pickNextNodeID] = "sent"]
  /\ UNCHANGED <<node, monitor, entry, timer, call, declined, left>>

\* The node begins the update, or says that it cannot.
AnswerBegin(n) ==
  /\ begin[n] = "sent" /\ node[n].up /\ call[n].is # "answered"
  /\ \/ /\ node' = [node EXCEPT ![n].updating = TRUE]
        /\ begin' = [begin EXCEPT ![n] = "ok"]
        /\ UNCHANGED left
     \/ /\ Use("losses")
        /\ begin' = [begin EXCEPT ![n] = "error"]
        /\ UNCHANGED node
  /\ UNCHANGED <<monitor, entry, timer, call, trigger, declined>>

\* handleBeginFirmwareUpdateResponse of an answer: the checker may decline to retry.
HandleBegun(n) ==
  /\ begin[n] \notin {None, "sent"}
  /\ begin' = [begin EXCEPT ![n] = None]
  /\ \/ n \notin trigger.pending /\ UNCHANGED <<trigger, declined>>
     \/ /\ n \in trigger.pending /\ begin[n] = "ok"
        /\ trigger' = [trigger EXCEPT !.pending = @ \ {n}]
        /\ UNCHANGED declined
     \/ n \in trigger.pending /\ begin[n] = "error" /\ UNCHANGED <<trigger, declined>>
     \/ /\ n \in trigger.pending /\ begin[n] = "error"
        /\ trigger' = [trigger EXCEPT !.pending = @ \ {n}]
        /\ declined' = declined \cup {n}
  /\ UNCHANGED <<node, monitor, entry, timer, call, left>>

\* handleBeginFirmwareUpdateResponse of a call that timed out: the node stays pending.
HandleNotBegun(n) ==
  /\ begin[n] # None
  /\ IF begin[n] = "sent" /\ ~node[n].up THEN UNCHANGED left ELSE Use("losses")
  /\ begin' = [begin EXCEPT ![n] = None]
  /\ UNCHANGED <<node, monitor, entry, timer, call, trigger, declined>>

-----------------------------------------------------------------------------
\* The nodes: a second passes, a node starts, fails, or ends its update.
Second(n) ==
  /\ node[n].up /\ call[n].is # "answered" /\ begin[n] \in {None, "sent"}
  /\ LET uptime == IF node[n].uptime = MaxUptime THEN MaxUptime ELSE node[n].uptime + 1
     IN /\ node' = [node EXCEPT ![n].uptime = uptime]
        /\ Status(n, uptime)
  /\ UNCHANGED <<call, trigger, begin, declined, left>>

Start(n) ==
  /\ ~node[n].up /\ n <= left.nodes
  /\ node' = [node EXCEPT ![n].up = TRUE, ![n].uptime = 0]
  /\ Status(n, 0)
  /\ UNCHANGED <<call, trigger, begin, declined, left>>

Stops(n, fw) ==
  /\ node[n].up /\ node[n].uptime >= 2
  /\ node' = [node EXCEPT ![n] = [up |-> FALSE, uptime |-> 0, fw |-> fw, updating |-> FALSE]]

\* A node that fails may come back with the firmware it had from the factory.
Fail(n, fw) ==
  /\ Use("restarts")
  /\ Stops(n, fw)
  /\ UNCHANGED <<monitor, entry, timer, call, trigger, begin, declined>>

Updated(n) ==
  /\ node[n].updating
  /\ Stops(n, "new")
  /\ UNCHANGED <<monitor, entry, timer, call, trigger, begin, declined, left>>

NodeInfoNext ==
  \/ HandleRetrieverTimer \/ HandleTriggerTimer \/ InvalidateAll
  \/ \E n \in Nodes :
       \/ GoesOffline(n) \/ Answer(n) \/ HandleInfo(n) \/ HandleNoInfo(n)
       \/ AnswerBegin(n) \/ HandleBegun(n) \/ HandleNotBegun(n)
       \/ Second(n) \/ Start(n) \/ Updated(n)
       \/ \E fw \in {"old", node[n].fw} : Fail(n, fw)

\* Timers fire, calls end, and a node that is up lives on; nothing makes a node fail, nor
\* an application invalidate what is known.
NodeInfoFairness ==
  /\ WF_nodeInfoVars(HandleRetrieverTimer)
  /\ WF_nodeInfoVars(HandleTriggerTimer)
  /\ \A n \in Nodes :
       /\ WF_nodeInfoVars(Answer(n)) /\ WF_nodeInfoVars(HandleInfo(n) \/ HandleNoInfo(n))
       /\ WF_nodeInfoVars(AnswerBegin(n)) /\ WF_nodeInfoVars(HandleBegun(n) \/ HandleNotBegun(n))
       /\ WF_nodeInfoVars(Second(n)) /\ WF_nodeInfoVars(Start(n)) /\ WF_nodeInfoVars(Updated(n))

NodeInfoSpec == NodeInfoInit /\ [][NodeInfoNext]_nodeInfoVars /\ NodeInfoFairness

-----------------------------------------------------------------------------
\* Every node ends up with the new firmware, or the checker has declined: however often
\* nodes restart, calls time out, and answers of a node's earlier life come late, the
\* retriever asks again and the trigger asks for the update.
UpdatesEnd == \A n \in Nodes : <>[](n > left.nodes \/ node[n].fw = "new" \/ n \in declined)
=============================================================================
