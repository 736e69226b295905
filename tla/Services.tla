------------------------------ MODULE Services ------------------------------
(***************************************************************************)
(* Service calls (libuavcan: ServiceClient, ServiceServer, their publisher *)
(* and subscriber, DeadlineScheduler).  A client node calls one server over *)
(* a bus that loses and delays transfers; calls are numbered, a transfer   *)
(* carries the number of its call as its payload and is matched by its     *)
(* transfer ID alone.  The client is one thread: it handles transfers and  *)
(* deadlines one after the other and calls back the application, which may *)
(* make and cancel calls at any time, from its callbacks too.              *)
(***************************************************************************)
EXTENDS Integers, Sequences, FiniteSets

CONSTANTS
  TidMod,        \* 2^TransferID::BitLen
  Timeout,       \* the request timeout
  Latency,       \* bound on the time a transfer is on its way
  MaxCalls, MaxTime,
  Setups,        \* bounds on lost transfers, failed allocations and failed transmissions
  None

VARIABLES
  now,
  tid,        \* the registry's next transfer ID
  made,       \* the time of every call, by its number
  registry,   \* call_registry_: the calls in the order in which they were added
  listening,  \* the response listener is registered with the dispatcher
  expired,    \* the call whose timeout callback is running
  bus,        \* transfers on their way
  results,    \* what the callback has been given for every call: a response, or 0 for a timeout
  cancelled,  \* calls the application has cancelled, or that failed at once
  left        \* what is left of the setup's bounds

servicesVars == <<now, tid, made, registry, listening, expired, bus, results, cancelled, left>>

ServicesInit ==
  /\ now = 0 /\ tid = 0
  /\ made = <<>>
  /\ registry = <<>> /\ listening = FALSE /\ expired = None
  /\ bus = {}
  /\ results = [n \in 1..MaxCalls |-> <<>>]
  /\ cancelled = {}
  /\ left \in Setups

Use(what) == left[what] > 0 /\ left' = [left EXCEPT ![what] = @ - 1]

\* A transfer ID is used again only when nothing of its last call can be underway.
Window == Timeout + 2 * Latency

\* removeFirstWhere(CallStateMatchingPredicate(tid)): the call whose timeout is being handled
\* does not match.
Matching(t) == {k \in 1..Len(registry) : registry[k].tid = t /\ registry[k].n # expired}

WithoutNothing(t) == registry

Without(t) ==
  IF Matching(t) = {} THEN registry
  ELSE LET first == CHOOSE k \in Matching(t) : \A j \in Matching(t) : k <= j
       IN SubSeq(registry, 1, first - 1) \o SubSeq(registry, first + 1, Len(registry))

RemovedAlways(rest) == registry' = rest /\ listening' = FALSE

\* The listener stops with the last call.
Removed(rest) == registry' = rest /\ listening' = (listening /\ rest # <<>>)

\* prepareToCall: the transfer ID is used up, whatever becomes of the call.
prepareToCall == tid' = (tid + 1) % TidMod

\* addCallState: the listener starts with the first call and stops if there is no memory.
addCallState(state, memory) ==
  IF memory THEN registry' = Append(registry, state) /\ listening' = (registry = <<>> \/ listening)
  ELSE registry' = registry /\ listening' = FALSE

\* publish
Published(state) == bus' = bus \cup {[kind |-> "request", n |-> state.n, tid |-> state.tid, at |-> now]}

\* call: a call that cannot be added or published fails at once.
Call(outcome) ==
  LET n == Len(made) + 1
      state == [n |-> n, tid |-> tid, deadline |-> now + Timeout]
  IN /\ n <= MaxCalls /\ now + Window < MaxTime
     /\ n > TidMod => now - made[n - TidMod] > Window
     /\ prepareToCall
     /\ made' = Append(made, now)
     /\ \/ /\ outcome = "sent"
           /\ addCallState(state, TRUE)
           /\ Published(state)
           /\ UNCHANGED <<cancelled, left>>
        \/ /\ outcome = "memory"
           /\ Use("memory")
           /\ addCallState(state, FALSE)
           /\ cancelled' = cancelled \cup {n}
           /\ UNCHANGED bus
        \/ /\ outcome = "send"
           /\ Use("sends")
           /\ Removed(registry)
           /\ cancelled' = cancelled \cup {n}
           /\ UNCHANGED bus
     /\ UNCHANGED <<now, expired, results>>

\* cancelCall, by the application, of a call it has not had a callback for.
CancelCall(k) ==
  /\ Use("cancels")
  /\ registry[k].n # expired
  /\ Removed(Without(registry[k].tid))
  /\ cancelled' = cancelled \cup {registry[k].n}
  /\ UNCHANGED <<now, tid, made, expired, bus, results>>

\* ServiceServer::handleReceivedDataStruct: the callback, then the response.
HandleRequest(m) ==
  /\ m.kind = "request"
  /\ bus' = (bus \ {m}) \cup {[m EXCEPT !.kind = "response", !.at = now]}
  /\ UNCHANGED <<now, tid, made, registry, listening, expired, results, cancelled, left>>

\* The application suppresses the response, or it cannot be sent.
IgnoreRequest(m) ==
  /\ m.kind = "request"
  /\ Use("losses")
  /\ bus' = bus \ {m}
  /\ UNCHANGED <<now, tid, made, registry, listening, expired, results, cancelled>>

\* shouldAcceptFrame, handleIncomingTransfer, handleReceivedDataStruct: the call is cancelled
\* before the callback runs.  A response that cannot be decoded is counted and forgotten.
HandleResponse(m, decoded) ==
  /\ m.kind = "response" /\ expired = None
  /\ bus' = bus \ {m}
  /\ IF decoded THEN UNCHANGED left ELSE Use("losses")
  /\ IF listening /\ Matching(m.tid) # {} /\ decoded
     THEN LET k == CHOOSE k \in Matching(m.tid) : \A j \in Matching(m.tid) : k <= j
          IN /\ results' = [results EXCEPT ![registry[k].n] = Append(@, m.n)]
             /\ Removed(Without(m.tid))
     ELSE UNCHANGED <<registry, listening, results>>
  /\ UNCHANGED <<now, tid, made, expired, cancelled>>

\* DeadlineScheduler: the handlers in the order of their deadlines.
Due == {k \in 1..Len(registry) : registry[k].deadline <= now}

Earliest == CHOOSE k \in Due :
  \A j \in Due : registry[k].deadline < registry[j].deadline
                 \/ (registry[k].deadline = registry[j].deadline /\ k <= j)

\* CallState::handleDeadline, and the client's own, which it makes the next to run: the
\* callback.
HandleDeadline ==
  /\ expired = None /\ Due # {}
  /\ expired' = registry[Earliest].n
  /\ results' = [results EXCEPT ![registry[Earliest].n] = Append(@, 0)]
  /\ UNCHANGED <<now, tid, made, registry, listening, bus, cancelled, left>>

EndOfDeadlineAll ==
  /\ expired # None
  /\ expired' = None
  /\ Removed(<<>>)
  /\ UNCHANGED <<now, tid, made, bus, results, cancelled, left>>

\* After the callback: removeAllWhere(hasTimedOut), and the listener stops with the last call.
EndOfDeadline ==
  /\ expired # None
  /\ expired' = None
  /\ Removed(SelectSeq(registry, LAMBDA c : c.n # expired))
  /\ UNCHANGED <<now, tid, made, bus, results, cancelled, left>>

Lose(m) ==
  /\ Use("losses")
  /\ bus' = bus \ {m}
  /\ UNCHANGED <<now, tid, made, registry, listening, expired, results, cancelled>>

Tick ==
  /\ now < MaxTime /\ expired = None /\ Due = {}
  /\ \A m \in bus : now - m.at < Latency
  /\ now' = now + 1
  /\ UNCHANGED <<tid, made, registry, listening, expired, bus, results, cancelled, left>>

ServicesNext ==
  \/ \E outcome \in {"sent", "memory", "send"} : Call(outcome)
  \/ \E k \in 1..Len(registry) : CancelCall(k)
  \/ \E m \in bus : HandleRequest(m) \/ IgnoreRequest(m) \/ Lose(m)
  \/ \E m \in bus, decoded \in BOOLEAN : HandleResponse(m, decoded)
  \/ HandleDeadline \/ EndOfDeadline
  \/ Tick

\* The node spins: deadlines are handled and their callbacks return; time goes on.
ServicesSpec ==
  /\ ServicesInit /\ [][ServicesNext]_servicesVars
  /\ WF_servicesVars(HandleDeadline) /\ WF_servicesVars(EndOfDeadline) /\ WF_servicesVars(Tick)
  /\ WF_servicesVars(\E m \in bus : HandleRequest(m) \/ HandleResponse(m, TRUE))

-----------------------------------------------------------------------------
\* A call is called back at most once, with the response to it or with its timeout, and a
\* call that was cancelled before is not called back at all.
OneResultEach ==
  \A n \in 1..MaxCalls :
    /\ Len(results[n]) <= 1
    /\ results[n] # <<>> => n \notin cancelled /\ results[n][1] \in {n, 0}

\* As long as memory does not run out, a client with calls pending listens for responses.
ListensWhilePending ==
  registry # <<>> /\ left.memory > 0 => listening

\* Every call that was not cancelled is called back.
EveryCallEnds ==
  \A n \in 1..MaxCalls : (Len(made) >= n) ~> (results[n] # <<>> \/ n \in cancelled)
=============================================================================
