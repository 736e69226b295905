----------------------------- MODULE AdcsCommand -----------------------------
(***************************************************************************)
(* Agent::adcs_command: pool threads that share one UAVCAN client behind a *)
(* latch, and the client's blocking call: a request with a transfer id     *)
(* (5 bits, as libuavcan's), a registry of pending calls, and a spin loop  *)
(* that runs until nothing is pending.  Calls are numbered; an answer on   *)
(* the bus carries its call's number as history.                           *)
(***************************************************************************)
EXTENDS Integers, FiniteSets

CONSTANTS
  Callers,   \* pool threads in adcs_command
  MaxCalls,  \* bound on the calls
  Faults,    \* what may fail: subset of {"down", "publish", "spin"}
  None

TransferIds == 0..31
Calls == 1..MaxCalls
Statuses == {"ok", "fail", "unknown"}

VARIABLES
  client,    \* whether the agent has a client: the CAN interface is enabled
  latch,     \* the value of the semaphore
  c,         \* a caller's next step
  owned,     \* m_owned of its sem_guard
  call,      \* the number of its last call, or None
  stat,      \* the status it has for the response: one of Statuses, or None
  answer,    \* the number of the call whose response it took, or None
  calls,     \* calls so far, each with the next transfer id
  registry,  \* pending calls: records of transfer id and number
  response,  \* response_ of the client: number and status, or None
  success,   \* call_was_successful_
  bus,       \* requests and answers under way
  down,      \* whether the driver has found its interface down
  broke      \* history: spin has returned an error

callerVars == <<c, owned, call, stat, answer>>
clientVars == <<calls, registry, response, success>>
commandVars == <<client, latch, callerVars, clientVars, bus, down, broke>>

Inside == {"adapt", "setup", "call", "spin", "finish"}
Ended == {"ok", "bad", "threw"}
Pending == [tid : TransferIds, n : Calls]
Response == [n : Calls, status : Statuses]
Message == [tid : TransferIds, n : Calls, status : Statuses \union {"request"}]

\* The type of every variable; whoever sets the code has a status to set it by.
CommandTypeOK ==
  /\ client \in BOOLEAN /\ down \in BOOLEAN /\ broke \in BOOLEAN /\ success \in BOOLEAN
  /\ c \in [Callers -> {"idle", "try"} \union Inside \union Ended]
  /\ owned \in [Callers -> BOOLEAN]
  /\ call \in [Callers -> Calls \union {None}]
  /\ stat \in [Callers -> Statuses \union {None}]
  /\ answer \in [Callers -> Calls \union {None}]
  /\ calls \in 0..MaxCalls
  /\ registry \subseteq Pending /\ bus \subseteq Message
  /\ response \in Response \union {None}
  /\ latch \in 0..1
  /\ \A k \in Callers : c[k] = "finish" => stat[k] # None

CommandInit ==
  /\ client \in BOOLEAN
  /\ latch = 1
  /\ c = [k \in Callers |-> "idle"]
  /\ owned = [k \in Callers |-> FALSE]
  /\ call = [k \in Callers |-> None]
  /\ stat = [k \in Callers |-> None]
  /\ answer = [k \in Callers |-> None]
  /\ calls = 0 /\ registry = {}
  /\ response = None /\ success = FALSE
  /\ bus = {} /\ down = FALSE /\ broke = FALSE

Goto(k, to) == c' = [c EXCEPT ![k] = to]

\* The outgoing transfer registry's transfer id, which every call increments.
NextTid == calls % 32

\* Bound: the calls made and those that may still follow a request.
CallsToCome == {k \in Callers : c[k] \in {"try", "adapt", "setup", "call"}}

-----------------------------------------------------------------------------
\* adcs_command is called.
Ask(k) ==
  /\ c[k] = "idle"
  /\ calls + Cardinality(CallsToCome) < MaxCalls
  /\ Goto(k, IF client THEN "try" ELSE "bad")
  /\ UNCHANGED <<client, latch, owned, call, stat, answer, clientVars, bus, down, broke>>

TryWait(k) ==
  /\ c[k] = "try"
  /\ latch' = IF latch > 0 THEN latch - 1 ELSE latch
  /\ owned' = [owned EXCEPT ![k] = latch > 0]
  /\ Goto(k, IF latch > 0 THEN "adapt" ELSE "bad")
  /\ UNCHANGED <<client, call, stat, answer, clientVars, bus, down, broke>>

\* Faulty variant of AdaptFails: the status is not set.
AdaptFailsSilently(k) ==
  /\ c[k] = "adapt"
  /\ Goto(k, "finish")
  /\ UNCHANGED <<client, latch, owned, call, stat, answer, clientVars, bus, down, broke>>

\* AdcsCommand: Adapt throws on a command it does not know or an aperture that
\* is too long.
AdaptFails(k) ==
  /\ c[k] = "adapt"
  /\ stat' = [stat EXCEPT ![k] = "fail"]
  /\ Goto(k, "finish")
  /\ UNCHANGED <<client, latch, owned, call, answer, clientVars, bus, down, broke>>

Adapt(k) ==
  /\ c[k] = "adapt"
  /\ Goto(k, "setup")
  /\ UNCHANGED <<client, latch, owned, call, stat, answer, clientVars, bus, down, broke>>

\* blockingCall: setup.
Setup(k) ==
  /\ c[k] = "setup"
  /\ success' = FALSE
  /\ response' = None
  /\ Goto(k, "call")
  /\ UNCHANGED <<client, latch, owned, call, stat, answer, calls, registry,
                 bus, down, broke>>

\* ServiceClient::call: a transfer id, an entry in the registry, the request.
Call(k) ==
  /\ c[k] = "call"
  /\ LET n == calls + 1
     IN  /\ calls' = n
         /\ call' = [call EXCEPT ![k] = n]
         /\ registry' = registry \union {[tid |-> NextTid, n |-> n]}
         /\ bus' = bus \union {[tid |-> NextTid, n |-> n, status |-> "request"]}
  /\ Goto(k, "spin")
  /\ UNCHANGED <<client, latch, owned, stat, answer, response, success, down, broke>>

\* The request cannot be published: the entry is removed again.
CallFails(k) ==
  /\ c[k] = "call"
  /\ "publish" \in Faults
  /\ calls' = calls + 1
  /\ stat' = [stat EXCEPT ![k] = "fail"]
  /\ Goto(k, "finish")
  /\ UNCHANGED <<client, latch, owned, call, answer, registry, response, success,
                 bus, down, broke>>

-----------------------------------------------------------------------------
Spinning(k) == c[k] = "spin" /\ registry # {} /\ ~down

\* Faulty variant of Receive: an answer is accepted whatever its transfer id.
ReceiveAny(k, m) ==
  /\ Spinning(k)
  /\ m \in bus /\ m.status # "request"
  /\ bus' = bus \ {m}
  /\ registry' = {}
  /\ response' = [n |-> m.n, status |-> m.status]
  /\ success' = TRUE
  /\ UNCHANGED <<client, latch, callerVars, calls, down, broke>>

\* An answer comes.  One whose transfer id is not pending is dropped; else the
\* call is removed and the callback keeps the response.
Receive(k, m) ==
  /\ Spinning(k)
  /\ m \in bus /\ m.status # "request"
  /\ bus' = bus \ {m}
  /\ \/ /\ \A p \in registry : p.tid # m.tid
        /\ UNCHANGED <<registry, response, success>>
     \/ \E p \in registry :
          /\ p.tid = m.tid
          /\ registry' = registry \ {p}
          /\ response' = [n |-> m.n, status |-> m.status]
          /\ success' = TRUE
  /\ UNCHANGED <<client, latch, callerVars, calls, down, broke>>

\* Faulty variant of Timeout: the callback is called but the entry is kept.
TimeoutKeeps(k) ==
  /\ Spinning(k)
  /\ response' = None
  /\ success' = FALSE
  /\ UNCHANGED <<client, latch, callerVars, calls, registry, bus, down, broke>>

\* The oldest pending call times out: the callback keeps an empty response.
Timeout(k) ==
  /\ Spinning(k)
  /\ \E p \in registry :
       /\ \A q \in registry : p.n <= q.n
       /\ registry' = registry \ {p}
  /\ response' = None
  /\ success' = FALSE
  /\ UNCHANGED <<client, latch, callerVars, calls, bus, down, broke>>

\* spin returns an error: blockingCall returns it, and the call stays pending.
SpinFails(k) ==
  /\ Spinning(k)
  /\ "spin" \in Faults
  /\ stat' = [stat EXCEPT ![k] = "fail"]
  /\ broke' = TRUE
  /\ Goto(k, "finish")
  /\ UNCHANGED <<client, latch, owned, call, answer, clientVars, bus, down>>

\* The driver's interface is down: AllIfacesDownException goes up to the caller
\* of adcs_command; its sem_guard posts on the way.
SpinThrows(k) ==
  /\ c[k] = "spin"
  /\ registry # {} /\ down
  /\ latch' = latch + 1
  /\ owned' = [owned EXCEPT ![k] = FALSE]
  /\ Goto(k, "threw")
  /\ UNCHANGED <<client, call, stat, answer, clientVars, bus, down, broke>>

\* Nothing is pending: a successful call's response is taken.
Return(k) ==
  /\ c[k] = "spin"
  /\ registry = {}
  /\ IF success /\ response # None
     THEN /\ stat' = [stat EXCEPT ![k] = response.status]
          /\ answer' = [answer EXCEPT ![k] = response.n]
     ELSE /\ stat' = [stat EXCEPT ![k] = "fail"]
          /\ UNCHANGED answer
  /\ Goto(k, "finish")
  /\ UNCHANGED <<client, latch, owned, call, clientVars, bus, down, broke>>

\* Faulty variant of Finish: the latch is released only after a success.
FinishKeepsLatch(k) ==
  /\ c[k] = "finish"
  /\ latch' = IF owned[k] /\ stat[k] = "ok" THEN latch + 1 ELSE latch
  /\ owned' = [owned EXCEPT ![k] = FALSE]
  /\ Goto(k, IF stat[k] = "ok" THEN "ok" ELSE "bad")
  /\ UNCHANGED <<client, call, stat, answer, clientVars, bus, down, broke>>

\* adcs_command sets its code by the status; sem_guard posts.
Finish(k) ==
  /\ c[k] = "finish"
  /\ latch' = IF owned[k] THEN latch + 1 ELSE latch
  /\ owned' = [owned EXCEPT ![k] = FALSE]
  /\ Goto(k, IF stat[k] = "ok" THEN "ok" ELSE "bad")
  /\ UNCHANGED <<client, call, stat, answer, clientVars, bus, down, broke>>

\* The response is sent and the thread takes another request.
Reply(k) ==
  /\ c[k] \in Ended
  /\ Goto(k, "idle")
  /\ call' = [call EXCEPT ![k] = None]
  /\ stat' = [stat EXCEPT ![k] = None]
  /\ answer' = [answer EXCEPT ![k] = None]
  /\ UNCHANGED <<client, latch, owned, clientVars, bus, down, broke>>

-----------------------------------------------------------------------------
\* The shim answers a request, now or after it has been given up.
Serve(m, s) ==
  /\ m.status = "request"
  /\ bus' = (bus \ {m}) \union {[m EXCEPT !.status = s]}
  /\ UNCHANGED <<client, latch, callerVars, clientVars, down, broke>>

\* A request or an answer is lost.
Lose(m) ==
  /\ bus' = bus \ {m}
  /\ UNCHANGED <<client, latch, callerVars, clientVars, down, broke>>

\* The interface goes down, and stays so for this client's driver.
GoDown ==
  /\ "down" \in Faults
  /\ ~down
  /\ down' = TRUE
  /\ UNCHANGED <<client, latch, callerVars, clientVars, bus, broke>>

Works(k) ==
  \/ TryWait(k) \/ Adapt(k) \/ AdaptFails(k) \/ Setup(k) \/ Call(k)
  \/ SpinThrows(k) \/ Return(k) \/ Finish(k)
Handle(k) ==
  \/ Works(k) \/ CallFails(k) \/ Timeout(k) \/ SpinFails(k)
  \/ \E m \in bus : Receive(k, m)
Environment == GoDown \/ \E m \in bus : Lose(m) \/ \E s \in Statuses : Serve(m, s)
CommandNext == Environment \/ \E k \in Callers : Ask(k) \/ Handle(k) \/ Reply(k)
CommandSpec == CommandInit /\ [][CommandNext]_commandVars

\* A handler's own steps are taken, and a call that is pending while it spins times
\* out in the end (its deadline passes); no fault has to happen.
FairCommandSpec ==
  CommandSpec /\ \A k \in Callers : WF_commandVars(Works(k)) /\ WF_commandVars(Timeout(k))

-----------------------------------------------------------------------------
\* One thread at a time uses the client, and the latch is free exactly when none
\* does, whichever way the last one left (sem_guard in adcs_command).
LatchHeld ==
  /\ latch = 1 - Cardinality({k \in Callers : owned[k]})
  /\ \A k \in Callers : owned[k] <=> c[k] \in Inside

\* A command that is answered with Ok was answered by the shim, with OK, and the
\* answer is to this very call, however late other answers come; once spin has
\* returned an error it may be to the call that was left pending.
AnswerIsOwn ==
  \A k \in Callers : c[k] = "ok" =>
    answer[k] # None /\ stat[k] = "ok" /\ (answer[k] = call[k] \/ broke)

\* Every command that is begun gets its answer (the pending call times out), and
\* so the latch is free again.
EveryCommandEnds == \A k \in Callers : c[k] = "try" ~> c[k] \in Ended
=============================================================================
