--------------------------- MODULE MCAgentThreads ---------------------------
(***************************************************************************)
(* The parts of the agent that run on threads of their own or wait for     *)
(* others: the health check, the server thread, the log and the ADCS       *)
(* command.  They share no state, so a behaviour of this module is a       *)
(* behaviour of one of them, chosen by the variable part, while the others *)
(* stay in an initial state.                                               *)
(***************************************************************************)
EXTENDS Naturals

CONSTANTS
  None,
  t1, t2, t3,  \* Log: threads
  k1, k2       \* AdcsCommand: requests

VARIABLES
  part,
  call, m, timer, child, wstat, output, writers, pending, got, status, state, code,
  can, sm, listener, running, t, node, services, up, downs, ssignals,
  sem, pc, took, lines, h, hTook, hLines, signals,
  client, latch, c, owned, acall, stat, answer, calls, registry, response, success, bus, down, broke

H == INSTANCE HealthCheck WITH MaxCalls <- 2, Faults <- {"pipe", "fork", "thread"}
S == INSTANCE UavcanServer WITH
       m <- sm, signals <- ssignals, MaxDowns <- 3, MaxSignals <- 2, Faults <- {"services"}
L == INSTANCE Log WITH Threads <- {t1, t2, t3}, Lines <- 2, MaxSignals <- 2
A == INSTANCE AdcsCommand WITH
       call <- acall, Callers <- {k1, k2}, MaxCalls <- 2, Faults <- {"down", "publish", "spin"}

hVars == <<call, m, timer, child, wstat, output, writers, pending, got, status, state, code>>
sVars == <<can, sm, listener, running, t, node, services, up, downs, ssignals>>
lVars == <<sem, pc, took, lines, h, hTook, hLines, signals>>
aVars == <<client, latch, c, owned, acall, stat, answer, calls, registry, response, success,
           bus, down, broke>>
vars == <<part, hVars, sVars, lVars, aVars>>

Init ==
  /\ part \in {"health", "server", "log", "adcs"}
  /\ H!HealthInit /\ L!LogInit
  /\ S!ServerInit /\ (part # "server" => can /\ up)
  /\ A!CommandInit /\ (part # "adcs" => client)

Next ==
  \/ part = "health" /\ H!HealthNext /\ UNCHANGED <<part, sVars, lVars, aVars>>
  \/ part = "server" /\ S!ServerNext /\ UNCHANGED <<part, hVars, lVars, aVars>>
  \/ part = "log" /\ L!LogNext /\ UNCHANGED <<part, hVars, sVars, aVars>>
  \/ part = "adcs" /\ A!CommandNext /\ UNCHANGED <<part, hVars, sVars, lVars>>

\* The fairness of every part, for the part that runs.
Fairness ==
  /\ WF_hVars(part = "health" /\ H!HandlerStep)
  /\ WF_hVars(part = "health" /\ H!TimerStep)
  /\ \A i \in 1..2 : WF_hVars(part = "health" /\ H!DescendantExits(i))
  /\ WF_sVars(part = "server" /\ S!MainStep)
  /\ WF_sVars(part = "server" /\ S!ThreadStep)
  /\ \A i \in {t1, t2, t3} : WF_lVars(part = "log" /\ L!LogStep(i))
  /\ \A k \in {k1, k2} :
       WF_aVars(part = "adcs" /\ A!Works(k)) /\ WF_aVars(part = "adcs" /\ A!Timeout(k))

Spec == Init /\ [][Next]_vars /\ Fairness

-----------------------------------------------------------------------------
\* No signal goes to a process that is not the request's child, a good report is
\* the word of a child that ended well, and a request that did not end with a system
\* error has reaped its child and left no signal pending: KillsOnlyItsChild,
\* HealthyIsChildsWord and NothingLeft of HealthCheck.
ChildrenHandled ==
  part = "health" => H!KillsOnlyItsChild /\ H!HealthyIsChildsWord /\ H!NothingLeft

\* One thread at a time uses the client, and a command that is answered with Ok was
\* answered by the shim, with OK, and to this very call: LatchHeld and AnswerIsOwn
\* of AdcsCommand.
AnswerIsOwn == part = "adcs" => A!LatchHeld /\ A!AnswerIsOwn

\* No service outlives its node, however often reconnecting fails half-way
\* (UavcanServer).
ServicesHaveNode == part = "server" => S!ServicesHaveNode

\* Every health request is answered, however long its child would run, unless an
\* orphan of an earlier one ends its timer, and every command that is begun gets its
\* answer: HandlerReturns of HealthCheck and EveryCommandEnds of AdcsCommand.
RequestsEnd == H!HandlerReturns /\ A!EveryCommandEnds

\* The server thread that lost its interface makes a node and sets about its
\* services once it is up again, and a signal that reaches the listener ends the
\* agent: Reconnects and StopEnds of UavcanServer.
ServerLive ==
  /\ part = "server" /\ t = "sleep" ~>
       (t \in {"readd", "spin"} /\ node = "live") \/ ~up \/ ~running
  /\ S!StopEnds

\* No thread leaves log without giving the semaphore back; until a signal comes one
\* thread at a time writes, and every line that is begun is written and log returns:
\* TokenKept, OneWriter and LinesEnd of Log.
LogWorks == []L!TokenKept /\ []L!OneWriter /\ L!LinesEnd
=============================================================================
