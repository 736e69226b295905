--------------------------------- MODULE Log ---------------------------------
(***************************************************************************)
(* Log::log and its semaphore l_sem: threads write lines, and a quit       *)
(* signal's handler, run on top of whichever thread it interrupts, writes  *)
(* one or two lines of its own.  A line is one that the level lets through.*)
(***************************************************************************)
EXTENDS Integers, FiniteSets

CONSTANTS
  Threads,    \* the threads of the agent
  Lines,      \* bound on the lines each of them logs
  MaxSignals  \* bound on the quit signals

VARIABLES
  sem,     \* the value of l_sem
  pc,      \* a thread's step in log
  took,    \* whether its sem_wait succeeded
  lines,   \* lines it has still to log
  h,       \* the same for the handler on top of it, "none" if there is none
  hTook, hLines,
  signals

threadVars == <<pc, took, lines>>
handlerVars == <<h, hTook, hLines>>
logVars == <<sem, threadVars, handlerVars, signals>>

Steps == {"wait", "write", "post"}

\* The type of every variable; sem_post adds at most one for every signal.
LogTypeOK ==
  /\ sem \in 0..(1 + MaxSignals)
  /\ pc \in [Threads -> Steps \union {"idle"}]
  /\ h \in [Threads -> Steps \union {"none"}]
  /\ took \in [Threads -> BOOLEAN] /\ hTook \in [Threads -> BOOLEAN]
  /\ lines \in [Threads -> 0..Lines] /\ hLines \in [Threads -> 0..2]
  /\ signals \in 0..MaxSignals

LogInit ==
  /\ sem = 1
  /\ pc = [t \in Threads |-> "idle"] /\ took = [t \in Threads |-> FALSE]
  /\ lines = [t \in Threads |-> Lines]
  /\ h = [t \in Threads |-> "none"] /\ hTook = [t \in Threads |-> FALSE]
  /\ hLines = [t \in Threads |-> 0]
  /\ signals = 0

\* A thread goes on when no handler is on top of it.
Runs(t) == h[t] = "none"

-----------------------------------------------------------------------------
\* log is called.
Enter(t) ==
  /\ Runs(t) /\ pc[t] = "idle"
  /\ lines[t] > 0
  /\ lines' = [lines EXCEPT ![t] = @ - 1]
  /\ pc' = [pc EXCEPT ![t] = "wait"]
  /\ UNCHANGED <<sem, took, handlerVars, signals>>

\* Faulty variant of Wait: a semaphore that is taken is not waited for.
WaitTries(t) ==
  /\ Runs(t) /\ pc[t] = "wait"
  /\ sem' = IF sem > 0 THEN sem - 1 ELSE 0
  /\ took' = [took EXCEPT ![t] = TRUE]
  /\ pc' = [pc EXCEPT ![t] = "write"]
  /\ UNCHANGED <<lines, handlerVars, signals>>

\* Faulty variant of Wait: it waits for a second token.
WaitMore(t) ==
  /\ Runs(t) /\ pc[t] = "wait"
  /\ sem > 1
  /\ sem' = sem - 1
  /\ took' = [took EXCEPT ![t] = TRUE]
  /\ pc' = [pc EXCEPT ![t] = "write"]
  /\ UNCHANGED <<lines, handlerVars, signals>>

Wait(t) ==
  /\ Runs(t) /\ pc[t] = "wait"
  /\ sem > 0
  /\ sem' = sem - 1
  /\ took' = [took EXCEPT ![t] = TRUE]
  /\ pc' = [pc EXCEPT ![t] = "write"]
  /\ UNCHANGED <<lines, handlerVars, signals>>

Write(t) ==
  /\ Runs(t) /\ pc[t] = "write"
  /\ pc' = [pc EXCEPT ![t] = "post"]
  /\ UNCHANGED <<sem, took, lines, handlerVars, signals>>

\* Faulty variant of Post: the last line of a thread returns without the post.
PostSkipped(t) ==
  /\ Runs(t) /\ pc[t] = "post"
  /\ sem' = IF lines[t] = 0 THEN sem ELSE sem + 1
  /\ took' = [took EXCEPT ![t] = FALSE]
  /\ pc' = [pc EXCEPT ![t] = "idle"]
  /\ UNCHANGED <<lines, handlerVars, signals>>

Post(t) ==
  /\ Runs(t) /\ pc[t] = "post"
  /\ sem' = sem + 1
  /\ took' = [took EXCEPT ![t] = FALSE]
  /\ pc' = [pc EXCEPT ![t] = "idle"]
  /\ UNCHANGED <<lines, handlerVars, signals>>

-----------------------------------------------------------------------------
\* A quit signal is delivered to t; the others are blocked while it is handled.
\* A sem_wait that blocks returns EINTR when the handler has returned (the action
\* is set without SA_RESTART), and log does not look at the result.
Signal(t) ==
  /\ signals < MaxSignals
  /\ h[t] = "none"
  /\ signals' = signals + 1
  /\ h' = [h EXCEPT ![t] = "wait"]
  /\ \E k \in 1..2 : hLines' = [hLines EXCEPT ![t] = k - 1]
  /\ pc' = [pc EXCEPT ![t] = IF @ = "wait" /\ sem = 0 THEN "write" ELSE @]
  /\ UNCHANGED <<sem, took, lines, hTook>>

HandlerWait(t) ==
  /\ h[t] = "wait"
  /\ sem > 0
  /\ sem' = sem - 1
  /\ hTook' = [hTook EXCEPT ![t] = TRUE]
  /\ h' = [h EXCEPT ![t] = "write"]
  /\ UNCHANGED <<threadVars, hLines, signals>>

HandlerWrite(t) ==
  /\ h[t] = "write"
  /\ h' = [h EXCEPT ![t] = "post"]
  /\ UNCHANGED <<sem, threadVars, hTook, hLines, signals>>

\* The handler logs its second line, or returns.
HandlerPost(t) ==
  /\ h[t] = "post"
  /\ sem' = sem + 1
  /\ hTook' = [hTook EXCEPT ![t] = FALSE]
  /\ h' = [h EXCEPT ![t] = IF hLines[t] > 0 THEN "wait" ELSE "none"]
  /\ hLines' = [hLines EXCEPT ![t] = 0]
  /\ UNCHANGED <<threadVars, signals>>

LogStep(t) ==
  \/ Enter(t) \/ Wait(t) \/ Write(t) \/ Post(t)
  \/ HandlerWait(t) \/ HandlerWrite(t) \/ HandlerPost(t)
LogNext == \E t \in Threads : LogStep(t) \/ Signal(t)
LogSpec == LogInit /\ [][LogNext]_logVars

\* Every thread that can take a step does.
FairLogSpec == LogSpec /\ \A t \in Threads : WF_logVars(LogStep(t))

-----------------------------------------------------------------------------
Writing == {t \in Threads : Runs(t) /\ pc[t] = "write"} \union {t \in Threads : h[t] = "write"}
Holding == {t \in Threads : took[t]} \union {t \in Threads : hTook[t]}

\* Signals or not, l_sem is at 0 only while some line is between its wait and its
\* post: no thread leaves log without giving the semaphore back.
TokenKept == sem = 0 => Holding # {}

\* Until a signal comes one thread at a time writes to the log (log waits for
\* l_sem; a wait that a signal interrupts is not repeated).
OneWriter == signals = 0 => Cardinality(Writing) <= 1

\* Every line that is begun is written and log returns, unless a signal comes:
\* its handler logs as well and may wait for the thread it has interrupted.
LinesEnd == \A t \in Threads : pc[t] = "wait" ~> pc[t] = "idle" \/ signals > 0
=============================================================================
