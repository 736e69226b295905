---------------------------- MODULE HealthCheck -----------------------------
(***************************************************************************)
(* healthCheckHandler of AgentUAVCANServer.cpp with runProcessGetOutput of *)
(* Utils.cpp: each request runs a child, reads its output and waits for it *)
(* with a timer thread at its side.  Requests come one after the other on  *)
(* the UAVCAN thread; SIGCHLD is blocked and pends for the whole process.  *)
(***************************************************************************)
EXTENDS Integers, FiniteSets

CONSTANTS
  MaxCalls,  \* bound on the requests
  Faults,    \* the calls that may fail: "pipe", "fork", "thread"
  None

Calls == 1..MaxCalls
\* What a child prints: nothing, a good document, one with a field of a wrong
\* type, one with a field missing, no JSON, or more than the limit.
Outputs == {"nothing", "valid", "wrong", "missing", "garbage", "long"}
SIGKILL == 9

VARIABLES
  call,    \* the current request, or the last one
  m,       \* what the handler does next
  timer,   \* what its timer thread does next
  child,   \* child[c]: the child of request c
  wstat,   \* wstat[c]: how it ended, an exit code or minus a signal
  output,  \* output[c]: what it printed
  writers, \* writers[c]: the processes that have the pipe open for writing
  pending, \* SIGCHLD is pending
  got,     \* hk_output
  status,  \* the result of runProcessGetOutput
  state, code  \* health_state and response_code of the response

procVars == <<child, wstat, output, writers>>
rspVars == <<status, state, code>>
healthVars == <<call, m, timer, child, wstat, output, writers, pending, got, status, state, code>>

\* The type of every variable; health_state is what the byte of the response can
\* hold: an exit status, or 128 and the signal that ended the child.
HealthTypeOK ==
  /\ call \in 0..MaxCalls
  /\ m \in {"idle", "pipe", "fork", "thread", "read", "kill", "join", "reap", "parse"}
  /\ timer \in {"none", "wait", "kill", "ended"}
  /\ child \in [Calls -> {"none", "running", "zombie", "reaped"}]
  /\ wstat \in [Calls -> {None, 0, 122, -SIGKILL}]
  /\ output \in [Calls -> Outputs]
  /\ writers \in [Calls -> SUBSET {"child", "descendant"}]
  /\ pending \in BOOLEAN
  /\ got \in Outputs \ {"long"}
  /\ status \in {None, 0, 122, 128 + SIGKILL}
  /\ state \in {0, 122, 128 + SIGKILL}
  /\ code \in {0, 22, 50, 51, 52}

HealthInit ==
  /\ call = 0 /\ m = "idle" /\ timer = "none"
  /\ child = [c \in Calls |-> "none"]
  /\ wstat = [c \in Calls |-> None]
  /\ output = [c \in Calls |-> "nothing"]
  /\ writers = [c \in Calls |-> {}]
  /\ pending = FALSE /\ got = "nothing"
  /\ status = None /\ state = 0 /\ code = 0

-----------------------------------------------------------------------------
(***************************************************************************)
(* The handler                                                             *)
(***************************************************************************)
Request ==
  /\ m = "idle" /\ call < MaxCalls
  /\ call' = call + 1
  /\ m' = "pipe"
  /\ got' = "nothing" /\ status' = None /\ state' = 0 /\ code' = 0
  /\ UNCHANGED <<timer, procVars, pending>>

\* A system_error thrown by runProcessGetOutput becomes response code 51.
SystemError ==
  /\ code' = 51
  /\ m' = "idle"
  /\ UNCHANGED <<got, call, timer, pending, status, state>>

Pipe ==
  /\ m = "pipe"
  /\ m' = "fork"
  /\ UNCHANGED <<got, call, timer, procVars, pending, rspVars>>

PipeFails ==
  /\ m = "pipe" /\ "pipe" \in Faults
  /\ SystemError
  /\ UNCHANGED procVars

Fork ==
  /\ m = "fork"
  /\ child' = [child EXCEPT ![call] = "running"]
  /\ writers' = [writers EXCEPT ![call] = {"child"}]
  /\ m' = "thread"
  /\ UNCHANGED <<got, call, timer, wstat, output, pending, rspVars>>

ForkFails ==
  /\ m = "fork" /\ "fork" \in Faults
  /\ SystemError
  /\ UNCHANGED procVars

StartTimer ==
  /\ m = "thread"
  /\ timer' = "wait"
  /\ m' = "read"
  /\ UNCHANGED <<got, call, procVars, pending, rspVars>>

\* The constructor of the thread throws; the child is left to itself.
StartTimerFails ==
  /\ m = "thread" /\ "thread" \in Faults
  /\ SystemError
  /\ UNCHANGED procVars

\* read_into_string returns true at the end of the file ...
ReadAll ==
  /\ m = "read" /\ writers[call] = {} /\ output[call] # "long"
  /\ got' = output[call]
  /\ m' = "join"
  /\ UNCHANGED <<call, timer, procVars, pending, rspVars>>

\* ... and false when there is too much output, of which a part is kept ...
ReadTooLong ==
  /\ m = "read" /\ output[call] = "long"
  /\ got' \in {"valid", "garbage"}
  /\ m' = "kill"
  /\ UNCHANGED <<call, timer, procVars, pending, rspVars>>

\* ... and when a signal interrupts read().
ReadInterrupted ==
  /\ m = "read"
  /\ got' \in {"nothing", "garbage", output[call]} \ {"long"}
  /\ m' = "kill"
  /\ UNCHANGED <<call, timer, procVars, pending, rspVars>>

\* kill() ends a running process and raises SIGCHLD; a zombie stays one.
Killed(c) ==
  /\ child[c] \in {"running", "zombie"}
  /\ IF child[c] = "zombie" THEN UNCHANGED <<child, wstat, writers, pending>>
     ELSE /\ child' = [child EXCEPT ![c] = "zombie"]
          /\ wstat' = [wstat EXCEPT ![c] = -SIGKILL]
          /\ writers' = [writers EXCEPT ![c] = @ \ {"child"}]
          /\ pending' = TRUE

Kill ==
  /\ m = "kill"
  /\ Killed(call)
  /\ m' = "join"
  /\ UNCHANGED <<got, call, timer, output, rspVars>>

\* Faulty variant of Join: a timer that has run out is not waited for.
JoinDetaches ==
  /\ m = "join" /\ timer \in {"kill", "ended"}
  /\ timer' = IF timer = "ended" THEN "none" ELSE timer
  /\ m' = "reap"
  /\ UNCHANGED <<got, call, procVars, pending, rspVars>>

Join ==
  /\ m = "join" /\ timer = "ended"
  /\ timer' = "none"
  /\ m' = "reap"
  /\ UNCHANGED <<got, call, procVars, pending, rspVars>>

\* Faulty variant of Reap: WEXITSTATUS of a signalled child is 0.
ReapExitStatus ==
  /\ m = "reap" /\ child[call] = "zombie"
  /\ child' = [child EXCEPT ![call] = "reaped"]
  /\ status' = IF wstat[call] < 0 THEN 0 ELSE wstat[call]
  /\ state' = status'
  /\ m' = "parse"
  /\ UNCHANGED <<got, call, timer, wstat, output, writers, pending, code>>

Reap ==
  /\ m = "reap" /\ child[call] = "zombie"
  /\ child' = [child EXCEPT ![call] = "reaped"]
  /\ status' = IF wstat[call] < 0 THEN 128 - wstat[call] ELSE wstat[call]
  /\ state' = status'
  /\ m' = "parse"
  /\ UNCHANGED <<got, call, timer, wstat, output, writers, pending, code>>

\* parseHealthcheckResponse and the catch clauses.
Parse ==
  /\ m = "parse"
  /\ code' = CASE got = "valid" -> 0
               [] got \in {"nothing", "garbage"} -> 22
               [] got = "wrong" -> 50
               [] got = "missing" -> 52
  /\ m' = "idle"
  /\ UNCHANGED <<call, timer, got, procVars, pending, status, state>>

HandlerStep ==
  \/ Pipe \/ PipeFails \/ Fork \/ ForkFails \/ StartTimer \/ StartTimerFails
  \/ ReadAll \/ ReadTooLong \/ Kill \/ Join \/ Reap \/ Parse

-----------------------------------------------------------------------------
(***************************************************************************)
(* The timer thread: sigtimedwait in a loop                                *)
(***************************************************************************)
TakeSignal ==
  /\ timer = "wait" /\ pending
  /\ pending' = FALSE
  /\ timer' = "ended"
  /\ UNCHANGED <<got, call, m, procVars, rspVars>>

Timeout ==
  /\ timer = "wait" /\ ~pending
  /\ timer' = "kill"
  /\ UNCHANGED <<got, call, m, procVars, pending, rspVars>>

\* Faulty variants of TimerKill: the loop is left after the kill; nothing is
\* killed.
TimerKillEnds ==
  /\ timer = "kill"
  /\ Killed(call)
  /\ timer' = "ended"
  /\ UNCHANGED <<got, call, m, output, rspVars>>

TimerKillSkipped ==
  /\ timer = "kill"
  /\ timer' = "wait"
  /\ UNCHANGED <<got, call, m, procVars, pending, rspVars>>

TimerKill ==
  /\ timer = "kill"
  /\ Killed(call)
  /\ timer' = "wait"
  /\ UNCHANGED <<got, call, m, output, rspVars>>

TimerStep == TakeSignal \/ Timeout \/ TimerKill

-----------------------------------------------------------------------------
(***************************************************************************)
(* The children                                                            *)
(***************************************************************************)
Write(c, o) ==
  /\ child[c] = "running" /\ output[c] = "nothing"
  /\ output' = [output EXCEPT ![c] = o]
  /\ UNCHANGED <<got, call, m, timer, child, wstat, writers, pending, rspVars>>

\* The child starts a process of its own, which has the pipe as well.
Spawn(c) ==
  /\ child[c] = "running"
  /\ writers' = [writers EXCEPT ![c] = @ \cup {"descendant"}]
  /\ UNCHANGED <<got, call, m, timer, child, wstat, output, pending, rspVars>>

Exit(c, e) ==
  /\ child[c] = "running"
  /\ child' = [child EXCEPT ![c] = "zombie"]
  /\ wstat' = [wstat EXCEPT ![c] = e]
  /\ writers' = [writers EXCEPT ![c] = @ \ {"child"}]
  /\ pending' = TRUE
  /\ UNCHANGED <<got, call, m, timer, output, rspVars>>

DescendantExits(c) ==
  /\ "descendant" \in writers[c] /\ child[c] # "running"
  /\ writers' = [writers EXCEPT ![c] = @ \ {"descendant"}]
  /\ UNCHANGED <<got, call, m, timer, child, wstat, output, pending, rspVars>>

ChildStep(c) ==
  \/ Spawn(c) \/ DescendantExits(c)
  \/ \E o \in Outputs : Write(c, o)
  \/ \E e \in {0, 122} : Exit(c, e)

HealthNext ==
  \/ Request \/ HandlerStep \/ ReadInterrupted \/ TimerStep
  \/ \E c \in Calls : ChildStep(c)

HealthSpec == HealthInit /\ [][HealthNext]_healthVars

\* Both threads are scheduled and the clock runs; descendants end.  A child need
\* do nothing.
FairHealthSpec ==
  /\ HealthSpec
  /\ WF_healthVars(HandlerStep)
  /\ WF_healthVars(TimerStep)
  /\ \A c \in Calls : WF_healthVars(DescendantExits(c))

-----------------------------------------------------------------------------
\* Neither the reader nor the timer sends its signal after waitpid() has given
\* the process id back, when it may be another process's.
KillsOnlyItsChild ==
  /\ m = "kill" => child[call] # "reaped"
  /\ timer = "kill" => child[call] # "reaped"

\* A response that says the payload is well (state 0, code 0) is the word of a
\* child that ended by itself with exit code 0 after printing a good document
\* (or one that begins with a good document): never of one that was killed.
HealthyIsChildsWord ==
  m = "idle" /\ call > 0 /\ state = 0 /\ code = 0 =>
    wstat[call] = 0 /\ output[call] \in {"valid", "long"}

\* An earlier request could not start its timer and has left its child to itself:
\* nobody reaps it, and its SIGCHLD is taken for a later child's.
Orphan == \E c \in 1..(call - 1) : child[c] \in {"running", "zombie"}

\* "Should confirm that a SIGCHLD from the previous section wasn't left
\* pending": a request that did not end with a system error has reaped its child
\* and has left no signal pending, however its timer and the child's end raced.
NothingLeft ==
  m = "idle" /\ call > 0 /\ code # 51 =>
    child[call] = "reaped" /\ (pending => Orphan)

\* "The child will be killed if it doesn't exit after timeout seconds": every
\* request is answered, however long its child would run, unless an orphan ends
\* its timer.
HandlerReturns == m # "idle" ~> m = "idle" \/ Orphan
=============================================================================
