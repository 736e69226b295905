---------------------------- MODULE UavcanServer ----------------------------
(***************************************************************************)
(* main and AgentUAVCANServer: starting the CAN client, the server thread  *)
(* and the listener, the thread's reconnection when its interface goes     *)
(* down, and the shutdown on a signal.  A node is dead once its interface  *)
(* has gone down: its driver never uses it again.  A service is dangling   *)
(* when the node it refers to has been replaced.                           *)
(***************************************************************************)
EXTENDS Integers

CONSTANTS
  MaxDowns,   \* bound on how often the interface goes down
  MaxSignals, \* bound on the quit signals
  Faults      \* {"services"} if addServices may fail, else {}

VARIABLES
  can,      \* isCANInterfaceEnabled
  m,        \* the main thread's next step
  listener, \* the global server: "null", "made" or "listening"
  running,  \* thread_running
  t,        \* the server thread's next step
  node,     \* its node: "none", "live" or "dead"
  services, \* health_srv, adcs_sub and tfrs_sub: "none", "live" or "dangling"
  up,       \* whether the interface is up
  downs, signals

threadVars == <<t, node, services>>
mainVars == <<can, m, listener>>
serverVars == <<mainVars, running, threadVars, up, downs, signals>>

Stopped == {"off", "ended", "aborted"}
ThreadSteps ==
  Stopped \union {"init", "add", "loop", "spin", "reset", "check", "sleep", "reinit", "readd", "leave"}

\* The type of every variable; the server object that main deletes has no thread.
ServerTypeOK ==
  /\ can \in BOOLEAN /\ running \in BOOLEAN /\ up \in BOOLEAN
  /\ m \in {"client", "start", "new", "listen", "serve", "stop", "join", "delete",
            "exited", "aborted"}
  /\ listener \in {"null", "made", "listening"}
  /\ t \in ThreadSteps
  /\ node \in {"none", "live", "dead"} /\ services \in {"none", "live", "dangling"}
  /\ downs \in 0..MaxDowns /\ signals \in 0..MaxSignals
  /\ m = "delete" => t \in Stopped

ServerInit ==
  /\ can \in BOOLEAN
  /\ m = "client" /\ listener = "null" /\ running = FALSE
  /\ t = "off" /\ node = "none" /\ services = "none"
  /\ up \in BOOLEAN /\ downs = 0 /\ signals = 0

-----------------------------------------------------------------------------
\* main, once the signals are set up and the options parsed.
NoCan ==
  /\ m = "client"
  /\ ~can
  /\ m' = "new"
  /\ UNCHANGED <<can, listener, running, threadVars, up, downs, signals>>

\* The client's constructor makes a node; when it throws, main exits.
MakeClient ==
  /\ m = "client"
  /\ can
  /\ m' = IF up THEN "start" ELSE "exited"
  /\ UNCHANGED <<can, listener, running, threadVars, up, downs, signals>>

Start ==
  /\ m = "start"
  /\ running' = TRUE
  /\ t' = "init"
  /\ m' = "new"
  /\ UNCHANGED <<can, listener, node, services, up, downs, signals>>

NewListener ==
  /\ m = "new"
  /\ listener' = "made"
  /\ m' = "listen"
  /\ UNCHANGED <<can, running, threadVars, up, downs, signals>>

\* listen serves until it is stopped, or returns at once when it cannot bind.
Listen ==
  /\ m = "listen"
  /\ \/ listener' = "listening" /\ m' = "serve"
     \/ UNCHANGED listener /\ m' = "stop"
  /\ UNCHANGED <<can, running, threadVars, up, downs, signals>>

\* sigHandler.  listenStop ends a listen that has begun, and nothing else.
Signal ==
  /\ m \notin {"exited", "aborted"}
  /\ signals < MaxSignals
  /\ signals' = signals + 1
  /\ m' = IF m = "serve" /\ listener = "listening" THEN "stop" ELSE m
  /\ UNCHANGED <<can, listener, running, threadVars, up, downs>>

Stop ==
  /\ m = "stop"
  /\ running' = IF can THEN FALSE ELSE running
  /\ m' = IF can THEN "join" ELSE "delete"
  /\ UNCHANGED <<can, listener, threadVars, up, downs, signals>>

Join ==
  /\ m = "join"
  /\ t = "ended"
  /\ m' = "delete"
  /\ UNCHANGED <<can, listener, running, threadVars, up, downs, signals>>

\* The server, the client and the listener are deleted and main returns.
Delete ==
  /\ m = "delete"
  /\ listener' = "null"
  /\ m' = "exited"
  /\ UNCHANGED <<can, running, threadVars, up, downs, signals>>

-----------------------------------------------------------------------------
\* initNode makes a node, or throws when the interface is down.  Services of the
\* node it replaces are left dangling.
MakeNode ==
  /\ up
  /\ node' = "live"
  /\ services' = IF services = "none" THEN "none" ELSE "dangling"

\* serverTask: the first initNode and addServices; what they throw ends the agent.
Init ==
  /\ t = "init"
  /\ MakeNode
  /\ t' = "add"
  /\ UNCHANGED <<mainVars, running, up, downs, signals>>

InitThrows ==
  /\ \/ t = "init" /\ ~up
     \/ t = "add" /\ "services" \in Faults
  /\ t' = "aborted"
  /\ m' = "aborted"
  /\ UNCHANGED <<can, listener, running, node, services, up, downs, signals>>

AddServices ==
  /\ t \in {"add", "readd"}
  /\ services' = "live"
  /\ t' = "loop"
  /\ UNCHANGED <<mainVars, running, node, up, downs, signals>>

Loop ==
  /\ t = "loop"
  /\ t' = IF running THEN "spin" ELSE "leave"
  /\ UNCHANGED <<mainVars, running, node, services, up, downs, signals>>

\* spin runs for a second, or throws when the driver finds its interface down.
Spin ==
  /\ t = "spin"
  /\ t' = IF node = "live" THEN "loop" ELSE "reset"
  /\ UNCHANGED <<mainVars, running, node, services, up, downs, signals>>

\* Faulty variant of Reset: only the node is reset.
ResetNodeOnly ==
  /\ t = "reset"
  /\ node' = "none"
  /\ services' = IF services = "none" THEN "none" ELSE "dangling"
  /\ t' = "check"
  /\ UNCHANGED <<mainVars, running, up, downs, signals>>

\* resetServices: the services, then the node.
Reset ==
  /\ t = "reset"
  /\ services' = "none"
  /\ node' = "none"
  /\ t' = "check"
  /\ UNCHANGED <<mainVars, running, up, downs, signals>>

\* Faulty variant of Check: the inner loop does not look at thread_running.
CheckForever ==
  /\ t = "check"
  /\ t' = "sleep"
  /\ UNCHANGED <<mainVars, running, node, services, up, downs, signals>>

\* The inner loop's condition.
Check ==
  /\ t = "check"
  /\ t' = IF running THEN "sleep" ELSE "loop"
  /\ UNCHANGED <<mainVars, running, node, services, up, downs, signals>>

Sleep ==
  /\ t = "sleep"
  /\ t' = "reinit"
  /\ UNCHANGED <<mainVars, running, node, services, up, downs, signals>>

\* Faulty variant of Reinit: a node that has been made does not end the loop.
ReinitLoops ==
  /\ t = "reinit"
  /\ MakeNode
  /\ t' = "check"
  /\ UNCHANGED <<mainVars, running, up, downs, signals>>

Reinit ==
  /\ t = "reinit"
  /\ MakeNode
  /\ t' = "readd"
  /\ UNCHANGED <<mainVars, running, up, downs, signals>>

\* The exception is caught: still down.
ReinitThrows ==
  /\ t = "reinit" /\ ~up
  /\ t' = "check"
  /\ UNCHANGED <<mainVars, running, node, services, up, downs, signals>>

\* One of the three services cannot be made: those before it are kept.
ReaddThrows ==
  /\ t = "readd" /\ "services" \in Faults
  /\ services' \in {services, "live"}
  /\ t' = "check"
  /\ UNCHANGED <<mainVars, running, node, up, downs, signals>>

Leave ==
  /\ t = "leave"
  /\ services' = "none"
  /\ node' = "none"
  /\ t' = "ended"
  /\ UNCHANGED <<mainVars, running, up, downs, signals>>

-----------------------------------------------------------------------------
GoDown ==
  /\ up
  /\ downs < MaxDowns
  /\ up' = FALSE
  /\ downs' = downs + 1
  /\ node' = IF node = "live" THEN "dead" ELSE node
  /\ UNCHANGED <<mainVars, running, t, services, signals>>

GoUp ==
  /\ ~up
  /\ up' = TRUE
  /\ UNCHANGED <<mainVars, running, threadVars, downs, signals>>

MainStep ==
  NoCan \/ MakeClient \/ Start \/ NewListener \/ Listen \/ Stop \/ Join \/ Delete
\* When main returns or the agent aborts, the thread is gone.
ThreadStep ==
  /\ m \notin {"exited", "aborted"}
  /\ \/ Init \/ InitThrows \/ AddServices \/ Loop \/ Spin \/ Reset \/ Check \/ Sleep
     \/ Reinit \/ ReinitThrows \/ ReaddThrows \/ Leave
ServerNext == MainStep \/ ThreadStep \/ Signal \/ GoDown \/ GoUp
ServerSpec == ServerInit /\ [][ServerNext]_serverVars

\* Both threads run.  Nothing is assumed of the interface or of the signals.
FairServerSpec == ServerSpec /\ WF_serverVars(MainStep) /\ WF_serverVars(ThreadStep)

-----------------------------------------------------------------------------
\* No service is left when its node is dropped, and the thread spins only with a
\* node that has its services, however often reconnecting fails half-way
\* (resetServices resets them in that order; addServices replaces them all).
ServicesHaveNode ==
  /\ services # "none" => node # "none"
  /\ t = "spin" => services = "live"

\* A signal that reaches the listener ends the agent, whatever the interface does:
\* the thread is joined even while it tries to reconnect (stop).
StopEnds == m = "stop" ~> m \in {"exited", "aborted"}

\* The thread that lost its interface makes a node and sets about its services once
\* it is up, unless it goes down again or the agent is stopped (the inner loop of
\* serverTask).
Reconnects ==
  t = "sleep" ~> (t \in {"readd", "spin"} /\ node = "live") \/ ~up \/ ~running
=============================================================================
