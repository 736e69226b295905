------------------------------ MODULE MCFiles -------------------------------
(***************************************************************************)
(* What moves files and what removes them: two calls of move_file that     *)
(* compete for one source, each with a destination on the source's         *)
(* filesystem (d) and one on another (x), and the cleaner with one transfer *)
(* and one upload.  The two work on different directories, so a behaviour  *)
(* of this module is a behaviour of one of them, chosen by the variable    *)
(* part, while the other stays in an initial state.                        *)
(***************************************************************************)
EXTENDS MoveFile

CONSTANTS
  Components,                        \* the parts a run is about
  m1, m2, s, d1, d2, x1, x2, a, e,   \* MoveFile: calls, paths and contents
  i1, i2                             \* Cleaner: a transfer and an upload

VARIABLES part, age, came, running, sem, left, w, flist, datas, cur, main, signals

MCDev == [n \in {s, d1, d2, x1, x2} |-> IF n \in {x1, x2} THEN 2 ELSE 1]
MCCrc == [c \in {a, e} |-> IF c = a THEN 1 ELSE 0]

\* A destination of its own for every call.
OwnDests == [m \in {m1, m2} |-> IF m = m1 THEN {d1, x1} ELSE {d2, x2}]
\* Both calls name the same destinations.
SameDests == [m \in {m1, m2} |-> {d1, x1}]

\* The failure move_file does not look for.
PublishFault == {"publish"}

C == INSTANCE Cleaner WITH
       Sends <- {i1}, Uploads <- {i2}, MaxAge <- 1, Interval <- 2, MaxSignals <- 1

cVars == <<age, came, running, sem, left, w, flist, datas, cur, main, signals>>

Init ==
  /\ part \in Components
  /\ MoveInit /\ (part # "move" => \A n \in Names : fs[n] = None)
  /\ C!CleanerInit

Next ==
  \/ part = "move" /\ MoveNext /\ UNCHANGED <<part, cVars>>
  \/ part = "cleaner" /\ C!CleanerNext /\ UNCHANGED <<part, moveVars>>

Spec == Init /\ [][Next]_<<part, moveVars, cVars>>

\* The worker's steps, and the steps of the thread that owns the Cleaner.
FairSpec ==
  /\ Spec
  /\ WF_cVars(part = "cleaner" /\ C!WorkerStep)
  /\ WF_cVars(part = "cleaner" /\ (C!Schedule \/ C!StartThread \/ C!StopPost \/ C!StopJoin))

-----------------------------------------------------------------------------
\* The cleaner removes only files that are too old, and never the data of a
\* transfer that send_file has written completely: OnlyOldCleaned and SendsKept of
\* Cleaner.
CleansRightly ==
  [][part = "cleaner" =>
       /\ \A f \in C!Files : C!Cleans(f) => C!TooOld(f)
       /\ C!Cleans(C!Data(i1)) => ~C!Exists(C!Meta(i1))]_cVars

\* The worker that is stopped ends without waiting for the end of its interval; as
\* long as it is not stopped and the clock runs, an old meta file goes, and so does
\* an old data file that is left without one: StopEnds and OldFilesGo of Cleaner.
CleanerLive ==
  /\ main = "post" ~> main = "done"
  /\ WF_cVars(part = "cleaner" /\ C!Tick) =>
       \A i \in {i1, i2} :
         /\ C!TooOld(C!Meta(i)) ~> ~C!Exists(C!Meta(i)) \/ ~running
         /\ C!TooOld(C!Data(i)) ~> ~C!Exists(C!Data(i)) \/ C!Exists(C!Meta(i)) \/ ~running
=============================================================================
