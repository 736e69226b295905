------------------------------ MODULE Cleaner -------------------------------
(***************************************************************************)
(* The cleanup thread of Cleaner.cpp with Files::oldFiles, on one working  *)
(* directory (doCleanup takes the four in turn and carries nothing over),  *)
(* beside the threads that fill and empty it.                              *)
(*                                                                         *)
(* Time is relative: age[f] counts the seconds since file f was modified,  *)
(* up to one more than the maximum age, and left the seconds until the     *)
(* worker's deadline.  A file is a pair of "meta" or "data" and an id;     *)
(* files with other extensions are not touched and left out.               *)
(***************************************************************************)
EXTENDS Naturals, FiniteSets

CONSTANTS
  Sends,      \* ids whose meta file is written first (send_file)
  Uploads,    \* ids whose data file is brought first (the collector)
  MaxAge,     \* m_maxAge
  Interval,   \* m_cleanupInterval
  MaxSignals, \* how often a signal interrupts the worker's wait
  None

Ids == Sends \cup Uploads
Files == {"meta", "data"} \X Ids
Meta(i) == <<"meta", i>>
Data(i) == <<"data", i>>
Ages == 0..(MaxAge + 1)

VARIABLES
  age,      \* age[f]: None if there is no such file
  came,     \* the files that have come, each once
  running,  \* workerRunning
  sem,      \* the count of runningSem
  left,     \* seconds until the deadline of timedwait
  w,        \* what the worker does next
  flist,    \* the files of oldFiles the current pass has still to look at
  datas,    \* the data files kept for the second pass
  cur,      \* the file whose meta file was found missing
  main,     \* what the thread that owns the Cleaner does next
  signals   \* signals received

dirVars == <<age, came>>
passVars == <<flist, datas, cur>>
ctlVars == <<running, sem, main>>
cleanerVars == <<age, came, running, sem, left, w, flist, datas, cur, main, signals>>

Exists(f) == age[f] # None
TooOld(f) == Exists(f) /\ age[f] > MaxAge
Cleaning == {"scan", "metas", "datas", "unlink"}

\* The type of every variable; runningSem is 0 or 1.
CleanerTypeOK ==
  /\ age \in [Files -> Ages \cup {None}]
  /\ came \subseteq Files
  /\ running \in BOOLEAN
  /\ sem \in 0..1
  /\ left \in 0..Interval
  /\ w \in {"none", "check", "wait", "exited"} \cup Cleaning
  /\ flist \subseteq Files /\ datas \subseteq Files
  /\ cur \in Files \cup {None}
  /\ main \in {"start", "thread", "up", "post", "join", "done"}
  /\ signals \in 0..MaxSignals

CleanerInit ==
  /\ age = [f \in Files |-> None]
  /\ came = {}
  /\ running = FALSE
  /\ sem = 1
  /\ left = 0
  /\ w = "none"
  /\ flist = {} /\ datas = {} /\ cur = None
  /\ main = "start"
  /\ signals = 0

-----------------------------------------------------------------------------
(***************************************************************************)
(* scheduleCleanup, called by the constructor of the agent, and stopWorker,*)
(* called by its destructor.                                               *)
(***************************************************************************)
Schedule ==
  /\ main = "start" /\ sem > 0
  /\ running' = TRUE
  /\ sem' = sem - 1
  /\ main' = "thread"
  /\ UNCHANGED <<dirVars, passVars, left, w, signals>>

StartThread ==
  /\ main = "thread"
  /\ w' = "check"
  /\ main' = "up"
  /\ UNCHANGED <<dirVars, passVars, running, sem, left, signals>>

StopFlag ==
  /\ main = "up"
  /\ running' = FALSE
  /\ main' = "post"
  /\ UNCHANGED <<dirVars, passVars, sem, left, w, signals>>

\* Faulty variant of StopPost: the worker is not woken.
StopPostMissing ==
  /\ main = "post"
  /\ main' = "join"
  /\ UNCHANGED <<dirVars, passVars, running, sem, left, w, signals>>

StopPost ==
  /\ main = "post"
  /\ sem' = sem + 1
  /\ main' = "join"
  /\ UNCHANGED <<dirVars, passVars, running, left, w, signals>>

StopJoin ==
  /\ main = "join" /\ w = "exited"
  /\ main' = "done"
  /\ UNCHANGED <<dirVars, passVars, running, sem, left, w, signals>>

-----------------------------------------------------------------------------
(***************************************************************************)
(* cleanupTask                                                             *)
(***************************************************************************)
\* The loop condition; the deadline is set anew every time round.
Check ==
  /\ w = "check"
  /\ w' = IF running THEN "wait" ELSE "exited"
  /\ left' = Interval
  /\ UNCHANGED <<dirVars, passVars, ctlVars, signals>>

WaitPosted ==
  /\ w = "wait" /\ sem > 0
  /\ sem' = sem - 1
  /\ w' = "check"
  /\ UNCHANGED <<dirVars, passVars, running, left, main, signals>>

WaitTimesOut ==
  /\ w = "wait" /\ sem = 0 /\ left = 0
  /\ w' = IF running THEN "scan" ELSE "check"
  /\ UNCHANGED <<dirVars, passVars, ctlVars, left, signals>>

\* EINTR is neither success nor ETIMEDOUT.
WaitInterrupted ==
  /\ w = "wait" /\ sem = 0 /\ signals < MaxSignals
  /\ w' = "check"
  /\ signals' = signals + 1
  /\ UNCHANGED <<dirVars, passVars, ctlVars, left>>

\* Faulty variant of Scan: a file of exactly the maximum age is too old.
ScanEarly ==
  /\ w = "scan"
  /\ LET old == {f \in Files : Exists(f) /\ age[f] >= MaxAge}
     IN  /\ flist' = {f \in old : f[1] = "meta"}
         /\ datas' = {f \in old : f[1] = "data"}
  /\ w' = "metas"
  /\ UNCHANGED <<dirVars, ctlVars, left, cur, signals>>

\* oldFiles: st_mtime < now - age.  The two passes look at the names that end
\* in .meta.oort and at those that end in .data.oort.
Scan ==
  /\ w = "scan"
  /\ LET old == {f \in Files : TooOld(f)}
     IN  /\ flist' = {f \in old : f[1] = "meta"}
         /\ datas' = {f \in old : f[1] = "data"}
  /\ w' = "metas"
  /\ UNCHANGED <<dirVars, ctlVars, left, cur, signals>>

\* Pass 1: unlink an old meta file.
UnlinkMeta(f) ==
  /\ w = "metas" /\ f \in flist
  /\ flist' = flist \ {f}
  /\ age' = [age EXCEPT ![f] = None]
  /\ UNCHANGED <<came, datas, cur, ctlVars, left, w, signals>>

\* Faulty variant of EndPass1: the second pass finds the list used up.
EndPass1Forgets ==
  /\ w = "metas" /\ flist = {}
  /\ w' = "datas"
  /\ datas' = {}
  /\ UNCHANGED <<dirVars, flist, cur, ctlVars, left, signals>>

EndPass1 ==
  /\ w = "metas" /\ flist = {}
  /\ w' = "datas"
  /\ flist' = datas /\ datas' = {}
  /\ UNCHANGED <<dirVars, cur, ctlVars, left, signals>>

\* Faulty variant of CheckData: pass 2 does not look for the meta file.
CheckDataSkipped(f) ==
  /\ w = "datas" /\ f \in flist
  /\ flist' = flist \ {f}
  /\ w' = "unlink"
  /\ cur' = f
  /\ UNCHANGED <<dirVars, datas, ctlVars, left, signals>>

\* Pass 2: access() of the meta file of an old data file.
CheckData(f) ==
  /\ w = "datas" /\ f \in flist
  /\ flist' = flist \ {f}
  /\ IF Exists(Meta(f[2])) THEN UNCHANGED <<w, cur>>
     ELSE w' = "unlink" /\ cur' = f
  /\ UNCHANGED <<dirVars, datas, ctlVars, left, signals>>

UnlinkData ==
  /\ w = "unlink"
  /\ age' = [age EXCEPT ![cur] = None]
  /\ w' = "datas"
  /\ cur' = None
  /\ UNCHANGED <<came, flist, datas, ctlVars, left, signals>>

EndPass2 ==
  /\ w = "datas" /\ flist = {}
  /\ w' = "check"
  /\ UNCHANGED <<dirVars, passVars, ctlVars, left, signals>>

CleanStep ==
  \/ Scan \/ EndPass1 \/ UnlinkData \/ EndPass2
  \/ \E f \in Files : UnlinkMeta(f) \/ CheckData(f)

WorkerStep == Check \/ WaitPosted \/ WaitTimesOut \/ CleanStep

-----------------------------------------------------------------------------
\* A file comes.  A meta file is written, so it is new; a data file is renamed
\* or copied with the modification time it has.  The first file of the pair
\* comes before the second.
Come(f, a) ==
  /\ f \notin came
  /\ f[1] = "meta" /\ f[2] \in Sends => a = 0
  /\ f[1] = "data" /\ f[2] \in Sends => Meta(f[2]) \in came
  /\ f[1] = "meta" /\ f[2] \in Uploads => Data(f[2]) \in came
  /\ age' = [age EXCEPT ![f] = a]
  /\ came' = came \cup {f}
  /\ UNCHANGED <<passVars, ctlVars, left, w, signals>>

\* A file goes: retrieved, collected, endeadened, or removed by an error path.
Go(f) ==
  /\ Exists(f)
  /\ age' = [age EXCEPT ![f] = None]
  /\ UNCHANGED <<came, passVars, ctlVars, left, w, signals>>

\* A second passes.
Tick ==
  /\ age' = [f \in Files |->
               IF Exists(f) /\ age[f] <= MaxAge THEN age[f] + 1 ELSE age[f]]
  /\ left' = IF left > 0 THEN left - 1 ELSE 0
  /\ UNCHANGED <<came, passVars, ctlVars, w, signals>>

CleanerNext ==
  \/ Schedule \/ StartThread \/ StopFlag \/ StopPost \/ StopJoin
  \/ WorkerStep \/ WaitInterrupted
  \/ \E f \in Files : Go(f) \/ \E a \in Ages : Come(f, a)
  \/ Tick

CleanerSpec == CleanerInit /\ [][CleanerNext]_cleanerVars

\* The worker and the owner of the Cleaner are scheduled.
FairCleanerSpec ==
  /\ CleanerSpec
  /\ WF_cleanerVars(WorkerStep)
  /\ WF_cleanerVars(Schedule \/ StartThread \/ StopPost \/ StopJoin)

-----------------------------------------------------------------------------
\* A step of the cleaner removes file f.
Cleans(f) == CleanStep /\ Exists(f) /\ age'[f] = None

\* Only files older than the maximum age are removed: a pass works from a list
\* made earlier, and a file on it only gets older.
OnlyOldCleaned == [][\A f \in Files : Cleans(f) => TooOld(f)]_cleanerVars

\* "pass 2: remove old data files if they have no associated meta file": a
\* transfer that send_file has written completely is never broken up by the
\* removal of its data.
SendsKept ==
  [][\A i \in Sends : Cleans(Data(i)) => ~Exists(Meta(i))]_cleanerVars

\* A stopped worker exits without waiting for the end of its interval, and so
\* the destructor of the agent returns.
StopEnds == main = "post" ~> main = "done"

\* While the clock runs and the worker is not stopped, an old meta file goes,
\* and so does an old data file that is left without one.
OldFilesGo ==
  WF_cleanerVars(Tick) =>
    \A i \in Ids :
      /\ TooOld(Meta(i)) ~> ~Exists(Meta(i)) \/ ~running
      /\ TooOld(Data(i)) ~> ~Exists(Data(i)) \/ Exists(Meta(i)) \/ ~running
=============================================================================
