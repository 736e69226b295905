-------------------------------- MODULE Feed --------------------------------
(***************************************************************************)
(* AdcsManager: the last reading of the ADCS (and, with the same code, of  *)
(* TFRS), stored member by member by the UAVCAN thread and copied member   *)
(* by member by pool threads, without a lock.  A member's value is         *)
(* abstracted to the number of the reading it is from; 0 is the value the  *)
(* constructor left.                                                       *)
(***************************************************************************)
EXTENDS Integers, Sequences

CONSTANTS
  Getters,      \* pool threads in adcs_get or tfrs_get
  Members,      \* how many members of a reading set stores, before the age
  MaxReadings,  \* bound on the broadcasts
  MaxTime       \* bound on the clock

Indices == 1..Members
Readings == 0..MaxReadings
\* What set does after the members.
SetAge == Members + 1
SetMtime == Members + 2
Idle == 0

VARIABLES
  mgr,    \* whether the agent has an AdcsManager: the CAN interface is enabled
  now,    \* the system clock, in seconds since the epoch
  cur,    \* cur[j]: the reading that member j of m_adcs is from
  age,    \* its member age
  mtime,  \* m_adcs_mtime
  w,      \* what set stores next
  n,      \* readings received so far; the last one is being stored or stored
  g,      \* a getter's next step
  since,  \* its local variable
  left,   \* the members it has still to copy
  out,    \* the response it copies
  start   \* history: what was stored, and whether all was quiet, when it began

feedVars == <<mgr, now, cur, age, mtime, w, n, g, since, left, out, start>>
storeVars == <<mtime, w, n>>
getterVars == <<g, since, left, out>>

Response == [members : [Indices -> Readings], age : 0..MaxTime]
NoResponse == [members |-> [j \in Indices |-> 0], age |-> 0]
Getting == {"age", "copy"}

\* What a getter that begins now has to show when nothing else runs.
Shown == [members |-> cur, age |-> now - mtime]
Quiet == w = Idle /\ \A r \in Getters : g[r] \notin Getting
\* The last reading that has been stored to the end.
Last == IF w = Idle THEN n ELSE n - 1
NoStart == [quiet |-> FALSE, stored |-> NoResponse, last |-> 0]

\* The type of every variable; an age is never negative.
FeedTypeOK ==
  /\ mgr \in BOOLEAN /\ now \in 0..MaxTime
  /\ cur \in [Indices -> 0..n] /\ age \in 0..now /\ mtime \in 0..now
  /\ w \in Idle..SetMtime /\ n \in Readings
  /\ g \in [Getters -> {"idle", "age", "copy", "done", "bad"}]
  /\ since \in [Getters -> 0..now]
  /\ left \in [Getters -> SUBSET (Indices \union {SetAge})]
  /\ out \in [Getters -> Response]
  /\ start \in [Getters -> [quiet : BOOLEAN, stored : Response, last : Readings]]

\* m_adcs_mtime is default constructed: the epoch.
FeedInit ==
  /\ mgr \in BOOLEAN
  /\ now = 1
  /\ cur = NoResponse.members /\ age = 0 /\ mtime = 0
  /\ w = Idle /\ n = 0
  /\ g = [r \in Getters |-> "idle"]
  /\ since = [r \in Getters |-> 0]
  /\ left = [r \in Getters |-> {}]
  /\ out = [r \in Getters |-> NoResponse]
  /\ start = [r \in Getters |-> NoStart]

\* Whoever is copying no longer does so alone.
Disturbed == [r \in Getters |-> IF g[r] \in Getting THEN [start[r] EXCEPT !.quiet = FALSE]
                                                     ELSE start[r]]

-----------------------------------------------------------------------------
\* A broadcast arrives: the subscriber calls setAdcs or setTfrs.
Receive ==
  /\ w = Idle
  /\ mgr /\ n < MaxReadings
  /\ n' = n + 1
  /\ w' = 1
  /\ start' = Disturbed
  /\ UNCHANGED <<mgr, now, cur, age, mtime, getterVars>>

\* Faulty variant of Store: only the first member is stored.
StoreFirst ==
  /\ w \in Indices
  /\ cur' = [cur EXCEPT ![1] = n]
  /\ w' = SetAge
  /\ UNCHANGED <<mgr, now, age, mtime, n, getterVars, start>>

Store ==
  /\ w \in Indices
  /\ cur' = [cur EXCEPT ![w] = n]
  /\ w' = w + 1
  /\ UNCHANGED <<mgr, now, age, mtime, n, getterVars, start>>

StoreAge ==
  /\ w = SetAge
  /\ age' = 0
  /\ w' = SetMtime
  /\ UNCHANGED <<mgr, now, cur, mtime, n, getterVars, start>>

StoreMtime ==
  /\ w = SetMtime
  /\ mtime' = now
  /\ w' = Idle
  /\ UNCHANGED <<mgr, now, cur, age, n, getterVars, start>>

-----------------------------------------------------------------------------
\* adcs_get or tfrs_get when the CAN interface is not enabled.
Unavailable(r) ==
  /\ g[r] = "idle"
  /\ ~mgr
  /\ g' = [g EXCEPT ![r] = "bad"]
  /\ UNCHANGED <<mgr, now, cur, age, storeVars, since, left, out, start>>

\* getAdcs or getTfrs reads the clock and m_adcs_mtime.
Get(r) ==
  /\ g[r] = "idle"
  /\ mgr
  /\ since' = [since EXCEPT ![r] = now - mtime]
  /\ start' = [Disturbed EXCEPT ![r] = [quiet |-> Quiet, stored |-> Shown, last |-> Last]]
  /\ g' = [g EXCEPT ![r] = "age"]
  /\ UNCHANGED <<mgr, now, cur, age, storeVars, left, out>>

\* Faulty variant of GetAge: the age an earlier call computed is shown.
GetAgeSkipped(r) ==
  /\ g[r] = "age"
  /\ left' = [left EXCEPT ![r] = Indices \union {SetAge}]
  /\ g' = [g EXCEPT ![r] = "copy"]
  /\ UNCHANGED <<mgr, now, cur, age, storeVars, since, out, start>>

GetAge(r) ==
  /\ g[r] = "age"
  /\ age' = since[r]
  /\ left' = [left EXCEPT ![r] = Indices \union {SetAge}]
  /\ g' = [g EXCEPT ![r] = "copy"]
  /\ UNCHANGED <<mgr, now, cur, storeVars, since, out, start>>

\* The response is copied from m_adcs; with a thread that stores at the same
\* time the members may be read in any order.
Copy(r, j) ==
  /\ g[r] = "copy"
  /\ j \in left[r]
  /\ left' = [left EXCEPT ![r] = @ \ {j}]
  /\ out' = [out EXCEPT ![r] = IF j = SetAge THEN [@ EXCEPT !.age = age]
                                             ELSE [@ EXCEPT !.members[j] = cur[j]]]
  /\ g' = [g EXCEPT ![r] = IF left[r] = {j} THEN "done" ELSE "copy"]
  /\ UNCHANGED <<mgr, now, cur, age, storeVars, since, start>>

\* The response is sent and the thread takes another request.
Reply(r) ==
  /\ g[r] \in {"done", "bad"}
  /\ g' = [g EXCEPT ![r] = "idle"]
  /\ since' = [since EXCEPT ![r] = 0]
  /\ out' = [out EXCEPT ![r] = NoResponse]
  /\ start' = [start EXCEPT ![r] = NoStart]
  /\ UNCHANGED <<mgr, now, cur, age, storeVars, left>>

Tick ==
  /\ now < MaxTime
  /\ now' = now + 1
  /\ UNCHANGED <<mgr, cur, age, storeVars, getterVars, start>>

SetStep == Receive \/ Store \/ StoreAge \/ StoreMtime
GetStep(r) ==
  \/ Unavailable(r) \/ Get(r) \/ GetAge(r) \/ Reply(r)
  \/ \E j \in Indices \union {SetAge} : Copy(r, j)
FeedNext == Tick \/ SetStep \/ \E r \in Getters : GetStep(r)
FeedSpec == FeedInit /\ [][FeedNext]_feedVars

-----------------------------------------------------------------------------
\* A response during which no reading was stored and no other thread asked is
\* the reading that was stored, all of it, with the time since it was stored
\* (getAdcs and getTfrs).
QuietExact ==
  \A r \in Getters : g[r] = "done" /\ start[r].quiet => out[r] = start[r].stored

\* Whatever runs at the same time, every member of a response is at least as new
\* as the last reading that was stored to the end when the request came, and none
\* is newer than the last broadcast (setAdcs and setTfrs store every member).
NewestShown ==
  \A r \in Getters : g[r] = "done" =>
    \A j \in Indices : out[r].members[j] \in start[r].last..n
=============================================================================
