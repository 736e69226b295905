---------------------------- MODULE MCAgentState ----------------------------
(***************************************************************************)
(* The parts of the agent whose safety is at stake when requests run side  *)
(* by side: the caches, the retrieval of uploads, the disk limits and the  *)
(* ADCS and TFRS feeds.  They share no state, so a behaviour of this       *)
(* module is a behaviour of one of them, chosen by the variable part,      *)
(* while the others do nothing.                                            *)
(***************************************************************************)
EXTENDS Cache, Uploads, TLC

CONSTANTS
  t1, t2, k1, k2,                     \* Cache: threads and keys
  m1, m2, q1, s, u, v, d1, x2, a, z,  \* Uploads: requests, a query, paths and contents
  r1, r2                              \* Feed: requests

VARIABLES
  part,
  mgr, clock, cur, age, mtime, w, n, fg, since, left, out, start,
  cfg, given, outcome, options, agent, min_free_disk, min_free_pct, size, free, sz, ok

\* d1 is on the agent's filesystem, as the uploads are, x2 on another.  A system call may
\* fail before and after the copy is made.
MCCrc == [c \in {a, z} |-> IF c = a THEN 1 ELSE 0]
MCDev == [f \in {s, u, v, d1, x2} |-> IF f = x2 THEN 2 ELSE 1]
MCDests == [m \in {m1, m2} |-> IF m = m1 THEN {d1} ELSE {x2}]
CopyFaults == {"mkstemp", "write"}

\* Two requests for one upload beside a query.  Some file may be at x2 already.
Contended ==
  /\ fs[u] = None /\ fs[v] = None /\ fs[d1] = None /\ fs[x2] # a
  /\ record[u] = Garbled /\ record[v] = Garbled
OneUpload == \A i \in {u, v} : meta'[i] = "coming" /\ \A m \in Movers : id'[m] # i

\* A query of three uploads, v of another topic, with room for one upload in the answer;
\* each may lack its data or have metadata that do not parse.
Listed ==
  /\ \A i \in Uploads : fs[i] \in {a, None} /\ record[i] \in {MCCrc[a], Garbled}
  /\ fs[d1] = None /\ fs[x2] = None
QueryOnly == \A m \in Movers : g'[m] = "idle"

NoUploads == (\A f \in Names : fs[f] = None) /\ (\A i \in Uploads : record[i] = Garbled)

\* Two requests beside the thread of the bus.
F == INSTANCE Feed WITH
       now <- clock, g <- fg, Getters <- {r1, r2}, Members <- 2, MaxReadings <- 2, MaxTime <- 1

D == INSTANCE DiskFree WITH
       left <- options, MaxOptions <- 2, Numbers <- {0, 7}, Mega <- 2,
       DiskSizes <- {0, 5}, Megabytes <- {1, 2048}, Percents <- {1, 50, 100}

fVars == <<mgr, clock, cur, age, mtime, w, n, fg, since, left, out, start>>
dVars == <<cfg, given, outcome, options, agent, min_free_disk, min_free_pct, size, free, sz, ok>>
vars == <<part, cacheState, uploadVars, fVars, dVars>>

NoFeed ==
  /\ mgr = None /\ clock = None /\ cur = None /\ age = None /\ mtime = None /\ w = None
  /\ n = None /\ fg = None /\ since = None /\ left = None /\ out = None /\ start = None

NoDisk ==
  /\ cfg = None /\ given = None /\ outcome = None /\ options = None /\ agent = None
  /\ min_free_disk = None /\ min_free_pct = None /\ size = None /\ free = None /\ sz = None
  /\ ok = None

Init ==
  /\ CacheInit /\ UploadInit
  /\ \/ part = "cache" /\ NoUploads /\ NoFeed /\ NoDisk
     \/ part = "uploads" /\ Contended /\ NoFeed /\ NoDisk
     \/ part = "queries" /\ Listed /\ NoFeed /\ NoDisk
     \/ part = "feed" /\ NoUploads /\ F!FeedInit /\ NoDisk
     \/ part = "disk" /\ NoUploads /\ NoFeed /\ D!DiskInit

Next ==
  \/ part = "cache" /\ CacheNext /\ UNCHANGED <<part, uploadVars, fVars, dVars>>
  \/ part = "uploads" /\ UploadNext /\ OneUpload /\ UNCHANGED <<part, cacheState, fVars, dVars>>
  \/ part = "queries" /\ UploadNext /\ QueryOnly /\ UNCHANGED <<part, cacheState, fVars, dVars>>
  \/ part = "feed" /\ F!FeedNext /\ UNCHANGED <<part, cacheState, uploadVars, dVars>>
  \/ part = "disk" /\ D!DiskNext /\ UNCHANGED <<part, cacheState, uploadVars, fVars>>

Spec == Init /\ [][Next]_vars

Symmetry == Permutations({t1, t2}) \cup Permutations({k1, k2}) \cup Permutations({r1, r2})

-----------------------------------------------------------------------------
\* Every member of a response of adcs_get or tfrs_get is at least as new as the
\* last reading stored to the end when the request came, and when nothing is stored
\* meanwhile the response is that reading: NewestShown and QuietExact of Feed.
ReadingsShown == part = "feed" => F!NewestShown /\ F!QuietExact

\* The options that parseOptions accepts are usable, and a percentage that has been
\* set is kept free by every transfer that checkDiskFree lets through:
\* AcceptedIsUsable of Config and PercentKept of DiskFree.
LimitsKept == part = "disk" => D!AcceptedIsUsable /\ D!PercentKept
=============================================================================
