------------------------------ MODULE DiskFree ------------------------------
(***************************************************************************)
(* The limits on free disk space: from the command line (Config) to        *)
(* Agent::checkDiskFree.  Sizes are in bytes, with a megabyte of Mega of   *)
(* them and an int that wraps at 2048 megabytes.                           *)
(***************************************************************************)
EXTENDS Config

CONSTANTS
  Mega,      \* 1024*1024, scaled
  DiskSizes, \* sizes of the file system
  Megabytes, Percents  \* what the limits are set to

VARIABLES
  agent,    \* the agent has been constructed
  min_free_disk, min_free_pct,
  size, free,  \* the file system
  sz, ok    \* the argument and the result of the last checkDiskFree

limitVars == <<min_free_disk, min_free_pct>>
vfsVars == <<size, free>>
diskVars == <<cfg, given, outcome, left, agent, min_free_disk, min_free_pct, size, free, sz, ok>>

\* The type of every variable; a limit is -1 until one of the setters is called.
DiskTypeOK ==
  /\ ConfigTypeOK
  /\ agent \in BOOLEAN
  /\ min_free_disk \in Megabytes \cup {-1} /\ min_free_pct \in Percents \cup {-1}
  /\ size \in Nat /\ free \in 0..size
  /\ sz \in Nat /\ ok \in BOOLEAN

DiskInit ==
  /\ ConfigInit
  /\ agent = FALSE
  /\ min_free_disk = -1 /\ min_free_pct = -1
  /\ size \in DiskSizes /\ free \in 0..size
  /\ sz = 0 /\ ok = FALSE

Parse == ~agent /\ ConfigNext /\ UNCHANGED <<agent, limitVars, vfsVars, sz, ok>>

\* The constructor takes its directories and the cleaner's times from the
\* configuration, and no limits.
Construct ==
  /\ ~agent /\ outcome = "true"
  /\ agent' = TRUE
  /\ UNCHANGED <<configVars, limitVars, vfsVars, sz, ok>>

SetMinFreeMb(mb) ==
  /\ agent
  /\ min_free_disk' = mb
  /\ ok' = FALSE
  /\ UNCHANGED <<configVars, agent, min_free_pct, vfsVars, sz>>

SetMinFreePct(pct) ==
  /\ agent
  /\ min_free_pct' = pct
  /\ ok' = FALSE
  /\ UNCHANGED <<configVars, agent, min_free_disk, vfsVars, sz>>

\* int arithmetic: an overflow, which the build wraps around.
Int32(n) == ((n + 2048 * Mega) % (4096 * Mega)) - 2048 * Mega

Larger(a, b) == IF a > b THEN a ELSE b

\* Faulty variant of FreeNeeded: the size of the file is left out of the share.
FreeNeededForgets(s) ==
  LET mb == IF min_free_disk > 0 THEN s + Int32(min_free_disk * Mega) ELSE s
  IN  IF min_free_pct > 0 THEN Larger(mb, (min_free_pct * size) \div 100) ELSE mb

FreeNeeded(s) ==
  LET mb == IF min_free_disk > 0 THEN s + Int32(min_free_disk * Mega) ELSE s
  IN  IF min_free_pct > 0 THEN Larger(mb, s + (min_free_pct * size) \div 100) ELSE mb

\* checkDiskFree(sz): the first test is on min_free_pct twice.
CheckDiskFree(s) ==
  /\ agent
  /\ sz' = s
  /\ ok' = \/ min_free_pct = -1 /\ min_free_pct = -1
           \/ free >= FreeNeeded(s)
  /\ UNCHANGED <<configVars, agent, limitVars, vfsVars>>

\* checkDiskFree(sz, vfs), as move_file calls it for its destination.
CheckDestFree(s) ==
  /\ agent
  /\ sz' = s
  /\ ok' = (free >= FreeNeeded(s))
  /\ UNCHANGED <<configVars, agent, limitVars, vfsVars>>

DiskNext ==
  \/ Parse \/ Construct
  \/ \E mb \in Megabytes : SetMinFreeMb(mb)
  \/ \E pct \in Percents : SetMinFreePct(pct)
  \/ \E s \in 0..size : CheckDiskFree(s) \/ CheckDestFree(s)

DiskSpec == DiskInit /\ [][DiskNext]_diskVars

-----------------------------------------------------------------------------
\* After a transfer of s bytes at least pct percent of the disk are free, but
\* for the rounding of the share to a byte.
LeavesPercent(s, pct) == 100 * (free - s) > pct * size - 100
\* A percentage that has been set is kept free by every transfer that is let
\* through, whatever limit in megabytes is set beside it.
PercentKept == ok /\ min_free_pct > 0 => LeavesPercent(sz, min_free_pct)
=============================================================================
