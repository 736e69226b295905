------------------------------ MODULE MoveFile ------------------------------
(***************************************************************************)
(* Agent::move_file (agent/server/impl/Agent.cpp), one action per system   *)
(* call that another thread can see.  Every mover is one call, made by a   *)
(* pool thread of the HTTP server on behalf of send_file or retrieve_file. *)
(*                                                                         *)
(* A name is a path an outsider can open.  The two temporaries of a        *)
(* cross-device move (the stashed source in its mkdtemp directory and the  *)
(* mkstemp copy beside the destination) have unpredictable names and are   *)
(* touched by their own mover only, so they are variables of the mover.    *)
(***************************************************************************)
EXTENDS Naturals, FiniteSets

CONSTANTS
  Movers,     \* calls of move_file; each is made at most once
  Srcs,       \* paths that are moved from
  Dests,      \* Dests[m]: the destinations call m may name
  Contents,   \* what a file can contain
  Damaged,    \* what an interrupted copy can leave in the copy
  Empty,      \* the content of a file just created
  None,       \* no file of that name
  Crc,        \* Crc[c]: the checksum getCrc computes of content c
  Dev,        \* Dev[n]: the filesystem path n is on
  Faults,     \* the system calls that may fail for reasons of their own
  Rewrites    \* sources an application may write again once they are gone

AllDests == UNION {Dests[m] : m \in Movers}
Names == Srcs \cup AllDests
Crcs == {Crc[c] : c \in Contents}

AllFaults == {"rename", "space", "mkdtemp", "stash", "mkstemp", "open",
              "write", "publish", "revert"}

ASSUME MoveAssumption ==
  /\ Empty \in Contents
  /\ Damaged \subseteq Contents
  /\ None \notin Contents
  /\ DOMAIN Dests = Movers
  /\ Srcs \cap AllDests = {}
  /\ Faults \subseteq AllFaults
  /\ Rewrites \subseteq Srcs

VARIABLES
  fs,         \* fs[n]: what path n contains
  orig,       \* what the sources contained at the start (history)
  rewritten,  \* sources an application has written again
  pc,         \* pc[m]: the system call m makes next, or how it returned
  src, dest, want,  \* the arguments: paths and the expected checksum
  stmp,       \* stmp[m]: the source stashed in m's temporary directory
  sdir,       \* sdir[m]: m's temporary directory exists
  dtmp,       \* dtmp[m]: m's temporary copy beside the destination
  exn         \* exn[m]: the exception being propagated by the catch block

args == <<src, dest, want>>
temps == <<stmp, sdir, dtmp>>
env == <<orig, rewritten>>
moveVars == <<fs, orig, rewritten, pc, src, dest, want, stmp, sdir, dtmp, exn>>

\* How a call ends: it returns, throws, or the process dies under it.
Returned == {"ok", "system", "runtime"}
Busy == {"access", "precheck", "rename", "mkdtemp", "stash", "mkstemp",
         "copy", "verify", "publish", "drop", "revert"}
\* Between the stash of the source and its removal or return.
Holding == {"mkstemp", "copy", "verify", "publish", "drop", "revert"}

\* The type of every variable.
MoveTypeOK ==
  /\ fs \in [Names -> Contents \cup {None}]
  /\ orig \in [Srcs -> Contents \cup {None}]
  /\ rewritten \subseteq Rewrites
  /\ pc \in [Movers -> {"idle", "dead"} \cup Busy \cup Returned]
  /\ src \in [Movers -> Srcs \cup {None}]
  /\ dest \in [Movers -> AllDests \cup {None}]
  /\ want \in [Movers -> Crcs \cup {None}]
  /\ stmp \in [Movers -> Contents \cup {None}]
  /\ sdir \in [Movers -> BOOLEAN]
  /\ dtmp \in [Movers -> Contents \cup {None}]
  /\ exn \in [Movers -> {"none", "system", "runtime"}]

MoveInit ==
  /\ fs \in [Names -> Contents \cup {None}]
  /\ orig = [s \in Srcs |-> fs[s]]
  /\ rewritten = {}
  /\ pc = [m \in Movers |-> "idle"]
  /\ src = [m \in Movers |-> None]
  /\ dest = [m \in Movers |-> None]
  /\ want = [m \in Movers |-> None]
  /\ stmp = [m \in Movers |-> None]
  /\ sdir = [m \in Movers |-> FALSE]
  /\ dtmp = [m \in Movers |-> None]
  /\ exn = [m \in Movers |-> "none"]

-----------------------------------------------------------------------------
Goto(m, from, to) ==
  /\ pc[m] = from
  /\ pc' = [pc EXCEPT ![m] = to]

Exists(n) == fs[n] # None

\* Faulty variant of Throw: the exception is forgotten.
ThrowForgets(m, from, e) ==
  /\ Goto(m, from, "revert")
  /\ UNCHANGED <<fs, env, args, exn>>

\* An exception inside the try block: the catch block runs next.
Throw(m, from, e) ==
  /\ Goto(m, from, "revert")
  /\ exn' = [exn EXCEPT ![m] = e]
  /\ UNCHANGED <<fs, env, args>>

CallMove(m, s, d, w) ==
  /\ Goto(m, "idle", "access")
  /\ src' = [src EXCEPT ![m] = s]
  /\ dest' = [dest EXCEPT ![m] = d]
  /\ want' = [want EXCEPT ![m] = w]
  /\ UNCHANGED <<fs, env, temps, exn>>

\* access(dest, F_OK): an existing destination is EEXIST.
CheckDest(m) ==
  /\ Goto(m, "access", IF Exists(dest[m]) THEN "system" ELSE "precheck")
  /\ UNCHANGED <<fs, env, args, temps, exn>>

\* Faulty variant of Precheck: the checksums are not compared.
PrecheckExistsOnly(m) ==
  /\ Goto(m, "precheck", IF Exists(src[m]) THEN "rename" ELSE "runtime")
  /\ UNCHANGED <<fs, env, args, temps, exn>>

\* file_info(src): a missing source or another checksum is a runtime_error.
Precheck(m) ==
  /\ Goto(m, "precheck", IF Exists(src[m]) /\ Crc[fs[src[m]]] = want[m]
                         THEN "rename" ELSE "runtime")
  /\ UNCHANGED <<fs, env, args, temps, exn>>

\* Faulty variant of RenameSame: a link is made and the source stays.
RenameKeepsSource(m) ==
  /\ Goto(m, "rename", "ok")
  /\ Dev[src[m]] = Dev[dest[m]]
  /\ Exists(src[m])
  /\ fs' = [fs EXCEPT ![dest[m]] = fs[src[m]]]
  /\ UNCHANGED <<env, args, temps, exn>>

\* rename(src, dest) on one filesystem; it replaces whatever dest is by now.
RenameSame(m) ==
  /\ Goto(m, "rename", "ok")
  /\ Dev[src[m]] = Dev[dest[m]]
  /\ Exists(src[m])
  /\ fs' = [fs EXCEPT ![dest[m]] = fs[src[m]], ![src[m]] = None]
  /\ UNCHANGED <<env, args, temps, exn>>

RenameFails(m) ==
  /\ Goto(m, "rename", "system")
  /\ Dev[src[m]] = Dev[dest[m]]
  /\ ~Exists(src[m]) \/ "rename" \in Faults
  /\ UNCHANGED <<fs, env, args, temps, exn>>

\* EXDEV is reported whether or not the source still exists.
RenameCrossDevice(m) ==
  /\ Goto(m, "rename", "mkdtemp")
  /\ Dev[src[m]] # Dev[dest[m]]
  /\ UNCHANGED <<fs, env, args, temps, exn>>

NoSpace(m) ==
  /\ Goto(m, "mkdtemp", "system")
  /\ "space" \in Faults
  /\ UNCHANGED <<fs, env, args, temps, exn>>

MakeTempDir(m) ==
  /\ Goto(m, "mkdtemp", "stash")
  /\ sdir' = [sdir EXCEPT ![m] = TRUE]
  /\ UNCHANGED <<fs, env, args, stmp, dtmp, exn>>

\* The process dies: every call in progress stops where it is.
Crash ==
  /\ \E m \in Movers : pc[m] \in Busy
  /\ pc' = [m \in Movers |-> IF pc[m] \in Busy THEN "dead" ELSE pc[m]]
  /\ UNCHANGED <<fs, env, args, temps, exn>>

\* mkdtemp returns NULL and its first character is read.
MakeTempDirFails(m) ==
  /\ "mkdtemp" \in Faults
  /\ pc[m] = "mkdtemp"
  /\ Crash

\* rename(src, stmp); the try block starts after it.
Stash(m) ==
  /\ Goto(m, "stash", "mkstemp")
  /\ Exists(src[m])
  /\ stmp' = [stmp EXCEPT ![m] = fs[src[m]]]
  /\ fs' = [fs EXCEPT ![src[m]] = None]
  /\ UNCHANGED <<env, args, sdir, dtmp, exn>>

StashFails(m) ==
  /\ Goto(m, "stash", "system")
  /\ ~Exists(src[m]) \/ "stash" \in Faults
  /\ UNCHANGED <<fs, env, args, temps, exn>>

MakeTemp(m) ==
  /\ Goto(m, "mkstemp", "copy")
  /\ dtmp' = [dtmp EXCEPT ![m] = Empty]
  /\ UNCHANGED <<fs, env, args, stmp, sdir, exn>>

MakeTempFails(m) ==
  /\ Throw(m, "mkstemp", "system")
  /\ "mkstemp" \in Faults
  /\ UNCHANGED temps

\* open(stmp) fails after mkstemp has created the copy.
OpenFails(m) ==
  /\ Throw(m, "copy", "system")
  /\ "open" \in Faults
  /\ UNCHANGED temps

\* The read/write loop; a short write is logged and the loop goes on.
Copy(m) ==
  /\ Goto(m, "copy", "verify")
  /\ \E c \in {stmp[m]} \cup (IF "write" \in Faults THEN Damaged ELSE {}) :
       dtmp' = [dtmp EXCEPT ![m] = c]
  /\ UNCHANGED <<fs, env, args, stmp, sdir, exn>>

\* Faulty variants of Verify: the checksum of the copy is not compared; the
\* stash is removed as soon as the copy is verified.
VerifySkipped(m) ==
  /\ Goto(m, "verify", "publish")
  /\ UNCHANGED <<fs, env, args, temps, exn>>

VerifyDropsStash(m) ==
  /\ Goto(m, "verify", "publish")
  /\ Crc[dtmp[m]] = want[m]
  /\ stmp' = [stmp EXCEPT ![m] = None]
  /\ UNCHANGED <<fs, env, args, sdir, dtmp, exn>>

Verify(m) ==
  /\ Goto(m, "verify", "publish")
  /\ Crc[dtmp[m]] = want[m]
  /\ UNCHANGED <<fs, env, args, temps, exn>>

\* Faulty variant of VerifyFails: the copy is made again until it verifies.
VerifyRetries(m) ==
  /\ Goto(m, "verify", "copy")
  /\ Crc[dtmp[m]] # want[m]
  /\ UNCHANGED <<fs, env, args, temps, exn>>

VerifyFails(m) ==
  /\ Throw(m, "verify", "runtime")
  /\ Crc[dtmp[m]] # want[m]
  /\ UNCHANGED temps

\* rename(dtmp, dest), whose result is not looked at.
Publish(m) ==
  /\ Goto(m, "publish", "drop")
  /\ \/ /\ fs' = [fs EXCEPT ![dest[m]] = dtmp[m]]
        /\ dtmp' = [dtmp EXCEPT ![m] = None]
     \/ /\ "publish" \in Faults
        /\ UNCHANGED <<fs, dtmp>>
  /\ UNCHANGED <<env, args, stmp, sdir, exn>>

\* unlink(stmp), rmdir(sdir) and return.
Drop(m) ==
  /\ Goto(m, "drop", "ok")
  /\ stmp' = [stmp EXCEPT ![m] = None]
  /\ sdir' = [sdir EXCEPT ![m] = FALSE]
  /\ UNCHANGED <<fs, env, args, dtmp, exn>>

\* Faulty variant of Revert: the exception is rethrown at once.
RevertRethrows(m) ==
  /\ Goto(m, "revert", exn[m])
  /\ UNCHANGED <<fs, env, args, temps, exn>>

\* The catch block: rename(stmp, src), rmdir(sdir), rethrow.
Revert(m) ==
  /\ Goto(m, "revert", exn[m])
  /\ \/ /\ fs' = [fs EXCEPT ![src[m]] = stmp[m]]
        /\ stmp' = [stmp EXCEPT ![m] = None]
        /\ sdir' = [sdir EXCEPT ![m] = FALSE]
     \/ /\ "revert" \in Faults
        /\ UNCHANGED <<fs, stmp, sdir>>
  /\ UNCHANGED <<env, args, dtmp, exn>>

\* An application writes a source path again once the file is gone.
Rewrite(n, c) ==
  /\ n \in Rewrites \ rewritten
  /\ fs[n] = None
  /\ fs' = [fs EXCEPT ![n] = c]
  /\ rewritten' = rewritten \cup {n}
  /\ UNCHANGED <<orig, pc, args, temps, exn>>

MoveStep(m) ==
  \/ CheckDest(m) \/ Precheck(m)
  \/ RenameSame(m) \/ RenameFails(m) \/ RenameCrossDevice(m)
  \/ NoSpace(m) \/ MakeTempDir(m)
  \/ Stash(m) \/ StashFails(m)
  \/ MakeTemp(m) \/ MakeTempFails(m) \/ OpenFails(m)
  \/ Copy(m) \/ Verify(m) \/ VerifyFails(m)
  \/ Publish(m) \/ Drop(m) \/ Revert(m)

MoveNext ==
  \/ \E m \in Movers :
       \/ \E s \in Srcs, d \in Dests[m], w \in Crcs : CallMove(m, s, d, w)
       \/ MoveStep(m) \/ MakeTempDirFails(m)
  \/ \E n \in Srcs, c \in Contents : Rewrite(n, c)
  \/ Crash

MoveSpec == MoveInit /\ [][MoveNext]_moveVars

FairMoveSpec == MoveSpec /\ \A m \in Movers : WF_moveVars(MoveStep(m))

-----------------------------------------------------------------------------
\* No two calls name the same destination, which the random identifiers of
\* send_file guarantee and clients of retrieve_file have to arrange.
PrivateDests ==
  \A m, n \in Movers : m # n => Dests[m] \cap Dests[n] = {}

\* The circumstances in which move_file keeps all it promises.
Undisturbed == PrivateDests /\ Rewrites = {} /\ "publish" \notin Faults

\* Call m has the file of its source: stashed, or delivered.
Took(m) == stmp[m] # None \/ pc[m] = "ok"

\* m's destination has a file with the checksum of content c.
Delivered(m, c) ==
  /\ pc[m] = "ok"
  /\ Exists(dest[m])
  /\ Crc[fs[dest[m]]] = Crc[c]

\* No file is lost: at every instant, also when the process dies between two
\* system calls of move_file, the file a source held at the start is still
\* there, or stashed by a call, or at the destination of a call with the
\* checksum it had.
Conserved ==
  \A s \in Srcs : orig[s] # None =>
    \/ fs[s] = orig[s]
    \/ \E m \in Movers : src[m] = s /\ (stmp[m] = orig[s] \/ Delivered(m, orig[s]))

\* Of the concurrent calls that move one source, at most one returns normally:
\* send_file never answers two requests with the same file.
AtMostOneOk ==
  \A m, n \in Movers :
    m # n /\ pc[m] = "ok" /\ pc[n] = "ok" => src[m] # src[n]

\* When move_file throws, the source is back in place unless another call has
\* it: "undo the rename to leave src in place".
FailedMoveKeepsSource ==
  \A m \in Movers :
    pc[m] \in {"system", "runtime"} /\ orig[src[m]] # None =>
      \/ fs[src[m]] = orig[src[m]]
      \/ \E n \in Movers \ {m} : src[n] = src[m] /\ Took(n)

\* When move_file returns, the destination has a file with the checksum the
\* caller asked for.
OkDelivers ==
  \A m \in Movers :
    pc[m] = "ok" => Exists(dest[m]) /\ Crc[fs[dest[m]]] = want[m]

\* No reader of a destination path ever sees a partial or damaged copy: what
\* appears under a destination name has the checksum a call to it expects.
DestVerified ==
  [][\A d \in AllDests : fs'[d] # fs[d] =>
       /\ fs'[d] # None
       /\ \E m \in Movers : dest[m] = d /\ Crc[fs'[d]] = want[m]]_moveVars

\* The same of the copying path alone, which holds whatever applications do to
\* the source path meanwhile: the copy that was verified is what is published.
CopyVerified ==
  [][\A m \in Movers : pc[m] = "publish" /\ fs'[dest[m]] # fs[dest[m]] =>
       pc'[m] = "publish" \/ Crc[fs'[dest[m]]] = want[m]]_moveVars

\* "abort if destination file exists": a call never replaces a file that is
\* already at its destination.
NeverOverwrites ==
  [][\A d \in AllDests : fs[d] # None => fs'[d] = fs[d]]_moveVars

\* Every call of move_file comes to an end.
EveryCallEnds ==
  \A m \in Movers : pc[m] = "access" ~> pc[m] \in Returned \cup {"dead"}
-----------------------------------------------------------------------------
(***************************************************************************)
(* The inductive invariant behind the theorems of MoveFileProofs.          *)
(***************************************************************************)
\* Once called, a call has its arguments.
ArgsSet ==
  \A m \in Movers : pc[m] # "idle" =>
    src[m] \in Srcs /\ dest[m] \in Dests[m] /\ want[m] \in Crcs

\* A source holds its file or nothing.
SrcsIntact == \A n \in Srcs : fs[n] \in {orig[n], None}

\* Past the precheck, the checksum asked for is that of the source.
Checked ==
  \A m \in Movers : pc[m] \in {"rename", "mkdtemp", "stash", "ok"} \cup Holding =>
    orig[src[m]] # None /\ want[m] = Crc[orig[src[m]]]

\* The stash is the source's file.
StashIsSource ==
  \A m \in Movers :
    /\ pc[m] \in (Busy \ Holding) \cup {"idle", "ok"} => stmp[m] = None
    /\ pc[m] \in {"system", "runtime"} /\ "revert" \notin Faults => stmp[m] = None
    /\ stmp[m] # None => pc[m] # "idle" /\ stmp[m] = orig[src[m]]

\* The source stays stashed, and from verification to publication the copy has
\* the checksum asked for.
CopyIsGood ==
  \A m \in Movers :
    /\ pc[m] \in Holding => stmp[m] # None
    /\ pc[m] \in {"copy", "verify", "publish"} => dtmp[m] # None
    /\ pc[m] = "publish" => Crc[dtmp[m]] = want[m]
    /\ pc[m] = "revert" => exn[m] # "none"

\* From the access check to the publication nothing is at the destination.
DestFree ==
  \A m \in Movers : pc[m] \in Busy \ {"access", "drop"} => fs[dest[m]] = None

\* Published: the destination has it before the stash is dropped.
Published ==
  \A m \in Movers : pc[m] \in {"drop", "ok"} =>
    Exists(dest[m]) /\ Crc[fs[dest[m]]] = want[m]

\* The file of a source is in one pair of hands at most.
Exclusive ==
  \A m \in Movers : Took(m) =>
    /\ fs[src[m]] = None
    /\ \A n \in Movers \ {m} : Took(n) => src[n] # src[m]

\* What holds whatever the faults and the applications do.
BasicInv == MoveTypeOK /\ ArgsSet /\ CopyIsGood

\* What holds when destinations are private, sources are not written again
\* and the final rename does not fail.
MoveInv ==
  /\ BasicInv /\ SrcsIntact /\ Checked /\ StashIsSource
  /\ DestFree /\ Published /\ Exclusive /\ Conserved
=============================================================================
