--------------------------- MODULE MoveFileProofs ---------------------------
(***************************************************************************)
(* Proofs about MoveFile, for any number of concurrent calls, any paths,   *)
(* contents and checksum function, and any fault the hypotheses allow.     *)
(***************************************************************************)
EXTENDS MoveFile, TLAPS

USE ZenonT(100)

LEMMA BasicInit == MoveInit => BasicInv
  <1> SUFFICES ASSUME MoveInit PROVE BasicInv
    OBVIOUS
  <1>1. MoveTypeOK
    BY MoveAssumption DEF MoveInit, MoveTypeOK, Names
  <1>2. ArgsSet /\ CopyIsGood
    BY DEF MoveInit, ArgsSet, CopyIsGood, Holding
  <1> QED BY <1>1, <1>2 DEF BasicInv

LEMMA BasicCall ==
  ASSUME BasicInv, NEW m \in Movers, NEW s \in Srcs, NEW d \in Dests[m],
         NEW w \in Crcs, CallMove(m, s, d, w)
  PROVE  BasicInv'
  <1>1. d \in AllDests
    BY DEF AllDests
  <1>2. MoveTypeOK'
    BY <1>1 DEF BasicInv, MoveTypeOK, CallMove, Goto, temps, env, Busy, Returned
  <1>3. ArgsSet'
    BY DEF BasicInv, MoveTypeOK, ArgsSet, CallMove, Goto, temps, env
  <1>4. CopyIsGood'
    BY DEF BasicInv, MoveTypeOK, CopyIsGood, Holding, CallMove, Goto, temps, env
  <1> QED BY <1>2, <1>3, <1>4 DEF BasicInv

\* The steps that only move the program counter.
QuietStep(m) ==
  \/ CheckDest(m) \/ Precheck(m) \/ RenameFails(m) \/ RenameCrossDevice(m)
  \/ NoSpace(m) \/ StashFails(m) \/ Verify(m)

LEMMA BasicQuiet ==
  ASSUME BasicInv, NEW m \in Movers, QuietStep(m)
  PROVE  BasicInv'
  <1> USE DEF BasicInv, MoveTypeOK, QuietStep, CheckDest, Precheck, RenameFails,
              RenameCrossDevice, NoSpace, StashFails, Verify, Goto, args, temps,
              env, Busy, Returned
  <1>1. MoveTypeOK'
    BY SMTT(100)
  <1>2. ArgsSet'
    BY DEF ArgsSet
  <1>3. CopyIsGood'
    BY SMTT(100) DEF CopyIsGood, Holding
  <1> QED BY <1>1, <1>2, <1>3

LEMMA BasicFile ==
  ASSUME BasicInv, NEW m \in Movers,
         RenameSame(m) \/ Stash(m) \/ Publish(m) \/ Revert(m)
  PROVE  BasicInv'
  <1> USE DEF BasicInv, MoveTypeOK, Goto, args, temps, env, Exists
  <1>1. src[m] \in Names /\ dest[m] \in Names
    BY SMTT(100) DEF RenameSame, Stash, Publish, Revert, ArgsSet, Names, AllDests
  <1>2. MoveTypeOK'
    <2>1. CASE RenameSame(m)
      BY <1>1, <2>1 DEF RenameSame, Returned
    <2>2. CASE Stash(m)
      BY <1>1, <2>2 DEF Stash, Busy
    <2>3. CASE Publish(m)
      BY <1>1, <2>3 DEF Publish, Busy
    <2>4. CASE Revert(m)
      BY <1>1, <2>4 DEF Revert, Returned, CopyIsGood
    <2> QED BY <2>1, <2>2, <2>3, <2>4
  <1>3. ArgsSet'
    BY DEF ArgsSet, RenameSame, Stash, Publish, Revert
  <1>4. CopyIsGood'
    <2>1. CASE RenameSame(m) \/ Stash(m) \/ Publish(m)
      BY SMTT(100), <2>1 DEF CopyIsGood, Holding, RenameSame, Stash, Publish
    <2>2. CASE Revert(m)
      BY SMTT(100), <2>2 DEF CopyIsGood, Holding, Revert
    <2> QED BY <2>1, <2>2
  <1> QED BY <1>2, <1>3, <1>4

LEMMA BasicTemp ==
  ASSUME BasicInv, NEW m \in Movers,
         \/ MakeTempDir(m) \/ MakeTemp(m) \/ MakeTempFails(m) \/ OpenFails(m)
         \/ Copy(m) \/ VerifyFails(m) \/ Drop(m)
  PROVE  BasicInv'
  <1> USE DEF BasicInv, MoveTypeOK, Goto, args, temps, env, MakeTempDir, MakeTemp,
              MakeTempFails, OpenFails, Copy, VerifyFails, Drop, Throw
  <1>1. MoveTypeOK'
    <2>1. CASE MakeTempDir(m)
      BY <2>1 DEF Busy
    <2>2. CASE MakeTemp(m) \/ MakeTempFails(m) \/ OpenFails(m) \/ VerifyFails(m)
      BY SMTT(100), <2>2, MoveAssumption DEF Busy
    <2>3. CASE Copy(m)
      BY SMTT(100), <2>3, MoveAssumption DEF Busy
    <2>4. CASE Drop(m)
      BY <2>4 DEF Returned
    <2> QED BY <2>1, <2>2, <2>3, <2>4
  <1>2. ArgsSet'
    BY DEF ArgsSet
  <1>3. CopyIsGood'
    <2>1. CASE Copy(m)
      <3>1. stmp[m] \in Contents \cup {None}
        OBVIOUS
      <3> QED BY SMTT(100), <2>1, <3>1, MoveAssumption DEF CopyIsGood, Holding
    <2>2. CASE MakeTempDir(m) \/ MakeTemp(m) \/ MakeTempFails(m)
      BY SMTT(100), <2>2, MoveAssumption DEF CopyIsGood, Holding
    <2>3. CASE OpenFails(m) \/ VerifyFails(m) \/ Drop(m)
      BY SMTT(100), <2>3 DEF CopyIsGood, Holding
    <2> QED BY <2>1, <2>2, <2>3
  <1> QED BY <1>1, <1>2, <1>3

LEMMA BasicCrash ==
  ASSUME BasicInv, Crash
  PROVE  BasicInv'
  <1> USE DEF BasicInv, MoveTypeOK, Crash, args, temps, env
  <1>1. MoveTypeOK'
    BY DEF Busy
  <1>2. ArgsSet'
    BY DEF ArgsSet, Busy
  <1>3. CopyIsGood'
    BY DEF CopyIsGood, Holding, Busy
  <1> QED BY <1>1, <1>2, <1>3

LEMMA BasicRewrite ==
  ASSUME BasicInv, NEW n \in Srcs, NEW c \in Contents, Rewrite(n, c)
  PROVE  BasicInv'
  BY DEF BasicInv, MoveTypeOK, ArgsSet, CopyIsGood, Holding, Rewrite, args, temps, env

\* Every step of a call, sorted by what it changes.
LEMMA StepKinds ==
  ASSUME NEW m \in Movers, MoveStep(m)
  PROVE  \/ QuietStep(m)
         \/ RenameSame(m) \/ Stash(m) \/ Publish(m) \/ Revert(m)
         \/ MakeTempDir(m) \/ MakeTemp(m) \/ MakeTempFails(m) \/ OpenFails(m)
         \/ Copy(m) \/ VerifyFails(m) \/ Drop(m)
  BY DEF MoveStep, QuietStep

LEMMA BasicStep == BasicInv /\ [MoveNext]_moveVars => BasicInv'
  <1> SUFFICES ASSUME BasicInv, [MoveNext]_moveVars PROVE BasicInv'
    OBVIOUS
  <1>1. ASSUME NEW m \in Movers, NEW s \in Srcs, NEW d \in Dests[m],
               NEW w \in Crcs, CallMove(m, s, d, w)
        PROVE  BasicInv'
    BY <1>1, BasicCall
  <1>2. ASSUME NEW m \in Movers, MoveStep(m)
        PROVE  BasicInv'
    BY <1>2, StepKinds, BasicQuiet, BasicFile, BasicTemp
  <1>3. ASSUME NEW n \in Srcs, NEW c \in Contents, Rewrite(n, c)
        PROVE  BasicInv'
    BY <1>3, BasicRewrite
  <1>4. CASE Crash
    BY <1>4, BasicCrash
  <1>5. CASE UNCHANGED moveVars
    BY <1>5 DEF moveVars, BasicInv, MoveTypeOK, ArgsSet, CopyIsGood
  <1> QED BY <1>1, <1>2, <1>3, <1>4, <1>5 DEF MoveNext, MakeTempDirFails

\* The variables of move_file keep their types whatever fails and whatever
\* applications do: in particular no step reads a file that does not exist.
THEOREM MoveTypeCorrect == MoveSpec => []MoveTypeOK
  <1>1. BasicInv => MoveTypeOK
    BY DEF BasicInv
  <1> QED BY BasicInit, BasicStep, <1>1, PTL DEF MoveSpec

\* Whatever fails and whatever applications do to the source meanwhile, a
\* cross-device move publishes only a copy with the checksum asked for.
THEOREM CopyIsVerified == MoveSpec => CopyVerified
  <1>1. ASSUME BasicInv, [MoveNext]_moveVars, NEW m \in Movers,
               pc[m] = "publish", fs'[dest[m]] # fs[dest[m]]
        PROVE  pc'[m] = "publish" \/ Crc[fs'[dest[m]]] = want[m]
    <2> USE DEF BasicInv, MoveTypeOK
    <2>0. dest[m] \in AllDests /\ dest[m] \notin Srcs
      BY SMTT(100), <1>1, MoveAssumption DEF ArgsSet, AllDests
    <2>1. ASSUME NEW n \in Movers, NEW s \in Srcs, NEW d \in Dests[n],
                 NEW w \in Crcs, CallMove(n, s, d, w)
          PROVE  FALSE
      BY <1>1, <2>1 DEF CallMove
    <2>2. ASSUME NEW n \in Movers, MoveStep(n)
          PROVE  pc'[m] = "publish" \/ Crc[fs'[dest[m]]] = want[m]
      <3>1. CASE n = m
        <4>1. Publish(m)
          BY <1>1, <2>2, <3>1, StepKinds
             DEF QuietStep, CheckDest, Precheck, RenameFails, RenameCrossDevice,
                 NoSpace, StashFails, Verify, RenameSame, Stash, Revert,
                 MakeTempDir, MakeTemp, MakeTempFails, OpenFails, Copy,
                 VerifyFails, Drop, Throw, Goto
        <4> QED BY <1>1, <2>0, <4>1 DEF Publish, CopyIsGood, Names
      <3>2. CASE n # m
        BY <1>1, <2>2, <3>2
           DEF MoveStep, CheckDest, Precheck, RenameFails, RenameCrossDevice,
               NoSpace, StashFails, Verify, RenameSame, Stash, Publish, Revert,
               MakeTempDir, MakeTemp, MakeTempFails, OpenFails, Copy,
               VerifyFails, Drop, Throw, Goto
      <3> QED BY <3>1, <3>2
    <2>3. ASSUME NEW n \in Srcs, NEW c \in Contents, Rewrite(n, c)
          PROVE  FALSE
      BY <1>1, <2>0, <2>3 DEF Rewrite, Names
    <2>4. CASE Crash \/ UNCHANGED moveVars
      BY <1>1, <2>4 DEF Crash, moveVars
    <2> QED BY <1>1, <2>1, <2>2, <2>3, <2>4 DEF MoveNext, MakeTempDirFails
  <1>2. BasicInv /\ [MoveNext]_moveVars =>
          [\A m \in Movers : pc[m] = "publish" /\ fs'[dest[m]] # fs[dest[m]] =>
             pc'[m] = "publish" \/ Crc[fs'[dest[m]]] = want[m]]_moveVars
    BY <1>1
  <1> QED BY BasicInit, BasicStep, <1>2, PTL DEF MoveSpec, CopyVerified

-----------------------------------------------------------------------------
(***************************************************************************)
(* The full invariant, when nobody disturbs the paths in use.              *)
(***************************************************************************)
LEMMA FullInit == MoveInit => MoveInv
  <1> SUFFICES ASSUME MoveInit PROVE MoveInv
    OBVIOUS
  <1>1. MoveTypeOK
    BY BasicInit DEF BasicInv
  <1>2. SrcsIntact /\ Conserved
    BY <1>1 DEF MoveInit, SrcsIntact, Conserved
  <1>3. Checked /\ StashIsSource /\ DestFree /\ Published /\ Exclusive
    BY DEF MoveInit, Checked, StashIsSource, DestFree, Published, Exclusive, Took,
           Holding, Busy
  <1> QED BY BasicInit, <1>2, <1>3 DEF MoveInv

\* MoveInv without the demand that sources outside S are conserved: with S empty
\* it holds as well when somebody else takes sources away.
ConservedOf(S) ==
  \A s \in S : orig[s] # None =>
    \/ fs[s] = orig[s]
    \/ \E m \in Movers : src[m] = s /\ (stmp[m] = orig[s] \/ Delivered(m, orig[s]))

KeepInv(S) ==
  /\ BasicInv /\ SrcsIntact /\ Checked /\ StashIsSource
  /\ DestFree /\ Published /\ Exclusive /\ ConservedOf(S)

LEMMA FullCall ==
  ASSUME NEW S \in SUBSET Srcs, KeepInv(S), NEW m \in Movers, NEW s \in Srcs, NEW d \in Dests[m],
         NEW w \in Crcs, CallMove(m, s, d, w)
  PROVE  KeepInv(S)'
  <1> USE DEF KeepInv, BasicInv, MoveTypeOK, CallMove, Goto, temps, env
  <1>1. BasicInv'
    BY BasicCall
  <1>2. SrcsIntact'
    BY DEF SrcsIntact
  <1>3. Checked' /\ StashIsSource'
    BY SMTT(100) DEF Checked, StashIsSource, Holding, Busy
  <1>4. Published' /\ Exclusive'
    BY SMTT(100) DEF Published, Exclusive, Took, Exists, StashIsSource
  <1>5. ConservedOf(S)'
    BY SMTT(100) DEF ConservedOf, Delivered, Exists, StashIsSource
  <1>6. DestFree'
    BY DEF DestFree, Busy
  <1> HIDE DEF BasicInv, MoveTypeOK, CallMove, Goto, temps, env
  <1> QED BY <1>1, <1>2, <1>3, <1>4, <1>5, <1>6

\* A step of m that touches no file and neither takes nor gives up a stash.
LEMMA FrameStep ==
  ASSUME NEW S \in SUBSET Srcs, KeepInv(S), NEW m \in Movers,
         UNCHANGED <<fs, orig, src, dest, want, stmp>>,
         pc[m] \in Busy \ {"drop"},
         pc'[m] \in (Busy \ {"access", "drop"}) \cup {"system", "runtime"},
         \A n \in Movers \ {m} : pc'[n] = pc[n],
         pc'[m] \in Holding <=> pc[m] \in Holding,
         pc'[m] \in {"rename", "mkdtemp", "stash"} \cup Holding =>
           \/ pc[m] \in {"rename", "mkdtemp", "stash"} \cup Holding
           \/ orig[src[m]] # None /\ want[m] = Crc[orig[src[m]]],
         pc[m] = "access" /\ pc'[m] \in Busy => fs[dest[m]] = None
  PROVE  /\ SrcsIntact' /\ Checked' /\ StashIsSource' /\ DestFree' /\ Published'
         /\ Exclusive' /\ ConservedOf(S)'
  <1>1. SrcsIntact'
    BY DEF KeepInv, SrcsIntact
  <1>2. Checked'
    <2> SUFFICES ASSUME NEW n \in Movers,
                        pc'[n] \in {"rename", "mkdtemp", "stash", "ok"} \cup Holding
                 PROVE  orig[src[n]] # None /\ want[n] = Crc[orig[src[n]]]
      BY DEF Checked
    <2>1. Checked
      BY DEF KeepInv
    <2>2. CASE n # m
      BY <2>1, <2>2 DEF Checked
    <2>3. CASE n = m
      <3>1. pc'[m] # "ok"
        BY DEF Busy
      <3> QED BY <2>1, <2>3, <3>1 DEF Checked
    <2> QED BY <2>2, <2>3
  <1>3. StashIsSource'
    <2> SUFFICES ASSUME NEW n \in Movers
                 PROVE
                   /\ pc'[n] \in (Busy \ Holding) \cup {"idle", "ok"} => stmp[n] = None
                   /\ pc'[n] \in {"system", "runtime"} /\ "revert" \notin Faults => stmp[n] = None
                   /\ stmp[n] # None => pc'[n] # "idle" /\ stmp[n] = orig[src[n]]
      BY DEF StashIsSource
    <2>1. StashIsSource
      BY DEF KeepInv
    <2>2. CASE n # m
      BY <2>1, <2>2 DEF StashIsSource
    <2>3. CASE n = m
      <3>1. /\ pc'[m] \notin {"idle", "ok"}
            /\ pc'[m] \in {"system", "runtime"} => pc'[m] \notin Holding
        BY DEF Busy, Holding
      <3> QED BY <2>1, <2>3, <3>1 DEF StashIsSource
    <2> QED BY <2>2, <2>3
  <1>4. DestFree'
    <2> SUFFICES ASSUME NEW n \in Movers, pc'[n] \in Busy \ {"access", "drop"}
                 PROVE  fs[dest[n]] = None
      BY DEF DestFree
    <2>1. DestFree
      BY DEF KeepInv
    <2> QED BY <2>1 DEF DestFree
  <1>5. pc[m] \notin {"drop", "ok"} /\ pc'[m] \notin {"drop", "ok"}
    BY DEF Busy
  <1>6. \A n \in Movers : pc'[n] \in {"drop", "ok"} => pc[n] = pc'[n]
    BY <1>5
  <1>7. \A n \in Movers : pc[n] \in {"drop", "ok"} => pc[n] = pc'[n]
    BY <1>5
  <1>8. Published'
    BY <1>6 DEF KeepInv, Published, Exists
  <1>9. \A n \in Movers : Took(n)' <=> Took(n)
    BY <1>6, <1>7 DEF Took
  <1>10. Exclusive'
    BY <1>9 DEF KeepInv, Exclusive
  <1>11. \A n \in Movers, c \in Contents \cup {None} : Delivered(n, c) => Delivered(n, c)'
    BY <1>7 DEF Delivered, Exists
  <1>12. ConservedOf(S)'
    <2>1. \A s \in Srcs : orig[s] \in Contents \cup {None}
      BY DEF KeepInv, BasicInv, MoveTypeOK
    <2> QED BY <1>11, <2>1 DEF KeepInv, ConservedOf
  <1> QED BY <1>1, <1>2, <1>3, <1>4, <1>8, <1>10, <1>12

LEMMA FullQuiet ==
  ASSUME NEW S \in SUBSET Srcs, KeepInv(S), NEW m \in Movers, QuietStep(m)
  PROVE  KeepInv(S)'
  <1>1. BasicInv'
    BY BasicQuiet DEF KeepInv
  <1>2. pc \in [Movers -> {"idle", "dead"} \cup Busy \cup Returned]
    BY DEF KeepInv, BasicInv, MoveTypeOK
  <1>3. /\ UNCHANGED <<fs, orig, src, dest, want, stmp>>
        /\ \E to : pc' = [pc EXCEPT ![m] = to]
    BY DEF QuietStep, CheckDest, Precheck, RenameFails, RenameCrossDevice,
                      NoSpace, StashFails, Verify, Goto, args, temps, env
  <1>4. \A n \in Movers \ {m} : pc'[n] = pc[n]
    BY <1>2, <1>3
  <1>5. \/ pc[m] = "access" /\ pc'[m] = "system"
        \/ pc[m] = "access" /\ pc'[m] = "precheck" /\ fs[dest[m]] = None
        \/ /\ pc[m] = "precheck" /\ pc'[m] = "rename"
           /\ fs[src[m]] # None /\ Crc[fs[src[m]]] = want[m]
        \/ pc[m] = "precheck" /\ pc'[m] = "runtime"
        \/ pc[m] \in {"rename", "mkdtemp", "stash"} /\ pc'[m] = "system"
        \/ pc[m] = "rename" /\ pc'[m] = "mkdtemp"
        \/ pc[m] = "verify" /\ pc'[m] = "publish"
    <2>1. CASE CheckDest(m)
      BY <1>2, <2>1 DEF CheckDest, Goto, Exists
    <2>2. CASE Precheck(m)
      BY <1>2, <2>2 DEF Precheck, Goto, Exists
    <2>3. CASE RenameFails(m) \/ RenameCrossDevice(m) \/ NoSpace(m)
      BY <1>2, <2>3 DEF RenameFails, RenameCrossDevice, NoSpace, Goto
    <2>4. CASE StashFails(m) \/ Verify(m)
      BY <1>2, <2>4 DEF StashFails, Verify, Goto
    <2> QED BY <2>1, <2>2, <2>3, <2>4 DEF QuietStep
  <1>6. pc[m] = "precheck" => src[m] \in Srcs /\ fs[src[m]] \in {orig[src[m]], None}
    BY DEF KeepInv, BasicInv, ArgsSet, SrcsIntact
  <1>7. /\ pc[m] \in Busy \ {"drop"}
        /\ pc'[m] \in (Busy \ {"access", "drop"}) \cup {"system", "runtime"}
        /\ pc'[m] \in Holding <=> pc[m] \in Holding
        /\ pc[m] = "access" /\ pc'[m] \in Busy => fs[dest[m]] = None
    BY <1>5 DEF Busy, Holding
  <1>8. pc'[m] \in {"rename", "mkdtemp", "stash"} \cup Holding =>
           \/ pc[m] \in {"rename", "mkdtemp", "stash"} \cup Holding
           \/ orig[src[m]] # None /\ want[m] = Crc[orig[src[m]]]
    BY <1>5, <1>6 DEF Holding
  <1>9. /\ SrcsIntact' /\ Checked' /\ StashIsSource' /\ DestFree' /\ Published'
        /\ Exclusive' /\ ConservedOf(S)'
    BY <1>3, <1>4, <1>7, <1>8, FrameStep
  <1> QED BY <1>1, <1>9 DEF KeepInv

LEMMA FullTemp ==
  ASSUME NEW S \in SUBSET Srcs, KeepInv(S), NEW m \in Movers,
         \/ MakeTempDir(m) \/ MakeTemp(m) \/ MakeTempFails(m) \/ OpenFails(m)
         \/ Copy(m) \/ VerifyFails(m)
  PROVE  KeepInv(S)'
  <1>1. BasicInv'
    BY BasicTemp DEF KeepInv
  <1>2. pc \in [Movers -> {"idle", "dead"} \cup Busy \cup Returned]
    BY DEF KeepInv, BasicInv, MoveTypeOK
  <1>3. UNCHANGED <<fs, orig, src, dest, want, stmp>>
    BY DEF MakeTempDir, MakeTemp, MakeTempFails, OpenFails, Copy, VerifyFails,
                      Throw, args, temps, env
  <1>4. \E to : /\ pc' = [pc EXCEPT ![m] = to]
                /\ \/ pc[m] = "mkdtemp" /\ to = "stash"
                   \/ pc[m] = "mkstemp" /\ to \in {"copy", "revert"}
                   \/ pc[m] = "copy" /\ to \in {"verify", "revert"}
                   \/ pc[m] = "verify" /\ to = "revert"
    BY DEF MakeTempDir, MakeTemp, MakeTempFails, OpenFails, Copy, VerifyFails,
                      Throw, Goto
  <1>5. /\ \A n \in Movers \ {m} : pc'[n] = pc[n]
        /\ \/ pc[m] = "mkdtemp" /\ pc'[m] = "stash"
           \/ pc[m] = "mkstemp" /\ pc'[m] \in {"copy", "revert"}
           \/ pc[m] = "copy" /\ pc'[m] \in {"verify", "revert"}
           \/ pc[m] = "verify" /\ pc'[m] = "revert"
    BY <1>2, <1>4
  <1>6. /\ pc[m] \in Busy \ {"access", "drop"}
        /\ pc'[m] \in Busy \ {"access", "drop"}
        /\ pc'[m] \in Holding <=> pc[m] \in Holding
        /\ pc[m] \in {"rename", "mkdtemp", "stash"} \cup Holding
    BY <1>5 DEF Busy, Holding
  <1>7. /\ SrcsIntact' /\ Checked' /\ StashIsSource' /\ DestFree' /\ Published'
        /\ Exclusive' /\ ConservedOf(S)'
    <2>1. pc[m] # "access" /\ pc[m] \in Busy \ {"drop"}
      BY <1>6
    <2>2. pc'[m] \in (Busy \ {"access", "drop"}) \cup {"system", "runtime"}
      BY <1>6
    <2> QED BY <1>3, <1>5, <1>6, <2>1, <2>2, FrameStep
  <1> QED BY <1>1, <1>7 DEF KeepInv

LEMMA FullCrash ==
  ASSUME NEW S \in SUBSET Srcs, KeepInv(S), Crash
  PROVE  KeepInv(S)'
  <1>1. BasicInv'
    BY BasicCrash DEF KeepInv
  <1>2. UNCHANGED <<fs, orig, src, dest, want, stmp>>
    BY DEF Crash, args, temps, env
  <1>3. \A n \in Movers : pc'[n] = pc[n] \/ (pc[n] \in Busy /\ pc'[n] = "dead")
    BY DEF Crash
  <1>4. /\ "dead" \notin Busy \cup Holding \cup {"idle", "system", "runtime"}
        /\ "dead" \notin {"drop", "ok", "rename", "mkdtemp", "stash"}
        /\ "ok" \notin Busy /\ "idle" \notin Busy
    BY DEF Busy, Holding
  <1>5. SrcsIntact'
    BY <1>2 DEF KeepInv, SrcsIntact
  <1>6. Checked'
    BY <1>2, <1>3, <1>4 DEF KeepInv, Checked
  <1>7. StashIsSource'
    BY <1>2, <1>3, <1>4 DEF KeepInv, StashIsSource
  <1>8. DestFree' /\ Published'
    BY <1>2, <1>3, <1>4 DEF KeepInv, DestFree, Published, Exists
  <1>9. \A n \in Movers : Took(n)' <=> Took(n)
    BY <1>2, <1>3, <1>4 DEF Took
  <1>10. Exclusive'
    BY <1>2, <1>9 DEF KeepInv, Exclusive
  <1>11. ConservedOf(S)'
    <2>1. \A n \in Movers, c \in Contents \cup {None} : Delivered(n, c) => Delivered(n, c)'
      BY <1>2, <1>3, <1>4 DEF Delivered, Exists
    <2>2. \A s \in Srcs : orig[s] \in Contents \cup {None}
      BY DEF KeepInv, BasicInv, MoveTypeOK
    <2> QED BY SMTT(100), <1>2, <2>1, <2>2 DEF KeepInv, ConservedOf
  <1> QED BY <1>1, <1>5, <1>6, <1>7, <1>8, <1>10, <1>11 DEF KeepInv

\* Distinct calls have distinct paths.
LEMMA PathsApart ==
  ASSUME Undisturbed, ArgsSet, NEW m \in Movers, pc[m] # "idle"
  PROVE  /\ src[m] \in Srcs /\ dest[m] \in AllDests
         /\ src[m] \in Names /\ dest[m] \in Names
         /\ dest[m] \notin Srcs /\ src[m] \notin AllDests
         /\ \A n \in Movers \ {m} : pc[n] # "idle" =>
              /\ dest[n] # dest[m]
              /\ dest[n] # src[m]
              /\ src[n] # dest[m]
  <1>1. \A n \in Movers : pc[n] # "idle" =>
          src[n] \in Srcs /\ dest[n] \in Dests[n] /\ dest[n] \in AllDests
    BY DEF ArgsSet, AllDests
  <1>2. \A n \in Movers \ {m} : pc[n] # "idle" => dest[n] # dest[m]
    BY <1>1 DEF Undisturbed, PrivateDests
  <1>3. \A x \in Srcs : x \notin AllDests
    BY MoveAssumption
  <1> QED BY <1>1, <1>2, <1>3 DEF Names

LEMMA FullRename ==
  ASSUME Undisturbed, NEW S \in SUBSET Srcs, KeepInv(S), NEW m \in Movers, RenameSame(m)
  PROVE  KeepInv(S)'
  <1> USE DEF KeepInv, BasicInv, MoveTypeOK, Goto, args, temps, env, RenameSame,
              Exists
  <1>1. BasicInv'
    BY BasicFile
  <1>2. /\ src[m] \in Srcs /\ dest[m] \in AllDests
        /\ src[m] \in Names /\ dest[m] \in Names
        /\ dest[m] \notin Srcs
        /\ \A n \in Movers \ {m} : pc[n] # "idle" => dest[n] # dest[m] /\ dest[n] # src[m]
    BY PathsApart
  <1>3. fs[src[m]] = orig[src[m]] /\ want[m] = Crc[orig[src[m]]]
    BY <1>2 DEF SrcsIntact, Checked
  <1>4. SrcsIntact'
    BY <1>2 DEF SrcsIntact, Names
  <1>5. Checked' /\ StashIsSource'
    BY SMTT(100) DEF Checked, StashIsSource, Holding, Busy
  <1>6. Published'
    <2>1. fs'[dest[m]] = orig[src[m]] /\ orig[src[m]] # None
      BY <1>2, <1>3
    <2>2. \A n \in Movers \ {m} : pc[n] # "idle" =>
            fs'[dest[n]] = fs[dest[n]] /\ pc'[n] = pc[n]
      BY SMTT(100), <1>2 DEF ArgsSet, Names, AllDests
    <2>3. \A n \in Movers \ {m} : pc'[n] = pc[n]
      OBVIOUS
    <2> SUFFICES ASSUME NEW n \in Movers, pc'[n] \in {"drop", "ok"}
                 PROVE  fs'[dest[n]] # None /\ Crc[fs'[dest[n]]] = want[n]
      BY DEF Published
    <2>4. CASE n = m
      BY <1>3, <2>1, <2>4
    <2>5. CASE n # m
      BY <2>2, <2>3, <2>5 DEF Published
    <2> QED BY <2>4, <2>5
  <1>7. Exclusive'
    <2>1. \A n \in Movers \ {m} : Took(n) => src[n] # src[m] /\ pc[n] # "idle"
      BY SMTT(100), <1>2 DEF Exclusive, Took, StashIsSource
    <2>2. \A n \in Movers \ {m} : Took(n)' <=> Took(n)
      BY DEF Took
    <2>3. \A n \in Movers \ {m} : pc[n] # "idle" /\ fs[src[n]] = None => fs'[src[n]] = None
      BY <1>2 DEF ArgsSet, Names
    <2>4. fs'[src[m]] = None
      BY <1>2
    <2> QED BY <2>1, <2>2, <2>3, <2>4 DEF Exclusive
  <1>8. ConservedOf(S)'
    <2> SUFFICES ASSUME NEW s \in S, orig[s] # None
                 PROVE  \/ fs'[s] = orig[s]
                        \/ \E n \in Movers : src[n] = s /\
                             (stmp[n] = orig[s] \/ Delivered(n, orig[s])')
      BY DEF ConservedOf
    <2>1. CASE s = src[m]
      <3>1. Delivered(m, orig[s])'
        BY <1>2, <1>3, <2>1 DEF Delivered
      <3> QED BY <2>1, <3>1
    <2>2. CASE s # src[m]
      <3>1. CASE fs[s] = orig[s]
        BY <1>2, <2>2, <3>1 DEF Names
      <3>2. ASSUME NEW n \in Movers, src[n] = s, stmp[n] = orig[s] \/ Delivered(n, orig[s])
            PROVE  stmp[n] = orig[s] \/ Delivered(n, orig[s])'
        <4>1. CASE Delivered(n, orig[s])
          <5>1. pc[n] # "idle" /\ n # m
            BY <2>2, <3>2, <4>1 DEF Delivered
          <5>2. fs'[dest[n]] = fs[dest[n]] /\ pc'[n] = pc[n]
            BY SMTT(100), <1>2, <5>1 DEF ArgsSet, Names, AllDests
          <5> QED BY <4>1, <5>2 DEF Delivered
        <4> QED BY <3>2, <4>1
      <3> QED BY <3>1, <3>2 DEF ConservedOf
    <2> QED BY <2>1, <2>2
  <1>9. DestFree'
    <2>1. \A n \in Movers \ {m} : pc[n] # "idle" => fs'[dest[n]] = fs[dest[n]]
      BY SMTT(100), <1>2 DEF ArgsSet, Names, AllDests
    <2> QED BY <2>1 DEF DestFree, Busy
  <1> HIDE DEF BasicInv, MoveTypeOK, Goto, args, temps, env, RenameSame, Exists
  <1> QED BY <1>1, <1>4, <1>5, <1>6, <1>7, <1>8, <1>9

LEMMA FullStash ==
  ASSUME Undisturbed, NEW S \in SUBSET Srcs, KeepInv(S), NEW m \in Movers, Stash(m)
  PROVE  KeepInv(S)'
  <1> USE DEF KeepInv, BasicInv, MoveTypeOK, Goto, args, temps, env, Stash, Exists
  <1>1. BasicInv'
    BY BasicFile
  <1>2. /\ src[m] \in Srcs /\ src[m] \in Names
        /\ \A n \in Movers : pc[n] # "idle" => dest[n] # src[m]
    BY PathsApart
  <1>3. fs[src[m]] = orig[src[m]]
    BY <1>2 DEF SrcsIntact
  <1>4. SrcsIntact'
    BY <1>2 DEF SrcsIntact, Names
  <1>5. Checked'
    BY DEF Checked, Holding
  <1>6. StashIsSource'
    BY <1>3 DEF StashIsSource, Holding, Busy
  <1>a. /\ UNCHANGED <<orig, src, dest, want>> /\ pc'[m] = "mkstemp" /\ pc[m] = "stash"
        /\ \A n \in Movers \ {m} : pc'[n] = pc[n] /\ stmp'[n] = stmp[n]
        /\ stmp'[m] = fs[src[m]] /\ fs[src[m]] # None
    OBVIOUS
  <1>b. /\ \A s \in Srcs : fs'[s] = IF s = src[m] THEN None ELSE fs[s]
        /\ \A n \in Movers : pc[n] # "idle" => fs'[dest[n]] = fs[dest[n]]
    BY SMTT(100), <1>2 DEF ArgsSet, Names, AllDests
  <1>c. /\ Published /\ Exclusive /\ ConservedOf(S) /\ DestFree /\ S \subseteq Srcs
        /\ \A n \in Movers : Took(n) => src[n] \in Srcs
    BY DEF Took, StashIsSource, ArgsSet
  <1> HIDE DEF KeepInv, BasicInv, MoveTypeOK, Goto, args, temps, env, Stash
  <1>7. Published'
    BY SMTT(100), <1>a, <1>b, <1>c DEF Published
  <1>8. Exclusive'
    <2>1. \A n \in Movers \ {m} : (Took(n)' <=> Took(n)) /\ (Took(n) => src[n] # src[m])
      BY SMTT(100), <1>a, <1>c DEF Took, Exclusive
    <2>2. \A n \in Movers : Took(n)' => fs'[src[n]] = None
      BY SMTT(100), <1>2, <1>a, <1>b, <1>c, <2>1 DEF Exclusive
    <2>3. \A n \in Movers : \A k \in Movers \ {n} : Took(n)' /\ Took(k)' => src[k] # src[n]
      BY <1>c, <2>1 DEF Exclusive
    <2> QED BY <1>a, <2>2, <2>3 DEF Exclusive
  <1>9. ConservedOf(S)'
    <2>1. \A n \in Movers : \A c : Delivered(n, c) => Delivered(n, c)'
      BY <1>a, <1>b DEF Delivered
    <2>2. \A n \in Movers, s \in S : stmp[n] = orig[s] /\ src[n] = s /\ orig[s] # None => n # m
      BY SMTT(100), <1>2, <1>a, <1>c DEF Exclusive, Took
    <2>3. ASSUME NEW s \in S, orig[s] # None, NEW n \in Movers, src[n] = s,
                 stmp[n] = orig[s] \/ Delivered(n, orig[s])
          PROVE  stmp'[n] = orig'[s] \/ Delivered(n, orig[s])'
      BY <1>a, <2>1, <2>2, <2>3
    <2>4. ASSUME NEW s \in S, fs[s] = orig[s] PROVE fs'[s] = orig'[s] \/ (src'[m] = s /\ stmp'[m] = orig'[s])
      BY <1>a, <1>b, <1>c, <2>4
    <2> QED BY SMTT(100), <1>a, <1>c, <2>3, <2>4 DEF ConservedOf
  <1>10. DestFree'
    BY SMTT(100), <1>a, <1>b, <1>c DEF DestFree, Busy
  <1> HIDE DEF Exists
  <1> QED BY <1>1, <1>4, <1>5, <1>6, <1>7, <1>8, <1>9, <1>10 DEF KeepInv

LEMMA FullPublish ==
  ASSUME Undisturbed, NEW S \in SUBSET Srcs, KeepInv(S), NEW m \in Movers, Publish(m)
  PROVE  KeepInv(S)'
  <1> USE DEF KeepInv, BasicInv, MoveTypeOK, Goto, args, temps, env, Publish, Exists
  <1>1. BasicInv'
    BY BasicFile
  <1>2. /\ dest[m] \in Names /\ dest[m] \notin Srcs
        /\ \A n \in Movers \ {m} : pc[n] # "idle" => dest[n] # dest[m]
    BY PathsApart
  <1>3. /\ fs' = [fs EXCEPT ![dest[m]] = dtmp[m]]
        /\ dtmp[m] # None /\ Crc[dtmp[m]] = want[m]
    BY DEF Undisturbed, CopyIsGood
  <1>4. \A s \in Srcs : fs'[s] = fs[s]
    BY <1>2, <1>3 DEF Names
  <1>5. \A n \in Movers \ {m} : pc[n] # "idle" => fs'[dest[n]] = fs[dest[n]]
    BY SMTT(100), <1>2, <1>3 DEF ArgsSet, Names, AllDests
  <1>6. \A n \in Movers \ {m} : pc'[n] = pc[n]
    OBVIOUS
  <1>7. SrcsIntact' /\ Checked' /\ StashIsSource'
    BY SMTT(100), <1>4 DEF SrcsIntact, Checked, StashIsSource, Holding, Busy
  <1>a. /\ UNCHANGED <<orig, src, dest, want, stmp>> /\ pc[m] = "publish" /\ pc'[m] = "drop"
        /\ Published /\ ConservedOf(S) /\ S \subseteq Srcs
        /\ fs'[dest[m]] = dtmp[m]
    BY <1>2, <1>3
  <1>8. Published'
    <2> HIDE DEF KeepInv, BasicInv, MoveTypeOK, Goto, args, temps, env, Publish
    <2>1. Exists(dest[m])' /\ Crc[fs'[dest'[m]]] = want'[m]
      BY <1>3, <1>a
    <2>2. \A n \in Movers \ {m} : pc'[n] \in {"drop", "ok"} =>
            Exists(dest[n])' /\ Crc[fs'[dest'[n]]] = want'[n]
      BY SMTT(100), <1>5, <1>6, <1>a DEF Published
    <2> QED BY <2>1, <2>2 DEF Published
  <1>9. Exclusive'
    <2>1. \A n \in Movers : Took(n)' <=> Took(n)
      BY DEF Took
    <2>2. \A n \in Movers : Took(n) => src[n] \in Srcs
      BY DEF Took, StashIsSource, ArgsSet
    <2> QED BY <1>4, <2>1, <2>2 DEF Exclusive
  <1>10. ConservedOf(S)'
    <2> HIDE DEF KeepInv, BasicInv, MoveTypeOK, Goto, args, temps, env, Publish
    <2>1. \A n \in Movers : \A c : Delivered(n, c) => Delivered(n, c)'
      BY <1>5, <1>6, <1>a DEF Delivered
    <2> QED BY <1>4, <1>a, <2>1 DEF ConservedOf
  <1>11. DestFree'
    BY SMTT(100), <1>5, <1>6 DEF DestFree, Busy
  <1> HIDE DEF BasicInv, MoveTypeOK, Goto, args, temps, env, Publish, Exists
  <1> QED BY <1>1, <1>7, <1>8, <1>9, <1>10, <1>11

LEMMA FullDrop ==
  ASSUME NEW S \in SUBSET Srcs, KeepInv(S), NEW m \in Movers, Drop(m)
  PROVE  KeepInv(S)'
  <1> USE DEF KeepInv, BasicInv, MoveTypeOK, Goto, args, temps, env, Drop, Exists
  <1>1. BasicInv'
    BY BasicTemp
  <1>2. SrcsIntact' /\ Checked' /\ StashIsSource'
    BY SMTT(100) DEF SrcsIntact, Checked, StashIsSource, Holding, Busy
  <1>3. Published'
    BY DEF Published
  <1>4. Exclusive'
    <2>1. Took(m)
      BY DEF Took, CopyIsGood, Holding
    <2>2. \A n \in Movers : Took(n)' <=> Took(n)
      BY <2>1 DEF Took
    <2> QED BY <2>2 DEF Exclusive
  <1>5. ConservedOf(S)'
    <2>1. Delivered(m, orig[src[m]])'
      BY DEF Delivered, Published, Checked, Holding
    <2>2. ASSUME NEW n \in Movers \ {m}, NEW c, Delivered(n, c)
          PROVE  Delivered(n, c)'
      BY <2>2 DEF Delivered
    <2> QED BY <2>1, <2>2 DEF ConservedOf
  <1>6. DestFree'
    BY DEF DestFree, Busy
  <1> HIDE DEF BasicInv, MoveTypeOK, Goto, args, temps, env, Drop, Exists
  <1> QED BY <1>1, <1>2, <1>3, <1>4, <1>5, <1>6

LEMMA FullRevert ==
  ASSUME Undisturbed, NEW S \in SUBSET Srcs, KeepInv(S), NEW m \in Movers, Revert(m)
  PROVE  KeepInv(S)'
  <1> USE DEF KeepInv, BasicInv, MoveTypeOK, Goto, args, temps, env, Revert, Exists
  <1>1. BasicInv'
    BY BasicFile
  <1>2. /\ src[m] \in Srcs /\ src[m] \in Names
        /\ \A n \in Movers : pc[n] # "idle" => dest[n] # src[m]
    BY PathsApart
  <1>3. stmp[m] = orig[src[m]] /\ stmp[m] # None
    <2>1. pc[m] = "revert" /\ pc[m] \in Holding
      BY DEF Holding
    <2> QED BY <2>1 DEF CopyIsGood, StashIsSource
  <1>4. SrcsIntact' /\ Checked'
    <2>1. SrcsIntact'
      BY <1>2, <1>3 DEF SrcsIntact, Names
    <2>2. /\ \A n \in Movers \ {m} : pc'[n] = pc[n]
          /\ pc'[m] = exn[m] /\ exn[m] \in {"system", "runtime"}
          /\ UNCHANGED <<orig, src, want>>
      BY DEF CopyIsGood
    <2>3. Checked'
      BY SMTT(100), <2>2 DEF Checked, Holding
    <2> QED BY <2>1, <2>3
  <1>5. StashIsSource'
    <2>1. /\ \A n \in Movers \ {m} : pc'[n] = pc[n] /\ stmp'[n] = stmp[n]
          /\ pc'[m] \in {"system", "runtime"} /\ UNCHANGED <<orig, src>>
          /\ stmp'[m] = None \/ (stmp'[m] = stmp[m] /\ "revert" \in Faults)
          /\ StashIsSource
      BY DEF CopyIsGood
    <2> HIDE DEF KeepInv, BasicInv, MoveTypeOK, Goto, args, temps, env, Revert, Exists
    <2> QED BY SMTT(100), <1>3, <2>1 DEF StashIsSource, Holding, Busy
  <1>6. /\ \A n \in Movers : pc[n] # "idle" => fs'[dest[n]] = fs[dest[n]]
        /\ \A n \in Movers \ {m} : pc'[n] = pc[n]
        /\ pc'[m] \in {"system", "runtime"}
    <2>1. \A n \in Movers : pc[n] # "idle" => dest[n] \in Names
      BY SMTT(100) DEF ArgsSet, Names, AllDests
    <2> QED BY <1>2, <2>1 DEF CopyIsGood
  <1>7. Published'
    BY SMTT(100), <1>6 DEF Published, CopyIsGood
  <1>8. Exclusive'
    <2>1. \A n \in Movers \ {m} : Took(n) => src[n] # src[m] /\ src[n] \in Srcs
      BY <1>3 DEF Exclusive, Took, StashIsSource, ArgsSet
    <2>2. \A n \in Movers \ {m} : Took(n)' <=> Took(n)
      BY DEF Took
    <2>3. Took(m)' => UNCHANGED fs
      BY DEF Took, CopyIsGood
    <2>4. \A s \in Srcs \ {src[m]} : fs'[s] = fs[s]
      BY <1>2 DEF Names
    <2>5. Took(m)
      BY <1>3 DEF Took
    <2> QED BY <2>1, <2>2, <2>3, <2>4, <2>5 DEF Exclusive
  <1>9. ConservedOf(S)'
    <2>1. ASSUME NEW n \in Movers, NEW c, Delivered(n, c)
          PROVE  Delivered(n, c)'
      BY <1>6, <2>1 DEF Delivered
    <2>2. \A s \in Srcs \ {src[m]} : fs'[s] = fs[s]
      BY <1>2 DEF Names
    <2>3. fs'[src[m]] = orig[src[m]] \/ (stmp' = stmp /\ fs' = fs)
      BY <1>2, <1>3
    <2>4. \A n \in Movers \ {m} : stmp'[n] = stmp[n]
      OBVIOUS
    <2> QED BY SMTT(100), <2>1, <2>2, <2>3, <2>4 DEF ConservedOf
  <1>10. DestFree'
    BY SMTT(100), <1>6 DEF DestFree, Busy
  <1> HIDE DEF BasicInv, MoveTypeOK, Goto, args, temps, env, Revert, Exists
  <1> QED BY <1>1, <1>4, <1>5, <1>7, <1>8, <1>9, <1>10

LEMMA KeepStep ==
  ASSUME Undisturbed, NEW S \in SUBSET Srcs, KeepInv(S), [MoveNext]_moveVars
  PROVE  KeepInv(S)'
  <1>1. ASSUME NEW m \in Movers, NEW s \in Srcs, NEW d \in Dests[m],
               NEW w \in Crcs, CallMove(m, s, d, w)
        PROVE  KeepInv(S)'
    BY <1>1, FullCall
  <1>2. ASSUME NEW m \in Movers, MoveStep(m)
        PROVE  KeepInv(S)'
    BY <1>2, StepKinds, FullQuiet, FullRename, FullStash, FullPublish,
       FullRevert, FullTemp, FullDrop
  <1>3. ASSUME NEW n \in Srcs, NEW c \in Contents, Rewrite(n, c)
        PROVE  FALSE
    BY <1>3 DEF Undisturbed, Rewrite
  <1>4. CASE Crash
    BY <1>4, FullCrash
  <1>5. CASE UNCHANGED moveVars
    <2> USE <1>5 DEF moveVars
    <2>1. BasicInv'
      BY DEF KeepInv, BasicInv, MoveTypeOK, ArgsSet, CopyIsGood
    <2>2. (SrcsIntact /\ Checked /\ StashIsSource)'
      BY DEF KeepInv, SrcsIntact, Checked, StashIsSource
    <2>3. (DestFree /\ Published)'
      BY DEF KeepInv, DestFree, Published, Exists
    <2>4. Exclusive'
      BY DEF KeepInv, Exclusive, Took
    <2>5. ConservedOf(S)'
      BY SMTT(100) DEF KeepInv, ConservedOf, Delivered, Exists
    <2> QED BY <2>1, <2>2, <2>3, <2>4, <2>5 DEF KeepInv
  <1> QED BY <1>1, <1>2, <1>3, <1>4, <1>5 DEF MoveNext, MakeTempDirFails

LEMMA FullStep ==
  ASSUME Undisturbed
  PROVE  MoveInv /\ [MoveNext]_moveVars => MoveInv'
  <1>1. MoveInv <=> KeepInv(Srcs)
    BY DEF MoveInv, KeepInv, Conserved, ConservedOf
  <1>2. MoveInv' <=> KeepInv(Srcs)'
    BY DEF MoveInv, KeepInv, Conserved, ConservedOf
  <1> QED BY <1>1, <1>2, KeepStep

\* No interleaving of calls, no fault other than a failing final rename, and no
\* crash between two system calls of move_file loses a file.
THEOREM NothingIsLost == ASSUME Undisturbed PROVE MoveSpec => []Conserved
  <1>1. MoveInv => Conserved
    BY DEF MoveInv
  <1> QED BY FullInit, FullStep, <1>1, PTL DEF MoveSpec

\* Two calls never both return the file of one source.
THEOREM MovedOnce == ASSUME Undisturbed PROVE MoveSpec => []AtMostOneOk
  <1>1. MoveInv => AtMostOneOk
    BY DEF MoveInv, Exclusive, Took, AtMostOneOk
  <1> QED BY FullInit, FullStep, <1>1, PTL DEF MoveSpec

\* A call that returns has put a file with the right checksum in place.
THEOREM ReturnMeansDelivered == ASSUME Undisturbed PROVE MoveSpec => []OkDelivers
  <1>1. MoveInv => OkDelivers
    BY DEF MoveInv, Published, OkDelivers
  <1> QED BY FullInit, FullStep, <1>1, PTL DEF MoveSpec

\* A call that throws leaves the source in place, unless another call has it,
\* provided the rename of the catch block does not fail.
THEOREM ThrowKeepsSource ==
  ASSUME Undisturbed, "revert" \notin Faults
  PROVE  MoveSpec => []FailedMoveKeepsSource
  <1>1. ASSUME MoveInv PROVE FailedMoveKeepsSource
    <2> SUFFICES ASSUME NEW m \in Movers, pc[m] \in {"system", "runtime"},
                        orig[src[m]] # None, fs[src[m]] # orig[src[m]]
                 PROVE  \E n \in Movers \ {m} : src[n] = src[m] /\ Took(n)
      BY DEF FailedMoveKeepsSource
    <2>1. src[m] \in Srcs /\ stmp[m] = None
      BY <1>1 DEF MoveInv, BasicInv, ArgsSet, StashIsSource
    <2>2. PICK n \in Movers : src[n] = src[m] /\
                 (stmp[n] = orig[src[m]] \/ Delivered(n, orig[src[m]]))
      BY <1>1, <2>1 DEF MoveInv, Conserved
    <2>3. n # m /\ Took(n)
      BY <2>1, <2>2 DEF Delivered, Took
    <2> QED BY <2>2, <2>3
  <1>2. MoveInv => FailedMoveKeepsSource
    BY <1>1
  <1> QED BY FullInit, FullStep, <1>2, PTL DEF MoveSpec

\* Only a rename to it changes a destination: from nothing to a file with the
\* checksum the call expects.
LEMMA DestWriters ==
  ASSUME Undisturbed, MoveInv, [MoveNext]_moveVars, NEW d \in AllDests, fs'[d] # fs[d]
  PROVE  fs[d] = None /\ fs'[d] # None
         /\ \E m \in Movers : dest[m] = d /\ Crc[fs'[d]] = want[m]
  <1>a. MoveTypeOK /\ ArgsSet /\ CopyIsGood /\ SrcsIntact /\ Checked /\ DestFree
    BY DEF MoveInv, BasicInv
  <1> USE <1>a DEF MoveTypeOK
  <1>0. d \in Names /\ d \notin Srcs
    BY MoveAssumption DEF Names
  <1>1. ASSUME NEW m \in Movers, NEW s \in Srcs, NEW x \in Dests[m],
               NEW w \in Crcs, CallMove(m, s, x, w)
        PROVE  FALSE
    BY <1>1 DEF CallMove
  <1>2. ASSUME NEW m \in Movers, MoveStep(m)
        PROVE  fs[d] = None /\ fs'[d] # None /\ dest[m] = d /\ Crc[fs'[d]] = want[m]
    <2>1. CASE RenameSame(m)
      <3>1. src[m] \in Srcs /\ fs[dest[m]] = None
        BY <2>1 DEF RenameSame, Goto, ArgsSet, DestFree, Busy
      <3>2. fs[src[m]] = orig[src[m]] /\ want[m] = Crc[orig[src[m]]]
        BY <2>1, <3>1 DEF RenameSame, Goto, Exists, SrcsIntact, Checked
      <3> QED BY <1>0, <2>1, <3>1, <3>2 DEF RenameSame, Exists, Names
    <2>2. CASE Publish(m)
      <3>1. pc[m] = "publish" /\ fs' = [fs EXCEPT ![dest[m]] = dtmp[m]]
        BY <2>2 DEF Publish, Goto
      <3>2. fs[dest[m]] = None /\ dtmp[m] # None /\ Crc[dtmp[m]] = want[m]
        BY <3>1 DEF CopyIsGood, DestFree, Busy
      <3> QED BY <1>0, <3>1, <3>2
    <2>3. CASE Stash(m) \/ Revert(m)
      <3>1. src[m] \in Srcs
        BY <2>3 DEF Stash, Revert, Goto, ArgsSet
      <3> QED BY <1>0, <2>3, <3>1 DEF Stash, Revert
    <2>5. CASE QuietStep(m)
      BY <2>5 DEF QuietStep, CheckDest, Precheck, RenameFails, RenameCrossDevice,
                  NoSpace, StashFails, Verify
    <2>6. CASE \/ MakeTempDir(m) \/ MakeTemp(m) \/ MakeTempFails(m) \/ OpenFails(m)
               \/ Copy(m) \/ VerifyFails(m) \/ Drop(m)
      BY <2>6 DEF MakeTempDir, MakeTemp, MakeTempFails, OpenFails, Copy,
                  VerifyFails, Drop, Throw
    <2> QED BY <1>2, StepKinds, <2>1, <2>2, <2>3, <2>5, <2>6
  <1>3. ASSUME NEW n \in Srcs, NEW c \in Contents, Rewrite(n, c)
        PROVE  FALSE
    BY <1>3 DEF Undisturbed, Rewrite
  <1>4. CASE Crash \/ UNCHANGED moveVars
    BY <1>4 DEF Crash, moveVars
  <1> QED BY <1>1, <1>2, <1>3, <1>4 DEF MoveNext, MakeTempDirFails

\* With private destinations the existence check is as good as an atomic one.
THEOREM ChecksSuffice == ASSUME Undisturbed PROVE MoveSpec => NeverOverwrites
  <1>1. MoveInv /\ [MoveNext]_moveVars =>
          [\A d \in AllDests : fs[d] # None => fs'[d] = fs[d]]_moveVars
    BY DestWriters
  <1> QED BY FullInit, FullStep, <1>1, PTL DEF MoveSpec, NeverOverwrites

\* A file appears at a destination complete, with the checksum asked for, by
\* either path through move_file.
THEOREM DestsAreVerified == ASSUME Undisturbed PROVE MoveSpec => DestVerified
  <1>1. MoveInv /\ [MoveNext]_moveVars =>
          [\A d \in AllDests : fs'[d] # fs[d] =>
             /\ fs'[d] # None
             /\ \E m \in Movers : dest[m] = d /\ Crc[fs'[d]] = want[m]]_moveVars
    BY DestWriters
  <1> QED BY FullInit, FullStep, <1>1, PTL DEF MoveSpec, DestVerified
=============================================================================
