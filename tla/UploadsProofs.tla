---------------------------- MODULE UploadsProofs ----------------------------
(***************************************************************************)
(* Proofs about Uploads, for any number of requests to retrieve and to     *)
(* query, any uploads and meta files, any faults but a failing final       *)
(* rename, and any crashes, as long as clients of retrieve_file name       *)
(* destinations of their own.                                              *)
(***************************************************************************)
EXTENDS Uploads, MoveFileProofs

\* Most leaves are set and function reasoning about a whole state, where Zenon is
\* the quicker prover; the ones about numbers name SMT.
USE ZenonT(100)

\* The types the argument needs.
HandlerTypes ==
  /\ record \in [Uploads -> Crcs \cup {Garbled}]
  /\ dead \in [Uploads -> Contents \cup {None}]
  /\ g \in [Procs -> {"idle", "killed"} \cup Working \cup Answers]
  /\ id \in [Procs -> Uploads \cup {None}]
  /\ save \in [Procs -> AllDests \cup {None}]

\* The requests to retrieve and to query are different requests, an upload is
\* not taken for none, nor a checksum for metadata that cannot be parsed.
Distinguished == Movers \cap Queries = {} /\ None \notin Uploads /\ Garbled \notin Crcs

\* What a handler works on is known once it has looked for the meta file.
IdKnown ==
  /\ \A p \in Procs : g[p] \in {"endeaden", "info"} => id[p] \in Uploads
  /\ \A m \in Movers : g[m] \in Working => id[m] \in Uploads /\ save[m] \in Dests[m]
  /\ \A m \in Movers : g[m] = "idle" => id[m] = None

\* Where retrieve_file is, move_file is: not called before "move", in progress
\* only there, and returned normally after it.
InMove ==
  \A m \in Movers :
    /\ g[m] \in {"idle", "access", "read"} => pc[m] = "idle"
    /\ pc[m] \in Busy => g[m] = "move"
    /\ g[m] \in {"unlink", "ok"} => pc[m] = "ok"

\* move_file works on the upload the request names.
MovesIt ==
  \A m \in Movers :
    /\ pc[m] # "idle" => src[m] = id[m] /\ dest[m] = save[m] /\ want[m] = record[id[m]]
    /\ exn[m] # "none" => pc[m] # "idle"

\* Only metadata that could be parsed is cached.
CacheParsed == cached \subseteq Uploads /\ \A i \in cached : record[i] # Garbled

\* The inductive invariant: that of move_file but for the conservation of its
\* sources, which endeaden takes away, and the link of handlers to calls.
LinkInv == HandlerTypes /\ IdKnown /\ InMove /\ MovesIt /\ CacheParsed
UploadInv == KeepInv({}) /\ LinkInv /\ UploadConserved

\* Without the demand of conservation.
LEMMA NoneKept ==
  /\ MoveInv => KeepInv({})
  /\ \A S \in SUBSET Srcs : KeepInv(S) <=> KeepInv({}) /\ ConservedOf(S)
  BY DEF MoveInv, KeepInv, ConservedOf

LEMMA NoneKeptNext ==
  \A S \in SUBSET Srcs : KeepInv(S)' <=> KeepInv({})' /\ ConservedOf(S)'
  BY DEF KeepInv, ConservedOf

LEMMA UploadStart == UploadInit => UploadInv
  <1> SUFFICES ASSUME UploadInit PROVE UploadInv
    OBVIOUS
  <1>1. MoveInv
    BY FullInit DEF UploadInit
  <1>2. HandlerTypes
    BY DEF UploadInit, HandlerTypes
  <1>3. IdKnown /\ MovesIt /\ CacheParsed
    BY DEF UploadInit, MoveInit, IdKnown, MovesIt, CacheParsed, Working, Procs
  <1>4. InMove
    BY DEF UploadInit, MoveInit, InMove, Busy, Procs
  <1>5. UploadConserved
    BY <1>1 DEF MoveInv, Conserved, UploadConserved, Uploads
  <1> QED BY <1>1, <1>2, <1>3, <1>4, <1>5, NoneKept DEF UploadInv, LinkInv

-----------------------------------------------------------------------------
\* A step of move_file, or none, while nothing is endeadened.
LEMMA MoveKeeps ==
  ASSUME Undisturbed, KeepInv({}), UploadConserved,
         [MoveNext]_moveVars, UNCHANGED dead
  PROVE  KeepInv({})' /\ UploadConserved'
  <1>1. KeepInv({})'
    BY KeepStep
  <1>2. orig' = orig
    BY DEF MoveNext, CallMove, MoveStep, CheckDest, Precheck, RenameSame, RenameFails,
           RenameCrossDevice, NoSpace, MakeTempDir, Stash, StashFails, MakeTemp,
           MakeTempFails, OpenFails, Copy, Verify, VerifyFails, Publish, Drop, Revert,
           Throw, MakeTempDirFails, Crash, Rewrite, moveVars, env
  <1>3. ASSUME NEW i \in Uploads, ConservedOf({i}) PROVE ConservedOf({i})'
    <2>1. {i} \in SUBSET Srcs
      BY <1>3 DEF Uploads
    <2>2. KeepInv({i})
      BY <1>3, <2>1, NoneKept
    <2>3. KeepInv({i})'
      BY <2>1, <2>2, KeepStep
    <2> QED BY <2>1, <2>3, NoneKeptNext
  <1>4. UploadConserved <=>
          \A i \in Uploads : orig[i] # None /\ dead[i] # orig[i] => ConservedOf({i})
    BY DEF UploadConserved, ConservedOf
  <1>5. UploadConserved' <=>
          \A i \in Uploads : (orig[i] # None /\ dead[i] # orig[i] => ConservedOf({i}))'
    BY DEF UploadConserved, ConservedOf
  <1> QED BY <1>1, <1>2, <1>3, <1>4, <1>5

\* endeaden takes a source away: what a call has of it is not affected, and the
\* file it takes is the one that came.
LEMMA EndeadenKeeps ==
  ASSUME UploadInv, NEW p \in Procs, EndeadenStep(p)
  PROVE  KeepInv({})' /\ UploadConserved'
  <1> DEFINE i == id[p]
  <1>0. /\ UNCHANGED <<orig, rewritten, pc, src, dest, want, stmp, sdir, dtmp, exn>>
        /\ \/ UNCHANGED <<fs, dead>>
           \/ /\ dead' = [dead EXCEPT ![i] = IF Exists(i) THEN fs[i] ELSE @]
              /\ fs' = [fs EXCEPT ![i] = None]
    BY DEF EndeadenStep, env, args, temps
  <1>1. /\ MoveTypeOK /\ ArgsSet /\ CopyIsGood /\ SrcsIntact /\ Checked /\ StashIsSource
        /\ DestFree /\ Published /\ Exclusive /\ UploadConserved
    BY DEF UploadInv, KeepInv, BasicInv
  <1>2. i \in Srcs /\ i \in Names /\ i \in Uploads
    BY DEF UploadInv, LinkInv, IdKnown, EndeadenStep, Uploads, Names
  <1>3. /\ fs' \in [Names -> Contents \cup {None}]
        /\ \A n \in Names : fs'[n] = fs[n] \/ (n = i /\ fs'[n] = None)
    BY <1>0, <1>1, <1>2 DEF MoveTypeOK
  <1>4. \A m \in Movers : pc[m] # "idle" =>
          dest[m] \in Names /\ src[m] \in Names /\ fs'[dest[m]] = fs[dest[m]]
    <2>1. \A m \in Movers : pc[m] # "idle" => dest[m] \in AllDests /\ src[m] \in Srcs
      BY <1>1 DEF ArgsSet, AllDests
    <2> QED BY <1>2, <1>3, <2>1, MoveAssumption DEF Names
  <1> HIDE DEF i
  <1>5. BasicInv'
    BY <1>0, <1>1, <1>3 DEF BasicInv, MoveTypeOK, ArgsSet, CopyIsGood
  <1>6. SrcsIntact' /\ Checked' /\ StashIsSource'
    BY <1>0, <1>1, <1>3 DEF SrcsIntact, Checked, StashIsSource, Names
  <1>7. DestFree' /\ Published'
    BY <1>0, <1>1, <1>4 DEF DestFree, Published, Exists, Busy
  <1>8. Exclusive'
    <2>1. \A m \in Movers : (Took(m)' <=> Took(m)) /\ (Took(m) => pc[m] # "idle")
      BY <1>0, <1>1 DEF Took, StashIsSource
    <2> QED BY <1>0, <1>1, <1>3, <1>4, <2>1 DEF Exclusive
  <1>9. KeepInv({})'
    BY <1>5, <1>6, <1>7, <1>8 DEF KeepInv, ConservedOf
  <1>10. UploadConserved'
    <2> SUFFICES ASSUME NEW j \in Uploads, orig[j] # None
                 PROVE  \/ fs'[j] = orig[j] \/ dead'[j] = orig[j]
                        \/ \E m \in Movers : src[m] = j /\
                             (stmp[m] = orig[j] \/ Delivered(m, orig[j])')
      BY <1>0 DEF UploadConserved
    <2>0. j \in Names /\ j \in Srcs
      BY DEF Uploads, Names
    <2>1. \A m \in Movers : Delivered(m, orig[j]) => Delivered(m, orig[j])'
      BY <1>0, <1>4 DEF Delivered, Exists
    <2>2. CASE \E m \in Movers : src[m] = j /\ (stmp[m] = orig[j] \/ Delivered(m, orig[j]))
      BY <2>1, <2>2
    <2>3. CASE fs[j] = orig[j]
      <3>1. fs'[j] = fs[j] \/ dead'[j] = fs[j]
        BY <1>0, <1>1, <1>2, <2>0, <2>3 DEF MoveTypeOK, Exists, UploadInv, LinkInv, HandlerTypes
      <3> QED BY <2>3, <3>1
    <2>4. CASE dead[j] = orig[j]
      <3>1. dead'[j] = dead[j] \/ (j = i /\ Exists(i) /\ dead'[j] = fs[i])
        BY <1>0, <1>2 DEF UploadInv, LinkInv, HandlerTypes
      <3>2. j = i /\ Exists(i) => fs[i] = orig[j]
        BY <1>1, <2>0 DEF SrcsIntact, Exists
      <3> QED BY <2>4, <3>1, <3>2
    <2> QED BY <1>1, <2>2, <2>3, <2>4 DEF UploadConserved
  <1> QED BY <1>9, <1>10

-----------------------------------------------------------------------------
\* The steps of the handlers alone: no data file is touched.
RetrieveQuiet(m) ==
  \/ \E i \in Uploads, d \in Dests[m] : Retrieve(m, i, d)
  \/ RetrieveRefused(m) \/ CheckMeta(m) \/ RetrieveCannotRead(m) \/ MoveReturns(m)
  \/ UnlinkMeta(m) \/ MoveSystemError(m) \/ MoveRuntimeError(m)
QueryQuiet(q) ==
  \/ List(q) \/ QueryFinds(q) \/ QueryRejects(q) \/ QueryAnswers(q)
  \/ \E i \in Uploads : QueryReads(q, i) \/ QueryCannotRead(q, i)

LEMMA UploadKinds ==
  ASSUME UploadNext
  PROVE  \/ \E m \in Movers : RetrieveQuiet(m) \/ RetrieveReads(m) \/ MoveData(m)
         \/ \E q \in Queries : QueryQuiet(q)
         \/ \E p \in Procs : EndeadenStep(p)
         \/ \E i \in Uploads : Deliver(i)
         \/ Expire \/ Die
  BY DEF UploadNext, RetrieveStep, QueryStep, RetrieveQuiet, QueryQuiet, Procs

LEMMA LinkRetrieve ==
  ASSUME Distinguished, LinkInv, NEW m \in Movers, RetrieveQuiet(m)
  PROVE  LinkInv'
  <1> USE DEF LinkInv, HandlerTypes, Procs, Handle, moveVars, pairVars, cacheVars, queryVars
  <1>1. ASSUME NEW i \in Uploads, NEW d \in Dests[m], Retrieve(m, i, d) PROVE LinkInv'
    <2> USE <1>1 DEF Retrieve
    <2>0. d \in AllDests
      BY DEF AllDests
    <2>1. HandlerTypes'
      BY <2>0 DEF Working
    <2>2. IdKnown'
      BY DEF IdKnown, Working
    <2>3. InMove' /\ MovesIt' /\ CacheParsed'
      BY DEF InMove, MovesIt, CacheParsed, Busy
    <2> QED BY <2>1, <2>2, <2>3
  <1>2. CASE \/ RetrieveRefused(m) \/ CheckMeta(m) \/ RetrieveCannotRead(m) \/ MoveReturns(m)
             \/ UnlinkMeta(m) \/ MoveSystemError(m) \/ MoveRuntimeError(m)
    <2>0. /\ UNCHANGED <<moveVars, record, dead, cached, id, save>>
          /\ \/ Handle(m, "idle", "bad") \/ Handle(m, "access", "bad") \/ Handle(m, "access", "read")
             \/ Handle(m, "read", "endeaden") \/ (pc[m] = "ok" /\ Handle(m, "move", "unlink"))
             \/ Handle(m, "unlink", "ok")
             \/ (pc[m] = "system" /\ Handle(m, "move", "system"))
             \/ (pc[m] = "runtime" /\ Handle(m, "move", "endeaden"))
      BY <1>2 DEF RetrieveRefused, CheckMeta, RetrieveCannotRead, MoveReturns, UnlinkMeta,
                  MoveSystemError, MoveRuntimeError, Endeaden
    <2> USE <2>0
    <2>1. HandlerTypes'
      BY DEF Working, Answers
    <2>2. IdKnown'
      BY DEF IdKnown, Working
    <2>3. InMove'
      BY SMTT(100) DEF InMove, Busy
    <2>4. MovesIt' /\ CacheParsed'
      BY DEF MovesIt, CacheParsed
    <2> QED BY <2>1, <2>2, <2>3, <2>4
  <1> QED BY <1>1, <1>2 DEF RetrieveQuiet

LEMMA LinkQuery ==
  ASSUME Distinguished, LinkInv, NEW q \in Queries, QueryQuiet(q)
  PROVE  LinkInv'
  <1> USE DEF LinkInv, HandlerTypes, Procs, Handle, moveVars, pairVars, cacheVars, queryVars
  <1>0. q \notin Movers
    BY DEF Distinguished
  <1>1. ASSUME NEW i \in Uploads, QueryReads(q, i) \/ QueryCannotRead(q, i) PROVE LinkInv'
    <2> USE <1>1 DEF QueryReads, QueryCannotRead, Endeaden
    <2>1. HandlerTypes'
      BY DEF Working
    <2>2. IdKnown'
      BY <1>0 DEF IdKnown, Working
    <2>3. InMove'
      BY <1>0 DEF InMove
    <2>4. MovesIt'
      BY <1>0 DEF MovesIt
    <2>5. CacheParsed'
      BY DEF CacheParsed, Readable
    <2> QED BY <2>1, <2>2, <2>3, <2>4, <2>5
  <1>2. CASE List(q) \/ QueryFinds(q) \/ QueryRejects(q) \/ QueryAnswers(q)
    <2>0. /\ UNCHANGED <<moveVars, record, dead, cached, id, save>>
          /\ \/ Handle(q, "idle", "next") \/ Handle(q, "info", "next")
             \/ Handle(q, "info", "endeaden") \/ Handle(q, "next", "ok")
      BY <1>2 DEF List, QueryFinds, QueryRejects, QueryAnswers, Endeaden
    <2> USE <2>0
    <2>1. HandlerTypes'
      BY DEF Working, Answers
    <2>2. IdKnown'
      BY <1>0 DEF IdKnown, Working
    <2>3. InMove' /\ MovesIt' /\ CacheParsed'
      BY SMTT(100), <1>0 DEF InMove, MovesIt, CacheParsed
    <2> QED BY <2>1, <2>2, <2>3
  <1> QED BY <1>1, <1>2 DEF QueryQuiet

\* What a step of move_file leaves alone.
LEMMA MoveFrame ==
  ASSUME BasicInv, NEW m \in Movers, MoveStep(m)
  PROVE  /\ UNCHANGED <<orig, src, dest, want>>
         /\ pc[m] \in Busy /\ pc'[m] # "idle"
         /\ \A n \in Movers \ {m} : pc'[n] = pc[n] /\ exn'[n] = exn[n]
         /\ exn'[m] = exn[m] \/ exn'[m] # "none"
  <1> USE DEF BasicInv, MoveTypeOK, Goto, args, temps, env, Busy
  <1>1. CASE QuietStep(m)
    BY <1>1 DEF QuietStep, CheckDest, Precheck, RenameFails, RenameCrossDevice, NoSpace,
                StashFails, Verify
  <1>2. CASE RenameSame(m) \/ Stash(m) \/ Publish(m) \/ MakeTempDir(m) \/ MakeTemp(m)
             \/ Copy(m) \/ Drop(m)
    BY <1>2 DEF RenameSame, Stash, Publish, MakeTempDir, MakeTemp, Copy, Drop
  <1>3. CASE MakeTempFails(m) \/ OpenFails(m) \/ VerifyFails(m)
    BY <1>3 DEF MakeTempFails, OpenFails, VerifyFails, Throw
  <1>4. CASE Revert(m)
    BY <1>4 DEF Revert
  <1> QED BY <1>1, <1>2, <1>3, <1>4, StepKinds

LEMMA LinkMove ==
  ASSUME Distinguished, BasicInv, LinkInv, NEW m \in Movers, RetrieveReads(m) \/ MoveData(m)
  PROVE  LinkInv'
  <1> USE DEF LinkInv, HandlerTypes, Procs, Handle, moveVars, pairVars, cacheVars, queryVars
  <1>1. CASE RetrieveReads(m)
    <2> USE <1>1 DEF RetrieveReads, CallMove, Goto, temps, env
    <2>1. HandlerTypes' /\ IdKnown'
      BY DEF Working, IdKnown
    <2>2. InMove'
      BY DEF InMove, Busy, BasicInv, MoveTypeOK
    <2>3. MovesIt'
      BY DEF MovesIt, BasicInv, MoveTypeOK
    <2>4. CacheParsed'
      BY DEF CacheParsed, Readable, IdKnown, Working
    <2> QED BY <2>1, <2>2, <2>3, <2>4
  <1>2. CASE MoveData(m)
    <2> USE <1>2 DEF MoveData, procVars
    <2>0. /\ UNCHANGED <<src, dest, want>> /\ g[m] = "move"
          /\ pc[m] \in Busy /\ pc'[m] # "idle"
          /\ \A n \in Movers \ {m} : pc'[n] = pc[n] /\ exn'[n] = exn[n]
      BY MoveFrame DEF InMove
    <2>1. HandlerTypes' /\ IdKnown' /\ CacheParsed'
      BY DEF Working, IdKnown, CacheParsed
    <2>2. InMove'
      BY <2>0 DEF InMove, Busy
    <2>3. MovesIt'
      BY <2>0 DEF MovesIt, Busy
    <2> QED BY <2>1, <2>2, <2>3
  <1> QED BY <1>1, <1>2

LEMMA LinkOthers ==
  ASSUME Distinguished, BasicInv, LinkInv,
         \/ \E p \in Procs : EndeadenStep(p)
         \/ \E i \in Uploads : Deliver(i)
         \/ Expire \/ Die \/ UNCHANGED uploadVars
  PROVE  LinkInv'
  <1> USE DEF LinkInv, HandlerTypes, Procs, moveVars, pairVars, cacheVars, procVars, queryVars,
              args, temps, env
  <1>1. ASSUME NEW p \in Procs, EndeadenStep(p) PROVE LinkInv'
    <2>0. /\ UNCHANGED <<pc, src, dest, want, exn, record, cached, id, save>>
          /\ dead' = dead \/ dead' = [dead EXCEPT ![id[p]] = IF Exists(id[p]) THEN fs[id[p]] ELSE @]
          /\ g[p] = "endeaden" /\ id[p] \in Uploads
          /\ \/ g' = g \/ (p \in Queries /\ g' = [g EXCEPT ![p] = "next"])
             \/ (p \in Movers /\ g' = [g EXCEPT ![p] = "bad"])
      BY <1>1 DEF EndeadenStep, IdKnown
    <2>1. fs[id[p]] \in Contents \cup {None}
      BY <2>0 DEF BasicInv, MoveTypeOK, Uploads, Names
    <2>2. HandlerTypes'
      BY <2>0, <2>1 DEF Working, Answers, Exists
    <2>3. IdKnown'
      BY <2>0 DEF IdKnown, Working, Distinguished
    <2>4. InMove' /\ MovesIt' /\ CacheParsed'
      BY SMTT(100), <2>0 DEF InMove, MovesIt, CacheParsed, Distinguished
    <2> QED BY <2>2, <2>3, <2>4
  <1>2. CASE (\E i \in Uploads : Deliver(i)) \/ Expire \/ UNCHANGED uploadVars
    <2>0. UNCHANGED <<moveVars, record, dead, g, id, save>> /\ cached' \subseteq cached
      BY <1>2 DEF Deliver, Expire, uploadVars
    <2> QED BY <2>0 DEF IdKnown, InMove, MovesIt, CacheParsed
  <1>3. CASE Die
    <2> USE <1>3 DEF Die
    <2>1. HandlerTypes' /\ IdKnown' /\ CacheParsed'
      BY DEF IdKnown, Working, CacheParsed
    <2>2. InMove'
      BY DEF InMove, Busy, Working
    <2>3. MovesIt'
      BY DEF MovesIt, Busy
    <2> QED BY <2>1, <2>2, <2>3
  <1> QED BY <1>1, <1>2, <1>3

\* Every step that endeadens nothing is one of move_file, or none.
LEMMA UploadMoves ==
  ASSUME UploadInv, [UploadNext]_uploadVars, \A p \in Procs : ~EndeadenStep(p)
  PROVE  [MoveNext]_moveVars /\ UNCHANGED dead
  <1> USE DEF pairVars
  <1>1. ASSUME NEW m \in Movers, RetrieveReads(m) PROVE MoveNext
    <2>1. id[m] \in Srcs /\ save[m] \in Dests[m] /\ record[id[m]] \in Crcs
      BY <1>1 DEF UploadInv, LinkInv, IdKnown, HandlerTypes, CacheParsed, RetrieveReads,
                  Handle, Working, Readable, Uploads
    <2> QED BY <1>1, <2>1 DEF RetrieveReads, MoveNext
  <1>2. ASSUME NEW m \in Movers, MoveData(m) PROVE MoveNext
    BY <1>2 DEF MoveData, MoveNext
  <1>3. CASE Die
    <2>1. CASE \E m \in Movers : pc[m] \in Busy
      BY <1>3, <2>1 DEF Die, Crash, MoveNext
    <2>2. CASE \A m \in Movers : pc[m] \notin Busy
      <3>1. pc' = [m \in Movers |-> pc[m]]
        BY <1>3, <2>2 DEF Die
      <3>2. pc' = pc
        BY <3>1 DEF UploadInv, KeepInv, BasicInv, MoveTypeOK
      <3> QED BY <1>3, <3>2 DEF Die, moveVars, env, args, temps
    <2> QED BY <1>3, <2>1, <2>2 DEF Die
  <1>4. ASSUME NEW m \in Movers, RetrieveQuiet(m) PROVE UNCHANGED <<moveVars, dead>>
    BY <1>4 DEF RetrieveQuiet, Retrieve, RetrieveRefused, CheckMeta, RetrieveCannotRead,
                MoveReturns, UnlinkMeta, MoveSystemError, MoveRuntimeError
  <1>5. ASSUME NEW q \in Queries, QueryQuiet(q) PROVE UNCHANGED <<moveVars, dead>>
    BY <1>5 DEF QueryQuiet, List, QueryReads, QueryCannotRead, QueryFinds, QueryRejects,
                QueryAnswers
  <1>6. CASE (\E i \in Uploads : Deliver(i)) \/ Expire \/ UNCHANGED uploadVars
    BY <1>6 DEF Deliver, Expire, uploadVars
  <1>7. ASSUME NEW m \in Movers, RetrieveReads(m) \/ MoveData(m) PROVE UNCHANGED dead
    BY <1>7 DEF RetrieveReads, MoveData
  <1>8. Die => UNCHANGED dead
    BY DEF Die
  <1> QED BY <1>1, <1>2, <1>3, <1>4, <1>5, <1>6, <1>7, <1>8, UploadKinds

LEMMA UploadStep ==
  ASSUME Undisturbed, Distinguished, UploadInv, [UploadNext]_uploadVars
  PROVE  UploadInv'
  <1>1. BasicInv /\ LinkInv
    BY DEF UploadInv, KeepInv
  <1>2. LinkInv'
    BY <1>1, UploadKinds, LinkRetrieve, LinkQuery, LinkMove, LinkOthers
  <1>3. KeepInv({})' /\ UploadConserved'
    BY UploadMoves, MoveKeeps, EndeadenKeeps DEF UploadInv
  <1> QED BY <1>2, <1>3 DEF UploadInv

\* No upload is lost, whatever requests to retrieve and to query compete for it,
\* whichever of them endeadens it, and wherever the process dies.
THEOREM NoUploadIsLost ==
  ASSUME Undisturbed, Distinguished
  PROVE  UploadSpec => []UploadConserved
  <1>1. UploadInv => UploadConserved
    BY DEF UploadInv
  <1> QED BY UploadStart, UploadStep, <1>1, PTL DEF UploadSpec

\* An upload is given to one application only, with the content its metadata
\* describes.
THEOREM UploadsGoOnce ==
  ASSUME Undisturbed, Distinguished
  PROVE  UploadSpec => []RetrievedOnce
  <1>1. ASSUME UploadInv PROVE RetrievedOnce
    <2> SUFFICES ASSUME NEW m \in Movers, g[m] = "ok"
                 PROVE  /\ Exists(save[m]) /\ Crc[fs[save[m]]] = record[id[m]]
                        /\ \A n \in Movers \ {m} : g[n] = "ok" => id[n] # id[m]
      BY DEF RetrievedOnce
    <2>1. \A n \in Movers : g[n] = "ok" =>
            pc[n] = "ok" /\ src[n] = id[n] /\ dest[n] = save[n] /\ want[n] = record[id[n]]
      BY <1>1 DEF UploadInv, LinkInv, InMove, MovesIt
    <2>2. Exists(dest[m]) /\ Crc[fs[dest[m]]] = want[m]
      BY <1>1, <2>1 DEF UploadInv, KeepInv, Published
    <2>3. \A n \in Movers \ {m} : pc[n] = "ok" => src[n] # src[m]
      BY <1>1, <2>1 DEF UploadInv, KeepInv, Exclusive, Took
    <2> QED BY <2>1, <2>2, <2>3
  <1>2. UploadInv => RetrievedOnce
    BY <1>1
  <1> QED BY UploadStart, UploadStep, <1>2, PTL DEF UploadSpec

-----------------------------------------------------------------------------
(***************************************************************************)
(* A sound upload is endeadened only after a call has put it back.         *)
(***************************************************************************)
\* Somebody has the data file, or has put it back.
Away(i) == fs[i] = None \/ \E m \in Movers : id[m] = i /\ exn[m] # "none"

\* Something is wrong with upload i, or seems to be.
Doubted(i) ==
  \/ meta[i] \in {"gone", "dead"}
  \/ \E p \in Procs : g[p] = "endeaden" /\ id[p] = i
  \/ \E m \in Movers : pc[m] = "runtime" /\ src[m] = i

\* What handlers look for was there when they listed it or looked for it.
MetaSeen ==
  /\ meta \in [Uploads -> {"coming", "there", "gone", "dead"}]
  /\ todo \in [Queries -> SUBSET Uploads]
  /\ \A m \in Movers : g[m] = "read" => meta[id[m]] # "coming"
  /\ \A q \in Queries : \A i \in todo[q] : meta[i] # "coming"
  /\ listing # NoListing => listing \subseteq Uploads /\ \A i \in listing : meta[i] # "coming"

DoubtedAreAway == \A i \in Uploads : Sound(i) /\ Doubted(i) => Away(i)

SoundInv == MetaSeen /\ DoubtedAreAway /\ SoundStays

LEMMA SoundStart == UploadInit => SoundInv
  <1> SUFFICES ASSUME UploadInit PROVE SoundInv
    OBVIOUS
  <1>1. MetaSeen
    BY DEF UploadInit, MetaSeen, Procs
  <1>2. DoubtedAreAway /\ SoundStays
    BY DEF UploadInit, MoveInit, DoubtedAreAway, Doubted, SoundStays, Procs
  <1> QED BY <1>1, <1>2 DEF SoundInv

\* Which request is for which upload, that a call has failed, and that the data
\* file is away, stays so.
LEMMA AwayStays ==
  ASSUME Distinguished, UploadInv, [UploadNext]_uploadVars
  PROVE  /\ UNCHANGED <<record, orig>>
         /\ \A m \in Movers : id[m] # None => id'[m] = id[m]
         /\ \A m \in Movers : exn[m] # "none" => exn'[m] # "none" /\ id[m] \in Uploads
         /\ \A i \in Uploads : Away(i) => Away(i)'
  <1> USE DEF pairVars
  <1>0. BasicInv /\ LinkInv
    BY DEF UploadInv, KeepInv
  <1>1. \A m \in Movers : exn[m] # "none" => id[m] \in Uploads /\ src[m] = id[m]
    BY <1>0 DEF LinkInv, MovesIt, BasicInv, ArgsSet, Uploads
  <1>2. \A m \in Movers : id[m] # None => id'[m] = id[m]
    <2> USE <1>0 DEF LinkInv, IdKnown, HandlerTypes, Handle, Procs
    <2>1. ASSUME NEW m \in Movers, NEW i \in Uploads, NEW d \in Dests[m], Retrieve(m, i, d)
          PROVE  \A n \in Movers : id[n] # None => id'[n] = id[n]
      BY <2>1 DEF Retrieve
    <2>2. ASSUME NEW q \in Queries, NEW i \in Uploads, QueryReads(q, i) \/ QueryCannotRead(q, i)
          PROVE  \A n \in Movers : id'[n] = id[n]
      BY <2>2 DEF QueryReads, QueryCannotRead, Distinguished, Procs
    <2>3. ASSUME NEW m \in Movers,
                 \/ RetrieveRefused(m) \/ CheckMeta(m) \/ RetrieveCannotRead(m) \/ MoveReturns(m)
                 \/ UnlinkMeta(m) \/ MoveSystemError(m) \/ MoveRuntimeError(m)
                 \/ RetrieveReads(m) \/ MoveData(m)
          PROVE  UNCHANGED id
      BY <2>3 DEF RetrieveRefused, CheckMeta, RetrieveCannotRead, MoveReturns, UnlinkMeta,
                  MoveSystemError, MoveRuntimeError, RetrieveReads, MoveData, procVars
    <2>4. ASSUME NEW q \in Queries,
                 List(q) \/ QueryFinds(q) \/ QueryRejects(q) \/ QueryAnswers(q)
          PROVE  UNCHANGED id
      BY <2>4 DEF List, QueryFinds, QueryRejects, QueryAnswers
    <2>5. ASSUME \/ \E p \in Procs : EndeadenStep(p)
                 \/ \E i \in Uploads : Deliver(i)
                 \/ Expire \/ Die \/ UNCHANGED uploadVars
          PROVE  UNCHANGED id
      BY <2>5 DEF EndeadenStep, Deliver, Expire, Die, uploadVars, procVars
    <2> QED BY <2>1, <2>2, <2>3, <2>4, <2>5, UploadKinds DEF RetrieveQuiet, QueryQuiet
  <1>3. UNCHANGED record
    BY UploadKinds DEF RetrieveQuiet, Retrieve, RetrieveRefused, CheckMeta, RetrieveCannotRead,
       MoveReturns, UnlinkMeta, MoveSystemError, MoveRuntimeError, QueryQuiet, List, QueryReads,
       QueryCannotRead, QueryFinds, QueryRejects, QueryAnswers, RetrieveReads, MoveData,
       EndeadenStep, Deliver, Expire, Die, uploadVars
  <1>4. ASSUME NEW m \in Movers, MoveData(m)
        PROVE  /\ UNCHANGED orig
               /\ \A n \in Movers : exn[n] # "none" => exn'[n] # "none"
               /\ \A i \in Uploads : fs[i] = None => fs'[i] = None \/ Away(i)'
    <2>1. /\ UNCHANGED orig
          /\ \A n \in Movers : exn[n] # "none" => exn'[n] # "none"
      BY <1>0, <1>4, MoveFrame DEF MoveData
    <2>2. ASSUME NEW i \in Uploads, fs[i] = None, fs'[i] # None PROVE Away(i)'
      <3> USE DEF BasicInv, MoveTypeOK, Uploads, Names
      <3>0. dest[m] \notin Srcs /\ src[m] \in Srcs
        BY SMTT(100), <1>0, <1>4, MoveFrame, MoveAssumption DEF MoveData, ArgsSet, AllDests, Busy
      <3>1. Revert(m)
        BY <1>0, <1>4, <2>2, <3>0, StepKinds
           DEF MoveData, QuietStep, CheckDest, Precheck, RenameFails, RenameCrossDevice, NoSpace,
               StashFails, Verify, RenameSame, Stash, Publish, MakeTempDir, MakeTemp,
               MakeTempFails, OpenFails, Copy, VerifyFails, Drop, Throw
      <3>2. src[m] = i /\ exn'[m] # "none"
        BY <1>0, <2>2, <3>1 DEF Revert, CopyIsGood, Goto
      <3>3. id'[m] = i
        BY <1>0, <1>4, <3>1, <3>2 DEF MoveData, procVars, LinkInv, MovesIt, Revert, Goto
      <3> QED BY <3>2, <3>3 DEF Away
    <2> QED BY <2>1, <2>2
  <1>5. ASSUME \A m \in Movers : ~MoveData(m)
        PROVE  /\ UNCHANGED <<orig, exn>>
               /\ \A i \in Uploads : fs[i] = None => fs'[i] = None
    <2>1. ASSUME NEW p \in Procs, EndeadenStep(p)
          PROVE  \A i \in Uploads : fs[i] = None => fs'[i] = None
      BY <1>0, <2>1 DEF EndeadenStep, BasicInv, MoveTypeOK, Uploads, Names
    <2>2. ASSUME \A p \in Procs : ~EndeadenStep(p) PROVE UNCHANGED fs
      BY <1>5, <2>2, UploadKinds
         DEF RetrieveQuiet, Retrieve, RetrieveRefused, CheckMeta, RetrieveCannotRead,
             MoveReturns, UnlinkMeta, MoveSystemError, MoveRuntimeError, QueryQuiet, List,
             QueryReads, QueryCannotRead, QueryFinds, QueryRejects, QueryAnswers, RetrieveReads,
             CallMove, Deliver, Expire, Die, uploadVars, moveVars
    <2>3. UNCHANGED <<orig, exn>>
      BY <1>5, UploadKinds
         DEF RetrieveQuiet, Retrieve, RetrieveRefused, CheckMeta, RetrieveCannotRead,
             MoveReturns, UnlinkMeta, MoveSystemError, MoveRuntimeError, QueryQuiet, List,
             QueryReads, QueryCannotRead, QueryFinds, QueryRejects, QueryAnswers, RetrieveReads,
             CallMove, EndeadenStep, Deliver, Expire, Die, uploadVars, moveVars, env
    <2> QED BY <2>1, <2>2, <2>3
  <1>6. /\ UNCHANGED orig
        /\ \A m \in Movers : exn[m] # "none" => exn'[m] # "none"
        /\ \A i \in Uploads : fs[i] = None => fs'[i] = None \/ Away(i)'
    BY <1>4, <1>5
  <1>7. \A i \in Uploads : Away(i) => Away(i)'
    BY <1>1, <1>2, <1>6 DEF Away, Distinguished, Uploads
  <1> QED BY <1>1, <1>2, <1>3, <1>6, <1>7

LEMMA MetaSeenStays ==
  ASSUME Distinguished, UploadInv, SoundInv, [UploadNext]_uploadVars
  PROVE  MetaSeen'
  <1> USE DEF SoundInv, MetaSeen, Handle, Procs, pairVars, cacheVars, queryVars, procVars
  <1>0. LinkInv /\ HandlerTypes
    BY DEF UploadInv, LinkInv
  <1> USE <1>0 DEF HandlerTypes
  <1>m. \A m \in Movers : g[m] = "read" => id[m] \in Uploads
    BY DEF LinkInv, IdKnown, Working
  <1>1. ASSUME NEW m \in Movers, RetrieveQuiet(m) \/ RetrieveReads(m) \/ MoveData(m)
        PROVE  MetaSeen'
    <2>1. ASSUME NEW i \in Uploads, NEW d \in Dests[m], Retrieve(m, i, d) PROVE MetaSeen'
      BY <2>1 DEF Retrieve
    <2>2. CASE CheckMeta(m)
      BY <2>2 DEF CheckMeta
    <2>3. CASE UnlinkMeta(m)
      <3>1. /\ UNCHANGED <<todo, listing, id>> /\ id[m] \in Uploads
            /\ \A n \in Movers : g'[n] = "read" => g[n] = "read"
            /\ meta' = [meta EXCEPT ![id[m]] = IF @ = "there" THEN "gone" ELSE @]
        BY <2>3 DEF UnlinkMeta, LinkInv, IdKnown, Working
      <3>2. \A j \in Uploads : meta'[j] = meta[j] \/ (meta[j] = "there" /\ meta'[j] = "gone")
        BY <3>1
      <3> QED BY SMTT(100), <1>m, <3>1, <3>2
    <2>4. CASE \/ RetrieveRefused(m) \/ RetrieveCannotRead(m) \/ MoveReturns(m)
               \/ MoveSystemError(m) \/ MoveRuntimeError(m) \/ RetrieveReads(m) \/ MoveData(m)
      <3>1. UNCHANGED <<meta, todo, listing, id>>
        BY <2>4 DEF RetrieveRefused, RetrieveCannotRead, MoveReturns, MoveSystemError,
                    MoveRuntimeError, RetrieveReads, MoveData
      <3>2. \A n \in Movers : g'[n] = "read" => g[n] = "read"
        BY <2>4 DEF RetrieveRefused, RetrieveCannotRead, MoveReturns, MoveSystemError,
                    MoveRuntimeError, RetrieveReads, MoveData, Endeaden
      <3> QED BY <3>1, <3>2
    <2> QED BY <1>1, <2>1, <2>2, <2>3, <2>4 DEF RetrieveQuiet
  <1>2. ASSUME NEW q \in Queries, QueryQuiet(q) PROVE MetaSeen'
    <2>0. q \notin Movers
      BY DEF Distinguished
    <2>1. CASE List(q)
      BY <2>0, <2>1 DEF List
    <2>2. ASSUME NEW i \in Uploads, QueryReads(q, i) \/ QueryCannotRead(q, i) PROVE MetaSeen'
      BY SMTT(100), <2>0, <2>2 DEF QueryReads, QueryCannotRead, Endeaden
    <2>3. CASE QueryFinds(q) \/ QueryRejects(q) \/ QueryAnswers(q)
      BY <2>0, <2>3 DEF QueryFinds, QueryRejects, QueryAnswers, Endeaden
    <2> QED BY <1>2, <2>1, <2>2, <2>3 DEF QueryQuiet
  <1>3. ASSUME NEW p \in Procs, EndeadenStep(p) PROVE MetaSeen'
    <2>1. /\ UNCHANGED <<todo, listing, id>>
          /\ \A n \in Movers : g'[n] = "read" => g[n] = "read"
          /\ meta' = meta \/ meta' = [meta EXCEPT ![id[p]] = IF @ = "there" THEN "dead" ELSE @]
          /\ id[p] \in Uploads
      BY <1>3 DEF EndeadenStep, LinkInv, IdKnown
    <2>2. \A j \in Uploads : meta'[j] = meta[j] \/ (meta[j] = "there" /\ meta'[j] = "dead")
      BY <2>1
    <2>3. meta' \in [Uploads -> {"coming", "there", "gone", "dead"}]
      BY <2>1
    <2> QED BY SMTT(100), <1>m, <2>1, <2>2, <2>3
  <1>4. ASSUME NEW i \in Uploads, Deliver(i) PROVE MetaSeen'
    BY SMTT(100), <1>4 DEF Deliver
  <1>5. CASE Expire \/ Die \/ UNCHANGED uploadVars
    BY <1>5 DEF Expire, Die, uploadVars, Working
  <1> QED BY <1>1, <1>2, <1>3, <1>4, <1>5, UploadKinds

\* Doubt about a sound upload arises only when its data file is away.
LEMMA DoubtArises ==
  ASSUME Distinguished, UploadInv, SoundInv, [UploadNext]_uploadVars,
         NEW i \in Uploads, Sound(i), Doubted(i)', ~Doubted(i), ~Away(i)
  PROVE  Away(i)'
  <1> USE DEF Handle, Procs, pairVars, cacheVars, queryVars, procVars, Doubted
  <1>0. BasicInv /\ LinkInv /\ HandlerTypes /\ MoveTypeOK /\ i \in Srcs /\ i \in Names
    BY DEF UploadInv, LinkInv, KeepInv, BasicInv, Uploads, Names
  <1> USE <1>0 DEF HandlerTypes
  <1>a. fs[i] = orig[i] /\ orig[i] # None /\ Crc[orig[i]] = record[i] /\ record[i] # Garbled
    BY DEF UploadInv, KeepInv, SrcsIntact, Sound, Away, Crcs, MoveTypeOK, Distinguished
  <1>b. meta[i] \in {"coming", "there"}
    BY DEF SoundInv, MetaSeen
  <1>1. ASSUME NEW m \in Movers, RetrieveQuiet(m) \/ RetrieveReads(m) PROVE FALSE
    <2>1. CASE UnlinkMeta(m)
      <3>1. id[m] # i
        BY SMTT(100), <1>a, <2>1 DEF UnlinkMeta, UploadInv, LinkInv, InMove, MovesIt, KeepInv, Exclusive, Took
      <3> QED BY <2>1, <3>1 DEF UnlinkMeta, moveVars, SoundInv, MetaSeen
    <2>2. CASE RetrieveCannotRead(m)
      <3>1. id[m] # i
        BY <1>a, <1>b, <2>2 DEF RetrieveCannotRead, Endeaden, Readable, SoundInv, MetaSeen
      <3> QED BY <2>2, <3>1 DEF RetrieveCannotRead, Endeaden, moveVars
    <2>3. CASE MoveRuntimeError(m)
      <3>1. id[m] # i
        BY <2>3 DEF MoveRuntimeError, LinkInv, MovesIt
      <3> QED BY <2>3, <3>1 DEF MoveRuntimeError, Endeaden, moveVars
    <2>4. ASSUME NEW j \in Uploads, NEW d \in Dests[m], Retrieve(m, j, d) PROVE FALSE
      BY <2>4 DEF Retrieve, moveVars
    <2>5. CASE RetrieveRefused(m) \/ CheckMeta(m) \/ MoveReturns(m) \/ MoveSystemError(m)
      BY <2>5 DEF RetrieveRefused, CheckMeta, MoveReturns, MoveSystemError, moveVars
    <2>6. CASE RetrieveReads(m)
      BY <2>6 DEF RetrieveReads, CallMove, Goto, MoveTypeOK
    <2> QED BY <1>1, <2>1, <2>2, <2>3, <2>4, <2>5, <2>6 DEF RetrieveQuiet
  <1>2. ASSUME NEW q \in Queries, QueryQuiet(q) PROVE FALSE
    <2>1. ASSUME NEW j \in Uploads, QueryCannotRead(q, j) PROVE FALSE
      <3>1. j # i
        BY <1>a, <1>b, <2>1 DEF QueryCannotRead, Readable, SoundInv, MetaSeen
      <3> QED BY <2>1, <3>1 DEF QueryCannotRead, Endeaden, moveVars
    <2>2. CASE QueryRejects(q)
      <3>1. id[q] # i
        BY <1>a, <2>2 DEF QueryRejects, Exists
      <3> QED BY <2>2, <3>1 DEF QueryRejects, Endeaden, moveVars
    <2>3. ASSUME NEW j \in Uploads, QueryReads(q, j) PROVE FALSE
      BY <2>3 DEF QueryReads, moveVars
    <2>4. CASE List(q) \/ QueryFinds(q) \/ QueryAnswers(q)
      BY <2>4 DEF List, QueryFinds, QueryAnswers, moveVars
    <2> QED BY <1>2, <2>1, <2>2, <2>3, <2>4 DEF QueryQuiet
  <1>3. ASSUME NEW p \in Procs, EndeadenStep(p) PROVE FALSE
    <2>1. id[p] # i
      BY <1>3 DEF EndeadenStep
    <2> QED BY <1>3, <2>1 DEF EndeadenStep, SoundInv, MetaSeen, args
  <1>4. ASSUME NEW j \in Uploads, Deliver(j) PROVE FALSE
    BY <1>4 DEF Deliver, SoundInv, MetaSeen, moveVars
  <1>5. CASE Expire \/ Die \/ UNCHANGED uploadVars
    BY <1>5 DEF Expire, Die, uploadVars, moveVars, args, Working
  <1>6. ASSUME NEW m \in Movers, MoveData(m) PROVE Away(i)'
    <2>1. /\ UNCHANGED <<src, orig, id, meta, g>>
          /\ \A n \in Movers \ {m} : pc'[n] = pc[n]
          /\ pc[m] \in Busy /\ pc'[m] = "runtime" /\ src[m] = i
      BY <1>6, MoveFrame DEF MoveData
    <2>2. id[m] = i /\ want[m] = record[i]
      BY <2>1 DEF LinkInv, MovesIt, Busy
    <2>3. ~Precheck(m)
      BY <1>a, <2>1, <2>2 DEF Precheck, Goto, Exists, MoveTypeOK
    <2>4. Revert(m)
      BY <1>6, <2>1, <2>3, StepKinds
         DEF MoveData, QuietStep, CheckDest, RenameFails, RenameCrossDevice, NoSpace,
             StashFails, Verify, RenameSame, Stash, Publish, MakeTempDir, MakeTemp,
             MakeTempFails, OpenFails, Copy, VerifyFails, Drop, Throw, Goto, MoveTypeOK
    <2>5. exn'[m] # "none"
      BY <2>4 DEF Revert, Goto, BasicInv, CopyIsGood
    <2> QED BY <2>1, <2>2, <2>5 DEF Away
  <1> QED BY <1>1, <1>2, <1>3, <1>4, <1>5, <1>6, UploadKinds

LEMMA SoundStep ==
  ASSUME Distinguished, UploadInv, SoundInv, [UploadNext]_uploadVars
  PROVE  SoundInv'
  <1>0. \A i \in Uploads : Sound(i)' => Sound(i)
    BY AwayStays DEF Sound
  <1>1. DoubtedAreAway'
    BY <1>0, DoubtArises, AwayStays DEF DoubtedAreAway, SoundInv
  <1>2. SoundStays'
    <2> SUFFICES ASSUME NEW i \in Uploads, Sound(i), dead'[i] # None
                 PROVE  \E m \in Movers : id'[m] = i /\ exn'[m] # "none"
      BY <1>0 DEF SoundStays
    <2>1. ASSUME NEW m \in Movers, id[m] = i, exn[m] # "none"
          PROVE  \E n \in Movers : id'[n] = i /\ exn'[n] # "none"
      BY <2>1, AwayStays DEF Distinguished
    <2>2. CASE dead[i] # None
      BY <2>1, <2>2 DEF SoundInv, SoundStays
    <2>3. CASE dead[i] = None
      <3>1. PICK p \in Procs : EndeadenStep(p)
        BY <2>3, UploadMoves
      <3>2. id[p] = i /\ Exists(i)
        BY <2>3, <3>1 DEF EndeadenStep, UploadInv, LinkInv, HandlerTypes
      <3>3. Away(i)
        BY <3>1, <3>2 DEF SoundInv, DoubtedAreAway, Doubted, EndeadenStep
      <3> QED BY <2>1, <3>2, <3>3 DEF Away, Exists
    <2> QED BY <2>2, <2>3
  <1> QED BY <1>1, <1>2, MetaSeenStays DEF SoundInv

\* retrieve_file hands an upload to one application, and endeaden moves a sound one
\* away only after a call that moved it has failed.
THEOREM UploadsGoOnceOrStay ==
  ASSUME Undisturbed, Distinguished
  PROVE  UploadSpec => []RetrievedOrKept
  <1>1. UploadInv /\ SoundInv => SoundStays
    BY DEF SoundInv
  <1>2. UploadInit => UploadInv /\ SoundInv
    BY UploadStart, SoundStart
  <1>3. UploadInv /\ SoundInv /\ [UploadNext]_uploadVars => UploadInv' /\ SoundInv'
    BY UploadStep, SoundStep
  <1>4. UploadSpec => []SoundStays
    BY <1>1, <1>2, <1>3, PTL DEF UploadSpec
  <1> QED BY <1>4, UploadsGoOnce, PTL DEF RetrievedOrKept

-----------------------------------------------------------------------------
(***************************************************************************)
(* What a query answers.                                                   *)
(***************************************************************************)
\* There are finitely many files to list, and max_query is a number.
Countable == IsFiniteSet(Uploads) /\ MaxQuery \in Nat

\* What query q is to find among the files it has looked at.
SoundListed(q) == {i \in listed[q] \ OffTopic : Sound(i)}

IsFound(q, i) == \E j \in 1..Len(found[q]) : found[q][j] = i

IsRequested(i) == \E m \in Movers : id[m] = i

\* The files found are sound, were listed and looked at, and are all different.
FoundGood(q) ==
  /\ found[q] \in Seq(Uploads) /\ todo[q] \subseteq listed[q] /\ listed[q] \subseteq Uploads
  /\ \A j \in 1..Len(found[q]) :
       found[q][j] \in listed[q] \ (OffTopic \cup todo[q]) /\ Sound(found[q][j])
  /\ \A j, k \in 1..Len(found[q]) : found[q][j] = found[q][k] => j = k

\* The length of the answer at each point of the loop.
FoundBounded(q) ==
  /\ g[q] = "idle" => found[q] = <<>>
  /\ Len(found[q]) <= MaxQuery + 1
  /\ g[q] = "info" => /\ Len(found[q]) <= MaxQuery /\ ~IsFound(q, id[q])
                      /\ id[q] \in listed[q] \ (OffTopic \cup todo[q])
  /\ g[q] = "ok" => /\ Len(found[q]) <= MaxQuery
                    /\ IF overflow[q] THEN Cardinality(SoundListed(q)) > MaxQuery
                       ELSE todo[q] = {}

\* Nothing sound it has looked at is forgotten.
FoundAll(q) ==
  g[q] # "killed" /\ ~(g[q] = "ok" /\ overflow[q]) =>
    \A i \in SoundListed(q) \ todo[q] :
      IsFound(q, i) \/ (g[q] = "info" /\ id[q] = i) \/ IsRequested(i)

QueryGood(q) == FoundGood(q) /\ FoundBounded(q) /\ FoundAll(q)
QueryTypes ==
  /\ listed \in [Queries -> SUBSET Uploads]
  /\ found \in [Queries -> Seq(Uploads)]
  /\ overflow \in [Queries -> BOOLEAN]
QueryInv == QueryTypes /\ \A q \in Queries : QueryGood(q)

LEMMA QueryStart ==
  ASSUME Countable, UploadInit
  PROVE  QueryInv
  BY SMTT(100) DEF UploadInit, QueryInv, QueryTypes, QueryGood, FoundGood, FoundBounded, FoundAll,
         SoundListed, Procs, Countable

\* A data file that is away has been asked for.
LEMMA AwayIsRequested ==
  ASSUME UploadInv, SoundInv, NEW i \in Uploads, Sound(i), Away(i)
  PROVE  IsRequested(i)
  <1>1. CASE fs[i] # None
    BY <1>1 DEF Away, IsRequested
  <1>2. CASE fs[i] = None
    <2>1. CASE dead[i] = orig[i]
      BY <2>1 DEF SoundInv, SoundStays, Sound, IsRequested
    <2>2. CASE dead[i] # orig[i]
      <3>1. PICK m \in Movers : src[m] = i /\ (stmp[m] = orig[i] \/ Delivered(m, orig[i]))
        BY <1>2, <2>2 DEF UploadInv, UploadConserved, Sound
      <3>2. pc[m] # "idle"
        BY <3>1 DEF UploadInv, KeepInv, StashIsSource, Delivered, Sound
      <3>3. id[m] = i
        BY <3>1, <3>2 DEF UploadInv, LinkInv, MovesIt
      <3> QED BY <3>3 DEF IsRequested
    <2> QED BY <2>1, <2>2
  <1> QED BY <1>1, <1>2

\* What another handler does is of no consequence to query q.
LEMMA QueryFrame ==
  ASSUME Distinguished, UploadInv, [UploadNext]_uploadVars, NEW q \in Queries, QueryGood(q),
         id'[q] = id[q], found'[q] = found[q], listed'[q] = listed[q],
         todo'[q] = todo[q], overflow'[q] = overflow[q],
         g'[q] = g[q] \/ g'[q] = "killed" \/ (g[q] = "endeaden" /\ g'[q] = "next")
  PROVE  QueryGood(q)'
  <1>1. /\ \A i : Sound(i)' <=> Sound(i)
        /\ \A i \in Uploads : IsRequested(i) => IsRequested(i)'
    BY AwayStays DEF Sound, IsRequested, Distinguished
  <1> QED BY <1>1 DEF QueryGood, FoundGood, FoundBounded, FoundAll, IsFound, SoundListed

LEMMA QueryLooks ==
  ASSUME Distinguished, Countable, UploadInv, SoundInv, [UploadNext]_uploadVars,
         NEW q \in Queries, QueryGood(q), QueryTypes,
         \/ List(q) \/ QueryRejects(q)
         \/ \E i \in Uploads : QueryReads(q, i) \/ QueryCannotRead(q, i)
  PROVE  QueryGood(q)'
  <1>1. /\ \A i : Sound(i)' <=> Sound(i)
        /\ \A i \in Uploads : IsRequested(i) => IsRequested(i)'
    BY AwayStays DEF Sound, IsRequested, Distinguished
  <1>2. \A i \in Uploads : Sound(i) => orig[i] # None /\ record[i] # Garbled
    BY DEF Sound, Crcs, Distinguished, UploadInv, KeepInv, BasicInv, MoveTypeOK, Uploads
  <1>3. g \in [Procs -> {"idle", "killed"} \cup Working \cup Answers] /\ id \in [Procs -> Uploads \cup {None}]
        /\ q \in Procs
    BY DEF UploadInv, LinkInv, HandlerTypes, Procs
  <1>4. MetaSeen
    BY DEF SoundInv
  <1> USE DEF QueryGood, Handle
  <1>5. CASE List(q)
    <2>1. /\ g[q] = "idle" /\ g'[q] = "next" /\ found'[q] = found[q] /\ overflow'[q] = overflow[q]
          /\ listed'[q] = todo'[q] /\ listed'[q] \subseteq Uploads
      BY <1>3, <1>4, <1>5 DEF List, MetaSeen, QueryTypes
    <2>2. found[q] = <<>>
      BY <2>1 DEF FoundBounded
    <2>3. FoundGood(q)'
      BY SMTT(100), <2>1, <2>2 DEF FoundGood
    <2> QED BY <2>1, <2>2, <2>3 DEF FoundBounded, FoundAll, SoundListed, Countable
  <1>6. ASSUME NEW i \in Uploads, QueryReads(q, i) PROVE QueryGood(q)'
    <2>1. /\ g[q] = "next" /\ g'[q] = (IF i \in OffTopic THEN "next" ELSE "info") /\ id'[q] = i
          /\ found'[q] = found[q] /\ overflow'[q] = overflow[q] /\ listed'[q] = listed[q]
          /\ todo'[q] = todo[q] \ {i} /\ i \in todo[q] /\ Len(found[q]) <= MaxQuery
      BY <1>3, <1>4, <1>6 DEF QueryReads, Continues, MetaSeen
    <2>2. FoundGood(q)'
      BY <1>1, <2>1 DEF FoundGood
    <2>3. FoundBounded(q)'
      BY <2>1 DEF FoundBounded, FoundGood, IsFound
    <2>4. FoundAll(q)'
      BY <1>1, <2>1 DEF FoundAll, FoundGood, SoundListed, IsFound
    <2> QED BY <2>2, <2>3, <2>4
  <1>7. ASSUME NEW i \in Uploads, QueryCannotRead(q, i) PROVE QueryGood(q)'
    <2>1. /\ g[q] = "next" /\ g'[q] = "endeaden"
          /\ found'[q] = found[q] /\ overflow'[q] = overflow[q] /\ listed'[q] = listed[q]
          /\ todo'[q] = todo[q] \ {i} /\ i \in todo[q] /\ Len(found[q]) <= MaxQuery
      BY <1>3, <1>4, <1>7 DEF QueryCannotRead, Continues, Endeaden, MetaSeen
    <2>2. FoundGood(q)'
      BY <1>1, <2>1 DEF FoundGood
    <2>3. FoundBounded(q)'
      BY <2>1 DEF FoundBounded, FoundGood, IsFound
    <2>4. Sound(i) => IsRequested(i)
      <3>1. Sound(i) => meta[i] \in {"gone", "dead"}
        BY <1>2, <1>4, <1>7, <2>1 DEF QueryCannotRead, Readable, MetaSeen
      <3> QED BY <3>1, AwayIsRequested DEF SoundInv, DoubtedAreAway, Doubted
    <2>5. FoundAll(q)'
      BY <1>1, <2>1, <2>4 DEF FoundAll, FoundGood, SoundListed, IsFound
    <2> QED BY <2>2, <2>3, <2>5
  <1>8. CASE QueryRejects(q)
    <2>1. /\ g[q] = "info" /\ g'[q] = "endeaden"
          /\ found'[q] = found[q] /\ overflow'[q] = overflow[q] /\ listed'[q] = listed[q]
          /\ todo'[q] = todo[q] /\ id[q] \in Uploads
      BY <1>3, <1>8 DEF QueryRejects, Endeaden, queryVars, FoundBounded, FoundGood
    <2>2. FoundGood(q)'
      BY <1>1, <2>1 DEF FoundGood
    <2>3. FoundBounded(q)'
      BY <2>1 DEF FoundBounded, FoundGood, IsFound
    <2>4. Sound(id[q]) => IsRequested(id[q])
      <3>1. Sound(id[q]) => fs[id[q]] = None
        BY <1>8, <2>1 DEF QueryRejects, Exists, UploadInv, KeepInv, SrcsIntact, Sound, Uploads
      <3> QED BY <2>1, <3>1, AwayIsRequested DEF Away
    <2>5. FoundAll(q)'
      BY <1>1, <2>1, <2>4 DEF FoundAll, FoundGood, SoundListed, IsFound
    <2> QED BY <2>2, <2>3, <2>5
  <1> QED BY <1>5, <1>6, <1>7, <1>8

INSTANCE FiniteSetTheorems

LEMMA SequenceCount ==
  ASSUME NEW S, NEW s \in Seq(S), \A j, k \in 1..Len(s) : s[j] = s[k] => j = k
  PROVE  /\ Cardinality({s[j] : j \in 1..Len(s)}) = Len(s)
         /\ IsFiniteSet({s[j] : j \in 1..Len(s)})
  <1> DEFINE T == {s[j] : j \in 1..Len(s)}
             f == [j \in 1..Len(s) |-> s[j]]
  <1>1. f \in Bijection(1..Len(s), T)
    BY DEF Bijection, Injection, Surjection, IsInjective
  <1> HIDE DEF T, f
  <1>2. ExistsBijection(1..Len(s), T) /\ Len(s) \in Nat
    BY SMTT(100), <1>1 DEF ExistsBijection
  <1>3. Cardinality(T) = Len(s) /\ IsFiniteSet(T)
    BY <1>2, FS_CountingElements, FS_NatBijection
  <1> QED BY <1>3 DEF T

LEMMA QueryMeans ==
  ASSUME QueryInv
  PROVE  QueryExact
  <1> SUFFICES ASSUME NEW q \in Queries, g[q] = "ok"
               PROVE  LET answer == {found[q][j] : j \in 1..Len(found[q])}
                          sound == {i \in listed[q] \ OffTopic : Sound(i)}
                      IN  /\ Cardinality(answer) = Len(found[q]) /\ Len(found[q]) <= MaxQuery
                          /\ answer \subseteq sound
                          /\ IF overflow[q] THEN Cardinality(sound) > MaxQuery
                             ELSE \A i \in sound \ answer : \E m \in Movers : id[m] = i
    BY DEF QueryExact
  <1>1. FoundGood(q) /\ FoundBounded(q) /\ FoundAll(q)
    BY DEF QueryInv, QueryGood
  <1>2. Cardinality({found[q][j] : j \in 1..Len(found[q])}) = Len(found[q])
    BY <1>1, SequenceCount DEF FoundGood
  <1> QED BY SMTT(100), <1>1, <1>2 DEF FoundGood, FoundBounded, FoundAll, SoundListed, IsFound, IsRequested

LEMMA QueryConcludes ==
  ASSUME Distinguished, Countable, UploadInv, [UploadNext]_uploadVars,
         NEW q \in Queries, QueryGood(q), QueryTypes, QueryFinds(q) \/ QueryAnswers(q)
  PROVE  QueryGood(q)'
  <1>1. /\ \A i : Sound(i)' <=> Sound(i)
        /\ \A i \in Uploads : IsRequested(i) => IsRequested(i)'
    BY AwayStays DEF Sound, IsRequested, Distinguished
  <1>2. g \in [Procs -> {"idle", "killed"} \cup Working \cup Answers] /\ q \in Procs
    BY DEF UploadInv, LinkInv, HandlerTypes, Procs
  <1>3. FoundGood(q) /\ FoundBounded(q) /\ FoundAll(q) /\ Len(found[q]) \in Nat
    BY SMTT(100) DEF QueryGood, FoundGood
  <1>4. CASE QueryFinds(q)
    <2>1. /\ g[q] = "info" /\ g'[q] = "next" /\ id'[q] = id[q]
          /\ found'[q] = Append(found[q], id[q]) /\ overflow'[q] = overflow[q]
          /\ listed'[q] = listed[q] /\ todo'[q] = todo[q]
      BY <1>2, <1>4 DEF QueryFinds, Handle, QueryTypes
    <2>2. /\ id[q] \in listed[q] \ (OffTopic \cup todo[q]) /\ ~IsFound(q, id[q])
          /\ id[q] \in Uploads /\ Len(found[q]) <= MaxQuery
      BY <1>3, <2>1 DEF FoundBounded, FoundGood
    <2>3. Sound(id[q])
      BY <1>4, <2>2 DEF QueryFinds, Exists, UploadInv, KeepInv, SrcsIntact, Sound, Uploads
    <2>4. /\ found'[q] \in Seq(Uploads) /\ Len(found'[q]) = Len(found[q]) + 1
          /\ \A j \in 1..Len(found[q]) : found'[q][j] = found[q][j]
          /\ found'[q][Len(found[q]) + 1] = id[q]
      BY SMTT(100), <1>3, <2>1, <2>2 DEF FoundGood
    <2>5. FoundGood(q)'
      <3>1. ASSUME NEW j \in 1..Len(found'[q])
            PROVE  found'[q][j] \in listed[q] \ (OffTopic \cup todo[q]) /\ Sound(found'[q][j])
        BY SMTT(100), <1>3, <2>2, <2>3, <2>4 DEF FoundGood
      <3>2. ASSUME NEW j \in 1..Len(found'[q]), NEW k \in 1..Len(found'[q]), found'[q][j] = found'[q][k]
            PROVE  j = k
        <4>1. \A l \in 1..Len(found'[q]) : l \in 1..Len(found[q]) \/ l = Len(found[q]) + 1
          BY SMTT(100), <1>3, <2>4
        <4>2. CASE j \in 1..Len(found[q]) /\ k \in 1..Len(found[q])
          BY <1>3, <2>4, <3>2, <4>2 DEF FoundGood
        <4>3. \A l \in 1..Len(found[q]) : found'[q][l] # id[q]
          BY <2>2, <2>4 DEF IsFound
        <4> QED BY <2>4, <3>2, <4>1, <4>2, <4>3
      <3> QED BY <1>1, <1>3, <2>1, <2>4, <3>1, <3>2 DEF FoundGood
    <2>6. FoundBounded(q)'
      BY SMTT(100), <2>1, <2>2, <2>4, <1>3 DEF FoundBounded, Countable
    <2>7. FoundAll(q)'
      <3>1. 1..Len(found[q]) \subseteq 1..Len(found'[q]) /\ Len(found[q]) + 1 \in 1..Len(found'[q])
        BY SMTT(100), <1>3, <2>4
      <3>2. IsFound(q, id[q])' /\ \A i : IsFound(q, i) => IsFound(q, i)'
        BY <2>1, <2>4, <3>1 DEF IsFound
      <3>3. SoundListed(q)' = SoundListed(q) /\ SoundListed(q) \subseteq Uploads
        BY <1>1, <1>3, <2>1 DEF SoundListed, FoundGood
      <3> QED BY <1>1, <1>3, <2>1, <3>2, <3>3 DEF FoundAll
    <2> QED BY <2>5, <2>6, <2>7 DEF QueryGood
  <1>5. CASE QueryAnswers(q)
    <2>1. /\ g[q] = "next" /\ g'[q] = "ok" /\ listed'[q] = listed[q] /\ todo'[q] = todo[q]
          /\ overflow'[q] <=> Len(found[q]) > MaxQuery
          /\ todo[q] = {} \/ ~(Len(found[q]) <= MaxQuery)
          /\ found'[q] = IF overflow'[q] THEN SubSeq(found[q], 1, Len(found[q]) - 1) ELSE found[q]
      <3>1. g[q] = "next" /\ g'[q] = "ok" /\ listed'[q] = listed[q] /\ todo'[q] = todo[q]
        BY <1>2, <1>5 DEF QueryAnswers, Handle
      <3>2. overflow'[q] <=> Len(found[q]) > MaxQuery
        <4>1. overflow' = [overflow EXCEPT ![q] = Len(found[q]) > MaxQuery]
          BY <1>5 DEF QueryAnswers
        <4> QED BY <4>1 DEF QueryTypes
      <3>3. todo[q] = {} \/ ~(Len(found[q]) <= MaxQuery)
        BY <1>5 DEF QueryAnswers, Continues
      <3>4. found'[q] = IF overflow'[q] THEN SubSeq(found[q], 1, Len(found[q]) - 1) ELSE found[q]
        BY <1>5 DEF QueryAnswers, QueryTypes
      <3> QED BY <3>1, <3>2, <3>3, <3>4
    <2>2. CASE Len(found[q]) > MaxQuery
      <3>1. found'[q] = SubSeq(found[q], 1, Len(found[q]) - 1) /\ overflow'[q]
        BY <2>1, <2>2
      <3>2. /\ found'[q] \in Seq(Uploads) /\ Len(found'[q]) = Len(found[q]) - 1
            /\ \A j \in 1..Len(found'[q]) : found'[q][j] = found[q][j]
        <4> DEFINE n == Len(found[q]) - 1
        <4>1. n \in Nat /\ \A j \in 1..n : found[q][j] \in Uploads
          BY SMTT(100), <1>3, <2>2 DEF FoundGood, Countable
        <4>2. SubSeq(found[q], 1, n) \in Seq(Uploads) /\ Len(SubSeq(found[q], 1, n)) = n
          BY SMTT(100), <1>3, <4>1 DEF FoundGood
        <4>3. \A j \in 1..n : SubSeq(found[q], 1, n)[j] = found[q][j]
          BY SMTT(100), <4>1
        <4> QED BY <3>1, <4>2, <4>3
      <3>3. FoundGood(q)'
        <4>1. \A j \in 1..Len(found'[q]) : j \in 1..Len(found[q])
          BY SMTT(100), <1>3, <3>2
        <4>2. \A j \in 1..Len(found'[q]) :
                found'[q][j] \in listed[q] \ (OffTopic \cup todo[q]) /\ Sound(found'[q][j])
          BY <1>3, <3>2, <4>1 DEF FoundGood
        <4>3. \A j, k \in 1..Len(found'[q]) : found'[q][j] = found'[q][k] => j = k
          BY <1>3, <3>2, <4>1 DEF FoundGood
        <4> QED BY <1>1, <1>3, <2>1, <3>2, <4>2, <4>3 DEF FoundGood
      <3>4. Cardinality(SoundListed(q)) > MaxQuery
        <4> DEFINE T == {found[q][j] : j \in 1..Len(found[q])}
        <4>1. T \subseteq SoundListed(q) /\ SoundListed(q) \subseteq Uploads
          BY <1>3 DEF FoundGood, SoundListed
        <4>2. Cardinality(T) = Len(found[q])
          BY <1>3, SequenceCount DEF FoundGood
        <4>3. IsFiniteSet(SoundListed(q))
          BY <4>1, FS_Subset DEF Countable
        <4> HIDE DEF T
        <4>4. Cardinality(T) <= Cardinality(SoundListed(q)) /\ Cardinality(SoundListed(q)) \in Nat
          BY <4>1, <4>3, FS_Subset, FS_CardinalityType
        <4> QED BY SMTT(100), <1>3, <2>2, <4>2, <4>4 DEF Countable
      <3>5. FoundBounded(q)'
        <4>1. SoundListed(q)' = SoundListed(q)
          BY <1>1, <2>1 DEF SoundListed
        <4>2. Cardinality(SoundListed(q))' > MaxQuery
          BY <3>4, <4>1
        <4>3. Len(found'[q]) <= MaxQuery
          BY SMTT(100), <1>3, <3>2 DEF FoundBounded, Countable
        <4> QED BY SMTT(100), <2>1, <3>1, <3>2, <4>2, <4>3 DEF FoundBounded, Countable
      <3> QED BY <2>1, <3>1, <3>3, <3>5 DEF FoundAll, QueryGood
    <2>3. CASE ~(Len(found[q]) > MaxQuery)
      <3>1. found'[q] = found[q] /\ ~overflow'[q] /\ todo[q] = {} /\ Len(found[q]) <= MaxQuery
        BY SMTT(100), <1>3, <2>1, <2>3 DEF Countable
      <3>2. FoundGood(q)'
        BY <1>1, <1>3, <2>1, <3>1 DEF FoundGood
      <3>3. FoundBounded(q)'
        BY <1>3, <2>1, <3>1 DEF FoundBounded, Countable
      <3>4. FoundAll(q)'
        BY <1>1, <1>3, <2>1, <3>1 DEF FoundAll, SoundListed, IsFound, FoundGood
      <3> QED BY <3>2, <3>3, <3>4 DEF QueryGood
    <2> QED BY <2>2, <2>3
  <1> QED BY <1>4, <1>5

LEMMA QueryOwnStep ==
  ASSUME Distinguished, Countable, UploadInv, SoundInv, [UploadNext]_uploadVars,
         QueryInv, NEW q \in Queries, QueryQuiet(q)
  PROVE  QueryGood(q)'
  BY QueryLooks, QueryConcludes DEF QueryInv, QueryQuiet

LEMMA QueryTypesStay ==
  ASSUME Distinguished, UploadInv, SoundInv, [UploadNext]_uploadVars, QueryInv
  PROVE  QueryTypes'
  <1>0. QueryTypes /\ \A q \in Queries : g[q] = "info" => id[q] \in Uploads
    BY DEF QueryInv, QueryGood, FoundGood, FoundBounded
  <1>1. ASSUME NEW q \in Queries, QueryQuiet(q) PROVE QueryTypes'
    <2>1. CASE List(q)
      <3>1. UNCHANGED <<found, overflow>> /\ listed' \in [Queries -> SUBSET Uploads]
        BY <1>0, <2>1 DEF List, SoundInv, MetaSeen, QueryTypes
      <3> QED BY <1>0, <3>1 DEF QueryTypes
    <2>2. CASE QueryFinds(q)
      BY SMTT(100), <1>0, <2>2 DEF QueryFinds, Handle, QueryTypes
    <2>3. CASE QueryAnswers(q)
      <3>1. Len(found[q]) \in Nat /\ \A j \in 1..Len(found[q]) - 1 : found[q][j] \in Uploads
        BY SMTT(100), <1>0 DEF QueryTypes
      <3>2. SubSeq(found[q], 1, Len(found[q]) - 1) \in Seq(Uploads)
        BY SMTT(100), <1>0, <3>1 DEF QueryTypes
      <3>3. found' \in [Queries -> Seq(Uploads)] /\ listed' = listed
        BY <1>0, <2>3, <3>2 DEF QueryAnswers, QueryTypes
      <3>4. overflow' = [overflow EXCEPT ![q] = Len(found[q]) > MaxQuery]
        BY <2>3 DEF QueryAnswers
      <3>5. overflow' \in [Queries -> BOOLEAN]
        <4>1. (Len(found[q]) > MaxQuery) \in BOOLEAN
          BY SMTT(100)
        <4> QED BY <1>0, <3>4, <4>1 DEF QueryTypes
      <3> QED BY <1>0, <3>3, <3>5 DEF QueryTypes
    <2>4. CASE QueryRejects(q) \/ \E i \in Uploads : QueryReads(q, i) \/ QueryCannotRead(q, i)
      <3>1. UNCHANGED <<listed, found, overflow>>
        BY <2>4 DEF QueryRejects, QueryReads, QueryCannotRead, queryVars
      <3> QED BY <1>0, <3>1 DEF QueryTypes
    <2> QED BY <1>1, <2>1, <2>2, <2>3, <2>4 DEF QueryQuiet
  <1>2. ASSUME \A q \in Queries : ~QueryQuiet(q) PROVE UNCHANGED queryVars
    BY <1>2, UploadKinds
       DEF RetrieveQuiet, Retrieve, RetrieveRefused, CheckMeta, RetrieveCannotRead, MoveReturns,
           UnlinkMeta, MoveSystemError, MoveRuntimeError, RetrieveReads, MoveData, EndeadenStep,
           Deliver, Expire, Die, uploadVars, queryVars
  <1> QED BY <1>0, <1>1, <1>2 DEF queryVars, QueryTypes

LEMMA QueryInvStep ==
  ASSUME Distinguished, Countable, UploadInv, SoundInv, [UploadNext]_uploadVars, QueryInv
  PROVE  QueryInv'
  <1> SUFFICES ASSUME NEW q \in Queries, ~QueryQuiet(q) PROVE QueryGood(q)'
    BY QueryOwnStep, QueryTypesStay DEF QueryInv
  <1>0. q \in Procs /\ q \notin Movers /\ HandlerTypes /\ QueryTypes /\ QueryGood(q) /\ MetaSeen
    BY DEF Procs, Distinguished, UploadInv, LinkInv, QueryInv, SoundInv
  <1>1. /\ id'[q] = id[q] /\ found'[q] = found[q] /\ listed'[q] = listed[q]
        /\ todo'[q] = todo[q] /\ overflow'[q] = overflow[q]
        /\ g'[q] = g[q] \/ g'[q] = "killed" \/ (g[q] = "endeaden" /\ g'[q] = "next")
    <2>1. ASSUME NEW m \in Movers, RetrieveQuiet(m) \/ RetrieveReads(m) \/ MoveData(m)
          PROVE  /\ id'[q] = id[q] /\ g'[q] = g[q] /\ UNCHANGED queryVars
      BY <1>0, <2>1 DEF RetrieveQuiet, Retrieve, RetrieveRefused, CheckMeta, RetrieveCannotRead,
           MoveReturns, UnlinkMeta, MoveSystemError, MoveRuntimeError, RetrieveReads, MoveData,
           Handle, Endeaden, procVars, HandlerTypes
    <2>2. ASSUME NEW r \in Queries, r # q, QueryQuiet(r)
          PROVE  /\ id'[q] = id[q] /\ found'[q] = found[q] /\ listed'[q] = listed[q]
                 /\ todo'[q] = todo[q] /\ overflow'[q] = overflow[q] /\ g'[q] = g[q]
      <3>0. r \in Procs
        BY DEF Procs
      <3>1. CASE List(r) \/ QueryFinds(r) \/ QueryRejects(r)
        BY <1>0, <2>2, <3>0, <3>1 DEF List, QueryFinds, QueryRejects, Handle, Endeaden, queryVars,
           HandlerTypes, QueryTypes, MetaSeen
      <3>2. CASE QueryAnswers(r)
        BY <1>0, <2>2, <3>0, <3>2 DEF QueryAnswers, Handle, HandlerTypes, QueryTypes
      <3>3. ASSUME NEW i \in Uploads, QueryReads(r, i) \/ QueryCannotRead(r, i)
            PROVE  /\ id'[q] = id[q] /\ todo'[q] = todo[q] /\ g'[q] = g[q]
                   /\ UNCHANGED <<found, listed, overflow>>
        BY <1>0, <2>2, <3>0, <3>3 DEF QueryReads, QueryCannotRead, Handle, Endeaden,
           HandlerTypes, MetaSeen
      <3> QED BY <2>2, <3>1, <3>2, <3>3 DEF QueryQuiet
    <2>3. ASSUME NEW p \in Procs, EndeadenStep(p)
          PROVE  /\ id' = id /\ UNCHANGED queryVars
                 /\ g'[q] = g[q] \/ (g[q] = "endeaden" /\ g'[q] = "next")
      BY <1>0, <2>3 DEF EndeadenStep, HandlerTypes
    <2>4. CASE (\E i \in Uploads : Deliver(i)) \/ Expire \/ UNCHANGED uploadVars
      BY <2>4 DEF Deliver, Expire, uploadVars, procVars, queryVars
    <2>5. CASE Die
      BY <1>0, <2>5 DEF Die, queryVars
    <2> QED BY <2>1, <2>2, <2>3, <2>4, <2>5, UploadKinds DEF queryVars
  <1> QED BY <1>0, <1>1, QueryFrame

\* A query tells of what there is: sound uploads of its topic, each once, at
\* most max_query of them, and all of them but those being retrieved, whatever
\* requests run beside it and however old its cached listing is.
THEOREM QueriesAreExact ==
  ASSUME Undisturbed, Distinguished, Countable
  PROVE  UploadSpec => []QueryExact
  <1>1. UploadInit => UploadInv /\ SoundInv /\ QueryInv
    BY UploadStart, SoundStart, QueryStart
  <1>2. UploadInv /\ SoundInv /\ QueryInv /\ [UploadNext]_uploadVars
          => UploadInv' /\ SoundInv' /\ QueryInv'
    BY UploadStep, SoundStep, QueryInvStep
  <1>3. UploadInv /\ SoundInv /\ QueryInv => QueryExact
    BY QueryMeans
  <1> QED BY <1>1, <1>2, <1>3, PTL DEF UploadSpec
=============================================================================
