--------------------------- MODULE TransfersProofs ---------------------------
(***************************************************************************)
(* Proofs about Transfers, for any number of requests to send and to read, *)
(* any files, faults of the meta file and crashes, as long as the final    *)
(* rename of move_file does not fail.                                      *)
(***************************************************************************)
EXTENDS Transfers, MoveFileProofs

USE ZenonT(100)

\* The random identifiers make destinations private.
LEMMA SendsUndisturbed == ASSUME "publish" \notin Faults PROVE Undisturbed
  BY TransferAssumption DEF Undisturbed

LEMMA DataFiles ==
  /\ \A m \in Movers :
       /\ Dests[m] = {DataFile(m)}
       /\ DataFile(m) \in AllDests /\ DataFile(m) \in Names /\ DataFile(m) \notin Srcs
  /\ \A m, n \in Movers : m # n => DataFile(m) # DataFile(n)
  <1>1. ASSUME NEW m \in Movers PROVE Dests[m] = {DataFile(m)}
    <2>1. PICK d \in Dests[m] : Dests[m] = {d}
      BY <1>1, TransferAssumption
    <2>2. DataFile(m) \in Dests[m]
      BY <2>1 DEF DataFile
    <2> QED BY <2>1, <2>2
  <1>2. \A m \in Movers : DataFile(m) \in AllDests
    BY <1>1 DEF AllDests
  <1>3. \A m, n \in Movers : m # n => DataFile(m) # DataFile(n)
    BY <1>1, TransferAssumption DEF PrivateDests
  <1> QED BY <1>1, <1>2, <1>3, MoveAssumption DEF Names

LEMMA TransferStart == TransferInit => TransferInv
  <1> SUFFICES ASSUME TransferInit PROVE TransferInv
    OBVIOUS
  <1>1. MoveInv /\ MoveTypeOK
    BY FullInit DEF TransferInit, MoveInv, BasicInv
  <1>2. TransferTypeOK
    BY <1>1 DEF TransferInit, TransferTypeOK
  <1>3. InStep /\ SameArgs
    BY DEF TransferInit, MoveInit, InStep, SameArgs, Busy, Working
  <1>4. DataIsOwn
    BY DataFiles DEF TransferInit, DataIsOwn, Exists
  <1>5. MetaInStep /\ ReadsLate
    BY DEF TransferInit, MetaInStep, ReadsLate, MetaThere
  <1> QED BY <1>1, <1>2, <1>3, <1>4, <1>5 DEF TransferInv

\* The steps of a handler that touch no file.
HandlerOnly(m) ==
  \/ Refuse(m) \/ (\E s \in Srcs : Accept(m, s)) \/ FileInfo(m) \/ FileInfoFails(m)
  \/ OpenMetaFails(m) \/ AnswerOk(m) \/ AnswerThrows(m)

LEMMA NextKinds ==
  ASSUME TransferNext
  PROVE  \/ \E m \in Movers :
              \/ HandlerOnly(m) \/ OpenMeta(m) \/ FlushMeta(m) \/ MoveData(m)
              \/ AnswerBad(m) \/ Collect(m)
         \/ \E k \in Readers :
              \/ \E m \in Movers : AskMeta(k, m)
              \/ ReadMeta(k) \/ EndeadenMeta(k) \/ EndeadenTwin(k)
         \/ Die
  BY DEF TransferNext, SendStep, ReadStep, HandlerOnly

\* Every step of send_file, meta and the collector is one of move_file, or none.
LEMMA MoveSimulated ==
  ASSUME TransferInv, [TransferNext]_transferVars
  PROVE  [MoveNext]_moveVars
  <1>1. ASSUME NEW m \in Movers, FlushMeta(m) PROVE MoveNext
    <2>1. path[m] \in Srcs /\ crc[m] \in Crcs /\ DataFile(m) \in Dests[m]
      BY <1>1, DataFiles DEF TransferInv, SameArgs, FlushMeta, Handle, Working
    <2>2. CallMove(m, path[m], DataFile(m), crc[m])
      BY <1>1 DEF FlushMeta
    <2> QED BY <2>1, <2>2 DEF MoveNext
  <1>2. ASSUME NEW m \in Movers, MoveData(m) PROVE MoveNext
    BY <1>2 DEF MoveData, MoveNext
  <1>3. CASE Die
    <2>1. CASE \E m \in Movers : pc[m] \in Busy
      BY <1>3, <2>1 DEF Die, Crash, MoveNext
    <2>2. CASE \A m \in Movers : pc[m] \notin Busy
      <3>1. pc' = [m \in Movers |-> pc[m]]
        BY <1>3, <2>2 DEF Die
      <3>2. pc' = pc
        BY <3>1 DEF TransferInv, TransferTypeOK, MoveTypeOK
      <3> QED BY <1>3, <3>2 DEF Die, moveVars, env, args, temps
    <2> QED BY <2>1, <2>2
  <1>4. ASSUME NEW m \in Movers,
               HandlerOnly(m) \/ OpenMeta(m) \/ AnswerBad(m) \/ Collect(m)
        PROVE  UNCHANGED moveVars
    BY <1>4 DEF HandlerOnly, Refuse, Accept, FileInfo, FileInfoFails, OpenMetaFails,
                AnswerOk, AnswerThrows, OpenMeta, AnswerBad, Collect
  <1>5. ASSUME NEW k \in Readers,
               \/ \E m \in Movers : AskMeta(k, m)
               \/ ReadMeta(k) \/ EndeadenMeta(k) \/ EndeadenTwin(k)
        PROVE  UNCHANGED moveVars
    BY <1>5 DEF AskMeta, ReadMeta, EndeadenMeta, EndeadenTwin
  <1>6. CASE UNCHANGED transferVars
    BY <1>6 DEF transferVars
  <1> QED BY NextKinds, <1>1, <1>2, <1>3, <1>4, <1>5, <1>6

LEMMA MoveInvKept ==
  ASSUME "publish" \notin Faults, TransferInv, [TransferNext]_transferVars
  PROVE  MoveInv' /\ MoveTypeOK'
  <1>1. MoveInv'
    BY MoveSimulated, FullStep, SendsUndisturbed DEF TransferInv
  <1> QED BY <1>1 DEF MoveInv, BasicInv

\* The conjuncts of TransferInv that are about this module's own variables.
LinkInv == TransferTypeOK /\ InStep /\ SameArgs /\ DataIsOwn /\ MetaInStep /\ ReadsLate

LEMMA HandlerOnlyKeeps ==
  ASSUME TransferInv, MoveTypeOK', NEW m \in Movers, HandlerOnly(m)
  PROVE  LinkInv'
  <1>0. TransferTypeOK /\ InStep /\ SameArgs /\ DataIsOwn /\ MetaInStep /\ ReadsLate
    BY DEF TransferInv
  <1>1. ASSUME NEW s \in Srcs, Accept(m, s) PROVE LinkInv'
    <2> USE <1>0, <1>1 DEF Accept, Handle, moveVars, readVars
    <2>1. TransferTypeOK'
      BY DEF TransferTypeOK, Working, Answers
    <2>2. InStep' /\ SameArgs'
      BY SMTT(100) DEF InStep, SameArgs, TransferTypeOK, Busy, Working
    <2>3. DataIsOwn'
      BY DEF DataIsOwn, Exists, Took
    <2>4. MetaInStep' /\ ReadsLate'
      BY SMTT(100) DEF MetaInStep, ReadsLate, MetaThere, Kept, TransferTypeOK, Answers
    <2> QED BY <2>1, <2>2, <2>3, <2>4 DEF LinkInv
  <1>2. CASE FileInfo(m)
    <2> USE <1>0, <1>2 DEF FileInfo, Handle, moveVars, readVars
    <2>1. Crc[fs[path[m]]] \in Crcs
      BY SMTT(100) DEF TransferTypeOK, MoveTypeOK, SameArgs, Exists, Names, Crcs, Working
    <2>2. TransferTypeOK'
      BY <2>1 DEF TransferTypeOK, Working
    <2>3. InStep' /\ SameArgs'
      BY SMTT(100), <2>1 DEF InStep, SameArgs, TransferTypeOK, Busy, Working
    <2>4. pc[m] = "idle"
      BY DEF InStep
    <2>5. DataIsOwn'
      BY <2>4 DEF DataIsOwn, Exists, Took, TransferTypeOK
    <2>6. MetaInStep' /\ ReadsLate'
      BY SMTT(100) DEF MetaInStep, ReadsLate, MetaThere, Kept, TransferTypeOK, Answers
    <2> QED BY <2>2, <2>3, <2>5, <2>6 DEF LinkInv
  <1>3. CASE Refuse(m) \/ FileInfoFails(m) \/ OpenMetaFails(m) \/ AnswerOk(m) \/ AnswerThrows(m)
    <2>1. UNCHANGED <<fs, pc, src, dest, want, stmp, path, crc, meta, place, rpc, rid, spoilt>>
      BY <1>3 DEF Refuse, FileInfoFails, OpenMetaFails, AnswerOk, AnswerThrows, moveVars, readVars
    <2>2. /\ \/ Handle(m, "idle", "bad") \/ Handle(m, "info", "bad") \/ Handle(m, "open", "bad")
             \/ Handle(m, "move", "ok") \/ Handle(m, "move", "threw")
          /\ h'[m] = "ok" => pc[m] = "ok"
          /\ h'[m] = "threw" => pc[m] = "runtime"
      BY <1>0, <1>3 DEF Refuse, FileInfoFails, OpenMetaFails, AnswerOk, AnswerThrows, Handle,
                        TransferTypeOK
    <2> USE <1>0, <2>1, <2>2 DEF Handle
    <2>3. TransferTypeOK'
      BY DEF TransferTypeOK, Working, Answers
    <2>4. InStep' /\ SameArgs'
      BY SMTT(100) DEF InStep, SameArgs, TransferTypeOK, Busy, Working
    <2>5. DataIsOwn'
      BY DEF DataIsOwn, Exists, Took
    <2>6. MetaInStep' /\ ReadsLate'
      BY SMTT(100) DEF MetaInStep, ReadsLate, MetaThere, Kept, TransferTypeOK, Answers
    <2> QED BY <2>3, <2>4, <2>5, <2>6 DEF LinkInv
  <1> QED BY <1>1, <1>2, <1>3 DEF HandlerOnly

\* Only the meta files and the places of data files change.
LEMMA PairsKeep ==
  ASSUME TransferInv, MoveTypeOK', NEW m \in Movers,
         OpenMeta(m) \/ AnswerBad(m) \/ Collect(m)
  PROVE  LinkInv'
  <1>0. TransferTypeOK /\ InStep /\ SameArgs /\ DataIsOwn /\ MetaInStep /\ ReadsLate
    BY DEF TransferInv
  <1>1. CASE OpenMeta(m)
    <2>1. /\ UNCHANGED <<fs, pc, src, dest, want, stmp, path, crc, place, rpc, rid, spoilt>>
          /\ h[m] = "open" /\ h' = [h EXCEPT ![m] = "flush"]
          /\ meta' = [meta EXCEPT ![m] = "empty"]
      BY <1>1 DEF OpenMeta, Handle, moveVars, readVars
    <2>2. /\ \A n \in Movers \ {m} : h'[n] = h[n] /\ meta'[n] = meta[n]
          /\ h'[m] = "flush" /\ meta'[m] = "empty"
      BY <1>0, <2>1 DEF TransferTypeOK
    <2>3. TransferTypeOK'
      BY <1>0, <2>1 DEF TransferTypeOK, Working
    <2>4. InStep'
      <3>1. InStep /\ pc' = pc
        BY <1>0, <2>1
      <3>2. h'[m] = "flush" /\ h[m] = "open" /\ \A n \in Movers \ {m} : h'[n] = h[n]
        BY <2>1, <2>2
      <3>3. pc[m] = "idle" /\ pc[m] \notin Busy
        BY <3>1, <3>2 DEF InStep, Busy
      <3> QED BY <3>1, <3>2, <3>3 DEF InStep
    <2>5. SameArgs'
      BY <1>0, <2>1, <2>2 DEF SameArgs, Working
    <2>6. DataIsOwn'
      BY <1>0, <2>1 DEF DataIsOwn, Exists, Took
    <2>7. MetaInStep'
      BY SMTT(100), <1>0, <2>1, <2>2 DEF MetaInStep, MetaThere, Kept
    <2>8. ReadsLate'
      <3> SUFFICES ASSUME NEW j \in Readers, rpc'[j] \in {"read", "endeaden", "twin"}
                   PROVE  /\ rid'[j] \in Movers
                          /\ rid'[j] \notin spoilt' => h'[rid'[j]] \in Answers \cup {"dead"}
                          /\ rid'[j] \notin spoilt' /\ rpc'[j] # "read" /\ h'[rid'[j]] = "ok" =>
                               place'[rid'[j]] = "collected"
        BY DEF ReadsLate
      <3>1. ReadsLate
        BY <1>0
      <3>2. rpc[j] = rpc'[j] /\ rid[j] = rid'[j] /\ spoilt' = spoilt /\ place' = place
        BY <2>1
      <3>3. /\ rid[j] \in Movers
            /\ rid[j] \notin spoilt => h[rid[j]] \in Answers \cup {"dead"}
            /\ rid[j] \notin spoilt /\ rpc[j] # "read" /\ h[rid[j]] = "ok" =>
                 place[rid[j]] = "collected"
        BY <3>1, <3>2 DEF ReadsLate
      <3>4. CASE rid[j] = m
        <4>1. h[m] \notin Answers \cup {"dead"}
          BY <2>1 DEF Answers
        <4> QED BY <3>2, <3>3, <3>4, <4>1
      <3>5. CASE rid[j] # m
        BY <2>2, <3>2, <3>3, <3>5
      <3> QED BY <3>4, <3>5
    <2> QED BY <2>3, <2>4, <2>5, <2>6, <2>7, <2>8 DEF LinkInv
  <1>2. CASE AnswerBad(m)
    <2>1. /\ UNCHANGED <<fs, pc, src, dest, want, stmp, path, crc, place, rpc, rid, spoilt>>
          /\ h[m] = "move" /\ h' = [h EXCEPT ![m] = "bad"]
          /\ meta' = [meta EXCEPT ![m] = IF MetaThere(m) THEN "none" ELSE @]
          /\ pc[m] = "system"
      BY <1>2 DEF AnswerBad, Handle, moveVars, readVars
    <2>2. /\ \A n \in Movers \ {m} : h'[n] = h[n] /\ meta'[n] = meta[n]
          /\ h'[m] = "bad" /\ meta'[m] \notin {"empty", "full"}
      BY <1>0, <2>1 DEF TransferTypeOK, MetaThere
    <2>3. TransferTypeOK'
      BY <1>0, <2>1 DEF TransferTypeOK, Answers
    <2>4. InStep'
      <3>1. InStep /\ pc' = pc
        BY <1>0, <2>1
      <3> QED BY SMTT(100), <3>1, <2>1, <2>2 DEF InStep, Busy
    <2>5. SameArgs'
      BY <1>0, <2>1, <2>2 DEF SameArgs, Working
    <2>6. DataIsOwn'
      BY <1>0, <2>1 DEF DataIsOwn, Exists, Took
    <2>7. MetaInStep'
      BY SMTT(100), <1>0, <2>1, <2>2 DEF MetaInStep, MetaThere, Kept
    <2>8. ReadsLate'
      <3> SUFFICES ASSUME NEW j \in Readers, rpc'[j] \in {"read", "endeaden", "twin"}
                   PROVE  /\ rid'[j] \in Movers
                          /\ rid'[j] \notin spoilt' => h'[rid'[j]] \in Answers \cup {"dead"}
                          /\ rid'[j] \notin spoilt' /\ rpc'[j] # "read" /\ h'[rid'[j]] = "ok" =>
                               place'[rid'[j]] = "collected"
        BY DEF ReadsLate
      <3>1. ReadsLate
        BY <1>0
      <3>2. rpc[j] = rpc'[j] /\ rid[j] = rid'[j] /\ spoilt' = spoilt /\ place' = place
        BY <2>1
      <3>3. /\ rid[j] \in Movers
            /\ rid[j] \notin spoilt => h[rid[j]] \in Answers \cup {"dead"}
            /\ rid[j] \notin spoilt /\ rpc[j] # "read" /\ h[rid[j]] = "ok" =>
                 place[rid[j]] = "collected"
        BY <3>1, <3>2 DEF ReadsLate
      <3>4. CASE rid[j] = m
        <4>1. h[m] \notin Answers \cup {"dead"}
          BY <2>1 DEF Answers
        <4> QED BY <3>2, <3>3, <3>4, <4>1
      <3>5. CASE rid[j] # m
        BY SMTT(100), <2>2, <3>2, <3>3, <3>5
      <3> QED BY <3>4, <3>5
    <2> QED BY <2>3, <2>4, <2>5, <2>6, <2>7, <2>8 DEF LinkInv
  <1>3. CASE Collect(m)
    <2>1. /\ UNCHANGED <<fs, pc, src, dest, want, stmp, h, path, crc, rpc, rid, spoilt>>
          /\ meta[m] = "full" /\ meta' = [meta EXCEPT ![m] = "none"]
          /\ Exists(DataFile(m)) /\ place' = [place EXCEPT ![m] = "collected"]
      BY <1>3 DEF Collect, InTransfers, moveVars, sendVars, readVars
    <2>2. /\ \A n \in Movers \ {m} : meta'[n] = meta[n] /\ place'[n] = place[n]
          /\ meta'[m] = "none" /\ place'[m] = "collected"
      BY <1>0, <2>1 DEF TransferTypeOK
    <2>3. TransferTypeOK'
      BY <1>0, <2>1 DEF TransferTypeOK
    <2>4. InStep' /\ SameArgs'
      BY <1>0, <2>1 DEF InStep, SameArgs
    <2>5. DataIsOwn'
      BY SMTT(100), <1>0, <2>1, <2>2 DEF DataIsOwn, Exists, Took
    <2>6. MetaInStep'
      BY SMTT(100), <1>0, <2>1, <2>2 DEF MetaInStep, MetaThere, Kept
    <2>7. ReadsLate'
      <3> SUFFICES ASSUME NEW j \in Readers, rpc'[j] \in {"read", "endeaden", "twin"}
                   PROVE  /\ rid'[j] \in Movers
                          /\ rid'[j] \notin spoilt' => h'[rid'[j]] \in Answers \cup {"dead"}
                          /\ rid'[j] \notin spoilt' /\ rpc'[j] # "read" /\ h'[rid'[j]] = "ok" =>
                               place'[rid'[j]] = "collected"
        BY DEF ReadsLate
      <3>1. ReadsLate
        BY <1>0
      <3>2. rpc[j] = rpc'[j] /\ rid[j] = rid'[j] /\ spoilt' = spoilt /\ h' = h
        BY <2>1
      <3>3. /\ rid[j] \in Movers
            /\ rid[j] \notin spoilt => h[rid[j]] \in Answers \cup {"dead"}
            /\ rid[j] \notin spoilt /\ rpc[j] # "read" /\ h[rid[j]] = "ok" =>
                 place[rid[j]] = "collected"
        BY <3>1, <3>2 DEF ReadsLate
      <3>4. \A n \in Movers : place[n] = "collected" => place'[n] = "collected"
        BY <2>2
      <3> QED BY <3>2, <3>3, <3>4
    <2> QED BY <2>3, <2>4, <2>5, <2>6, <2>7 DEF LinkInv
  <1> QED BY <1>1, <1>2, <1>3

LEMMA FlushKeeps ==
  ASSUME TransferInv, MoveTypeOK', NEW m \in Movers, FlushMeta(m)
  PROVE  LinkInv'
  <1>0. TransferTypeOK /\ InStep /\ SameArgs /\ DataIsOwn /\ MetaInStep /\ ReadsLate
    BY DEF TransferInv
  <1>1. /\ UNCHANGED <<fs, stmp, path, crc, place, rpc, rid>>
        /\ h[m] = "flush" /\ pc[m] = "idle"
    BY DEF FlushMeta, Handle, CallMove, Goto, temps, env
  <1>2. /\ \/ meta' = [meta EXCEPT ![m] = IF @ = "empty" THEN "full" ELSE @] /\ UNCHANGED spoilt
           \/ spoilt' = spoilt \cup {m} /\ UNCHANGED meta
        /\ h' = [h EXCEPT ![m] = "move"] /\ pc' = [pc EXCEPT ![m] = "access"]
        /\ src' = [src EXCEPT ![m] = path[m]] /\ dest' = [dest EXCEPT ![m] = DataFile(m)]
        /\ want' = [want EXCEPT ![m] = crc[m]]
    BY DEF FlushMeta, Handle, CallMove, Goto
  <1>3. /\ \A n \in Movers \ {m} : /\ h'[n] = h[n] /\ pc'[n] = pc[n] /\ src'[n] = src[n]
                                   /\ dest'[n] = dest[n] /\ want'[n] = want[n]
        /\ h'[m] = "move" /\ pc'[m] = "access"
        /\ src'[m] = path[m] /\ dest'[m] = DataFile(m) /\ want'[m] = crc[m]
    <2>1. /\ DOMAIN h = Movers /\ DOMAIN pc = Movers /\ DOMAIN src = Movers
          /\ DOMAIN dest = Movers /\ DOMAIN want = Movers
      BY <1>0 DEF TransferTypeOK, MoveTypeOK
    <2>2. /\ h' = [h EXCEPT ![m] = "move"] /\ pc' = [pc EXCEPT ![m] = "access"]
          /\ src' = [src EXCEPT ![m] = path[m]] /\ dest' = [dest EXCEPT ![m] = DataFile(m)]
          /\ want' = [want EXCEPT ![m] = crc[m]]
      BY <1>2
    <2> QED BY <2>1, <2>2
  <1>4. /\ \A n \in Movers \ {m} : meta'[n] = meta[n] /\ (n \in spoilt' <=> n \in spoilt)
        /\ m \in spoilt' \/ meta'[m] = "full" \/ meta[m] # "empty"
        /\ m \in spoilt => m \in spoilt'
    BY <1>0, <1>2 DEF TransferTypeOK
  <1>5. TransferTypeOK'
    BY <1>0, <1>1, <1>2 DEF TransferTypeOK, Working
  <1>6. InStep'
    <2>1. InStep
      BY <1>0
    <2>2. "move" \notin {"idle", "info", "open", "flush", "ok", "bad", "threw"}
      OBVIOUS
    <2> QED BY SMTT(100), <1>1, <1>3, <2>1, <2>2 DEF InStep
  <1>7. SameArgs'
    <2>1. SameArgs /\ "flush" \in Working
      BY <1>0 DEF Working
    <2> QED BY SMTT(100), <1>1, <1>3, <2>1 DEF SameArgs
  <1>8. ~Exists(DataFile(m)) /\ place[m] = "transfers"
    BY <1>0, <1>1 DEF DataIsOwn
  <1>9. DataIsOwn'
    <2>1. DataIsOwn /\ \A n \in Movers \ {m} : Took(n)' <=> Took(n)
      BY <1>0, <1>1, <1>3 DEF Took
    <2> QED BY <1>1, <1>3, <1>8, <2>1 DEF DataIsOwn, Exists
  <1>10. MetaInStep'
    <2>1. MetaInStep
      BY <1>0
    <2> QED BY SMTT(100), <1>1, <1>3, <1>4, <1>8, <2>1 DEF MetaInStep, MetaThere, Kept
  <1>11. ReadsLate'
    <2> SUFFICES ASSUME NEW j \in Readers, rpc'[j] \in {"read", "endeaden", "twin"}
                 PROVE  /\ rid'[j] \in Movers
                        /\ rid'[j] \notin spoilt' => h'[rid'[j]] \in Answers \cup {"dead"}
                        /\ rid'[j] \notin spoilt' /\ rpc'[j] # "read" /\ h'[rid'[j]] = "ok" =>
                             place'[rid'[j]] = "collected"
      BY DEF ReadsLate
    <2>1. ReadsLate
      BY <1>0
    <2> QED BY <2>1, <1>1, <1>3, <1>4 DEF ReadsLate, Answers
  <1> QED BY <1>5, <1>6, <1>7, <1>9, <1>10, <1>11 DEF LinkInv

LEMMA DieKeeps ==
  ASSUME TransferInv, MoveTypeOK', Die
  PROVE  LinkInv'
  <1>0. TransferTypeOK /\ InStep /\ SameArgs /\ DataIsOwn /\ MetaInStep /\ ReadsLate
    BY DEF TransferInv
  <1>1. UNCHANGED <<fs, src, dest, want, stmp, path, crc, meta, place, rid, spoilt>>
    BY DEF Die, env, args, temps
  <1>2. /\ \A n \in Movers : pc'[n] = IF pc[n] \in Busy THEN "dead" ELSE pc[n]
        /\ \A n \in Movers : h'[n] = IF h[n] \in Working THEN "dead" ELSE h[n]
        /\ \A k \in Readers : rpc'[k] = IF rpc[k] \in {"read", "endeaden", "twin"}
                                        THEN "dead" ELSE rpc[k]
    BY DEF Die
  <1>3. /\ "dead" \notin Busy \cup Working /\ "dead" \notin {"idle", "ok", "bad", "threw"}
        /\ \A v \in {"idle", "ok", "system", "runtime", "dead"} : v \notin Busy
        /\ \A v \in {"info", "open", "flush", "move"} : v \in Working
        /\ "drop" \in Busy
    BY DEF Busy, Working
  <1>4. TransferTypeOK'
    <2>1. /\ h' \in [Movers -> {"idle", "dead"} \cup Working \cup Answers]
          /\ rpc' \in [Readers -> {"idle", "read", "endeaden", "twin", "ok", "bad", "dead"}]
      BY <1>0 DEF Die, TransferTypeOK
    <2> QED BY <1>0, <1>1, <2>1 DEF TransferTypeOK
  <1>5. InStep'
    BY <1>0, <1>1, <1>2, <1>3 DEF InStep
  <1>6. SameArgs'
    BY <1>0, <1>1, <1>2, <1>3 DEF SameArgs
  <1>7. \A n \in Movers : Took(n) => Took(n)'
    BY <1>1, <1>2, <1>3 DEF Took
  <1>8. DataIsOwn'
    BY <1>0, <1>1, <1>2, <1>3, <1>7 DEF DataIsOwn, Exists
  <1>9. MetaInStep'
    BY <1>0, <1>1, <1>2, <1>3 DEF MetaInStep, MetaThere, Kept
  <1>10. ReadsLate'
    BY <1>0, <1>1, <1>2, <1>3 DEF ReadsLate, Answers
  <1> QED BY <1>4, <1>5, <1>6, <1>8, <1>9, <1>10 DEF LinkInv

LEMMA ReadsKeep ==
  ASSUME TransferInv, MoveTypeOK', NEW k \in Readers,
         \/ \E m \in Movers : AskMeta(k, m)
         \/ ReadMeta(k) \/ EndeadenMeta(k) \/ EndeadenTwin(k)
  PROVE  LinkInv'
  <1>0. TransferTypeOK /\ InStep /\ SameArgs /\ DataIsOwn /\ MetaInStep /\ ReadsLate
    BY DEF TransferInv
  <1>1. UNCHANGED <<fs, pc, src, dest, want, stmp, h, path, crc>>
    BY DEF AskMeta, ReadMeta, EndeadenMeta, EndeadenTwin, moveVars, sendVars
  <1>2. InStep' /\ SameArgs'
    BY <1>0, <1>1 DEF InStep, SameArgs
  <1>3. ASSUME NEW m \in Movers, AskMeta(k, m) PROVE LinkInv'
    <2>1. /\ UNCHANGED <<meta, place>> /\ rpc[k] = "idle"
          /\ rpc' = [rpc EXCEPT ![k] = "read"] /\ rid' = [rid EXCEPT ![k] = m]
          /\ spoilt' = IF h[m] \in Working THEN spoilt \cup {m} ELSE spoilt
          /\ h[m] \notin {"idle", "info", "open"}
      BY <1>3 DEF AskMeta
    <2>2. /\ \A j \in Readers \ {k} : rpc'[j] = rpc[j] /\ rid'[j] = rid[j]
          /\ rpc'[k] = "read" /\ rid'[k] = m
      BY <1>0, <2>1 DEF TransferTypeOK
    <2>3. /\ \A n : n \in spoilt => n \in spoilt'
          /\ m \notin spoilt' => h[m] \notin Working
          /\ h[m] \in {"idle", "dead"} \cup Working \cup Answers
      BY <1>0, <2>1 DEF TransferTypeOK
    <2>4. TransferTypeOK'
      BY <1>0, <1>1, <2>1 DEF TransferTypeOK
    <2>5. DataIsOwn'
      BY <1>0, <1>1, <2>1 DEF DataIsOwn, Exists, Took
    <2>6. MetaInStep'
      BY <1>0, <1>1, <2>1, <2>3 DEF MetaInStep, MetaThere, Kept
    <2>7. ReadsLate'
      BY SMTT(100), <1>0, <1>1, <2>1, <2>2, <2>3 DEF ReadsLate
    <2> QED BY <1>2, <2>4, <2>5, <2>6, <2>7 DEF LinkInv
  <1>4. CASE ReadMeta(k)
    <2>1. /\ UNCHANGED <<meta, place, rid, spoilt>> /\ rpc[k] = "read"
          /\ rpc' = [rpc EXCEPT ![k] = IF meta[rid[k]] = "full" THEN "ok" ELSE "endeaden"]
      BY <1>4 DEF ReadMeta
    <2>2. /\ \A j \in Readers \ {k} : rpc'[j] = rpc[j]
          /\ rpc'[k] = IF meta[rid[k]] = "full" THEN "ok" ELSE "endeaden"
      BY <1>0, <2>1 DEF TransferTypeOK
    <2>3. TransferTypeOK'
      BY <1>0, <1>1, <2>1 DEF TransferTypeOK
    <2>4. DataIsOwn' /\ MetaInStep'
      BY <1>0, <1>1, <2>1 DEF DataIsOwn, Exists, Took, MetaInStep, MetaThere, Kept
    <2>5. /\ rid[k] \in Movers
          /\ rid[k] \notin spoilt /\ h[rid[k]] = "ok" /\ meta[rid[k]] # "full" =>
               place[rid[k]] = "collected"
      BY <1>0, <2>1 DEF ReadsLate, MetaInStep, Kept
    <2>6. ReadsLate'
      BY SMTT(100), <1>0, <1>1, <2>1, <2>2, <2>5 DEF ReadsLate
    <2> QED BY <1>2, <2>3, <2>4, <2>6 DEF LinkInv
  <1>5. CASE EndeadenMeta(k)
    <2>1. /\ UNCHANGED <<place, rid, spoilt>> /\ rpc[k] = "endeaden"
          /\ rpc' = [rpc EXCEPT ![k] = "twin"]
          /\ meta' = [meta EXCEPT ![rid[k]] = IF MetaThere(rid[k]) THEN "dead" ELSE @]
      BY <1>5 DEF EndeadenMeta
    <2>2. /\ rid[k] \in Movers
          /\ rid[k] \notin spoilt => h[rid[k]] \in Answers \cup {"dead"}
          /\ rid[k] \notin spoilt /\ h[rid[k]] = "ok" => place[rid[k]] = "collected"
      BY <1>0, <2>1 DEF ReadsLate
    <2>3. /\ \A j \in Readers \ {k} : rpc'[j] = rpc[j]
          /\ rpc'[k] = "twin"
          /\ \A n \in Movers \ {rid[k]} : meta'[n] = meta[n]
          /\ meta'[rid[k]] \notin {"empty", "full"}
          /\ meta[rid[k]] = "none" => meta'[rid[k]] = "none"
      BY <1>0, <2>1, <2>2 DEF TransferTypeOK, MetaThere
    <2>4. TransferTypeOK'
      BY <1>0, <1>1, <2>1, <2>2 DEF TransferTypeOK
    <2>5. DataIsOwn'
      BY <1>0, <1>1, <2>1 DEF DataIsOwn, Exists, Took
    <2>6. MetaInStep'
      <3>1. MetaInStep /\ h' = h /\ spoilt' = spoilt /\ place' = place
        BY <1>0, <1>1, <2>1
      <3>2. rid[k] \notin spoilt => h[rid[k]] \notin {"flush", "move"}
        BY <2>2 DEF Answers
      <3> SUFFICES ASSUME NEW n \in Movers
                   PROVE  /\ h[n] \in {"idle", "info", "open"} => meta'[n] = "none"
                          /\ h[n] = "bad" => meta'[n] \notin {"empty", "full"}
                          /\ n \notin spoilt /\ h[n] = "flush" => meta'[n] = "empty"
                          /\ n \notin spoilt /\ h[n] \in {"move", "ok"} =>
                               \/ meta'[n] = "full" /\ place[n] = "transfers"
                               \/ place[n] = "collected"
        BY <3>1 DEF MetaInStep, MetaThere, Kept
      <3>3. /\ h[n] \in {"idle", "info", "open"} => meta[n] = "none"
            /\ h[n] = "bad" => meta[n] \notin {"empty", "full"}
            /\ n \notin spoilt /\ h[n] = "flush" => meta[n] = "empty"
            /\ n \notin spoilt /\ h[n] \in {"move", "ok"} =>
                 (meta[n] = "full" /\ place[n] = "transfers") \/ place[n] = "collected"
        BY <3>1 DEF MetaInStep, MetaThere, Kept
      <3>4. CASE n = rid[k]
        BY <2>2, <2>3, <3>2, <3>3, <3>4
      <3>5. CASE n # rid[k]
        BY <2>3, <3>3, <3>5
      <3> QED BY <3>4, <3>5
    <2>7. ReadsLate'
      BY SMTT(100), <1>0, <1>1, <2>1, <2>2, <2>3 DEF ReadsLate
    <2> QED BY <1>2, <2>4, <2>5, <2>6, <2>7 DEF LinkInv
  <1>6. CASE EndeadenTwin(k)
    <2>1. /\ UNCHANGED <<meta, rid, spoilt>> /\ rpc[k] = "twin"
          /\ rpc' = [rpc EXCEPT ![k] = "bad"]
          /\ place' = [place EXCEPT ![rid[k]] = IF InTransfers(rid[k]) THEN "dead" ELSE @]
      BY <1>6 DEF EndeadenTwin
    <2>2. /\ rid[k] \in Movers
          /\ rid[k] \notin spoilt => h[rid[k]] \in Answers \cup {"dead"}
          /\ rid[k] \notin spoilt /\ h[rid[k]] = "ok" => place[rid[k]] = "collected"
      BY <1>0, <2>1 DEF ReadsLate
    <2>3. /\ \A j \in Readers \ {k} : rpc'[j] = rpc[j]
          /\ rpc'[k] = "bad"
          /\ \A n \in Movers \ {rid[k]} : place'[n] = place[n]
          /\ place[rid[k]] = "collected" => place'[rid[k]] = "collected"
          /\ place'[rid[k]] # place[rid[k]] => Exists(DataFile(rid[k]))
      BY <1>0, <2>1, <2>2 DEF TransferTypeOK, InTransfers
    <2>4. TransferTypeOK'
      BY <1>0, <1>1, <2>1, <2>2 DEF TransferTypeOK
    <2>5. DataIsOwn'
      BY SMTT(100), <1>0, <1>1, <2>1, <2>2, <2>3 DEF DataIsOwn, Exists, Took
    <2>6. MetaInStep'
      BY SMTT(100), <1>0, <1>1, <2>1, <2>2, <2>3
         DEF MetaInStep, MetaThere, Kept, Answers
    <2>7. ReadsLate'
      <3> SUFFICES ASSUME NEW j \in Readers, rpc'[j] \in {"read", "endeaden", "twin"}
                   PROVE  /\ rid'[j] \in Movers
                          /\ rid'[j] \notin spoilt' => h'[rid'[j]] \in Answers \cup {"dead"}
                          /\ rid'[j] \notin spoilt' /\ rpc'[j] # "read" /\ h'[rid'[j]] = "ok" =>
                               place'[rid'[j]] = "collected"
        BY DEF ReadsLate
      <3>1. ReadsLate
        BY <1>0
      <3>2. j # k /\ rpc[j] = rpc'[j]
        BY <2>3
      <3>3. /\ rid[j] \in Movers
            /\ rid[j] \notin spoilt => h[rid[j]] \in Answers \cup {"dead"}
            /\ rid[j] \notin spoilt /\ rpc[j] # "read" /\ h[rid[j]] = "ok" =>
                 place[rid[j]] = "collected"
        BY <3>1, <3>2 DEF ReadsLate
      <3>4. rid' = rid /\ spoilt' = spoilt /\ h' = h
        BY <1>1, <2>1
      <3>5. \A n \in Movers : place[n] = "collected" => place'[n] = "collected"
        BY <2>3
      <3> QED BY <3>2, <3>3, <3>4, <3>5
    <2> QED BY <1>2, <2>4, <2>5, <2>6, <2>7 DEF LinkInv
  <1> QED BY <1>3, <1>4, <1>5, <1>6

-----------------------------------------------------------------------------
\* A step of a call touches its own state and paths only, and its destination
\* only as it publishes.
LEMMA StepFrame ==
  ASSUME MoveInv, NEW m \in Movers, MoveStep(m)
  PROVE  /\ pc[m] \in Busy /\ pc'[m] \in Busy \cup Returned
         /\ pc[m] = "drop" => pc'[m] = "ok"
         /\ UNCHANGED args
         /\ \A n \in Movers \ {m} : pc'[n] = pc[n] /\ stmp'[n] = stmp[n]
         /\ \A x \in Names \ {src[m], dest[m]} : fs'[x] = fs[x]
  <1> USE DEF MoveInv, BasicInv, MoveTypeOK, Goto, args, temps, env, Busy, Returned
  <1>1. CASE QuietStep(m)
    <2>1. UNCHANGED <<fs, args, temps>>
      BY <1>1 DEF QuietStep, CheckDest, Precheck, RenameFails, RenameCrossDevice,
                              NoSpace, StashFails, Verify
    <2>2. \E a \in Busy \ {"drop"}, b \in Busy \cup Returned : Goto(m, a, b)
      BY <1>1 DEF QuietStep, CheckDest, Precheck, RenameFails, RenameCrossDevice,
                            NoSpace, StashFails, Verify
    <2> QED BY SMTT(100), <2>1, <2>2
  <1>2. CASE RenameSame(m) \/ Stash(m) \/ Publish(m)
    BY SMTT(100), <1>2 DEF RenameSame, Stash, Publish
  <1>3. CASE Revert(m)
    BY SMTT(100), <1>3 DEF Revert, CopyIsGood
  <1>4. CASE \/ MakeTempDir(m) \/ MakeTemp(m) \/ MakeTempFails(m) \/ OpenFails(m)
             \/ Copy(m) \/ VerifyFails(m) \/ Drop(m)
    BY SMTT(100), <1>4 DEF MakeTempDir, MakeTemp, MakeTempFails, OpenFails, Copy, VerifyFails, Drop,
                Throw
  <1> HIDE DEF BasicInv, MoveTypeOK, Goto, args, temps, env, Busy, Returned
  <1> QED BY StepKinds, <1>1, <1>2, <1>3, <1>4

LEMMA StepPublishes ==
  ASSUME MoveInv, NEW m \in Movers, MoveStep(m), fs'[dest[m]] # fs[dest[m]]
  PROVE  RenameSame(m) \/ Publish(m)
  <1> USE DEF MoveInv, BasicInv, MoveTypeOK
  <1>1. QuietStep(m) => UNCHANGED fs
    BY DEF QuietStep, CheckDest, Precheck, RenameFails, RenameCrossDevice, NoSpace,
           StashFails, Verify
  <1>2. (\/ MakeTempDir(m) \/ MakeTemp(m) \/ MakeTempFails(m) \/ OpenFails(m)
         \/ Copy(m) \/ VerifyFails(m) \/ Drop(m)) => UNCHANGED fs
    BY DEF MakeTempDir, MakeTemp, MakeTempFails, OpenFails, Copy, VerifyFails, Drop, Throw
  <1>3. ASSUME Stash(m) \/ Revert(m) PROVE fs'[dest[m]] = fs[dest[m]]
    <2>1. pc[m] # "idle" /\ ArgsSet
      BY <1>3 DEF Stash, Revert, Goto
    <2>2. src[m] \in Srcs /\ dest[m] \in Dests[m]
      BY <2>1 DEF ArgsSet
    <2>3. dest[m] \in Names /\ dest[m] \notin Srcs
      BY SMTT(100), <2>2, MoveAssumption DEF AllDests, Names
    <2> QED BY <1>3, <2>2, <2>3 DEF Stash, Revert
  <1> HIDE DEF BasicInv, MoveTypeOK
  <1> QED BY StepKinds, <1>1, <1>2, <1>3

LEMMA MoveDataKeeps ==
  ASSUME "publish" \notin Faults, TransferInv, MoveInv', NEW m \in Movers, MoveData(m)
  PROVE  LinkInv'
  <1>1. MoveStep(m) /\ UNCHANGED boxVars /\ MoveInv
    BY DEF MoveData, TransferInv
  <1>2. h[m] = "move" /\ dest[m] = DataFile(m) /\ want[m] = crc[m] /\ src[m] = path[m]
        /\ src[m] \in Srcs
    BY <1>1, StepFrame DEF TransferInv, InStep, SameArgs, Busy, Working
  <1>3. \A n \in Movers \ {m} : fs'[DataFile(n)] = fs[DataFile(n)]
    BY SMTT(100), <1>1, <1>2, StepFrame, DataFiles
  <1>4. TransferTypeOK'
    BY <1>1 DEF TransferInv, TransferTypeOK, MoveInv, BasicInv, boxVars
  <1>5. InStep'
    BY SMTT(100), <1>1, <1>2, StepFrame DEF TransferInv, InStep, boxVars
  <1>6. SameArgs'
    BY SMTT(100), <1>1, <1>2, StepFrame DEF TransferInv, SameArgs, boxVars, args
  <1>7. DataIsOwn'
    <2>1. Exists(DataFile(m))' => pc'[m] \in {"drop", "ok"}
      <3>1. CASE fs'[DataFile(m)] = fs[DataFile(m)]
        BY <1>1, <3>1, StepFrame DEF TransferInv, DataIsOwn, Exists, Busy
      <3>2. CASE fs'[DataFile(m)] # fs[DataFile(m)]
        <4>1. RenameSame(m) \/ Publish(m)
          BY <1>1, <1>2, <3>2, StepPublishes
        <4> QED BY <1>1, <4>1
                DEF RenameSame, Publish, Goto, MoveInv, BasicInv, MoveTypeOK
      <3> QED BY <3>1, <3>2
    <2>2. pc'[m] \in {"drop", "ok"} => Took(m)' /\ Crc[fs'[DataFile(m)]] = crc'[m]
      <3>1. dest'[m] = DataFile(m) /\ want'[m] = crc'[m]
        BY <1>1, <1>2, StepFrame DEF args, boxVars
      <3>2. CopyIsGood' /\ Published'
        BY DEF MoveInv, BasicInv
      <3> QED BY <3>1, <3>2 DEF CopyIsGood, Published, Holding, Took
    <2>3. Exists(DataFile(m)) => Exists(DataFile(m))'
      <3>1. MoveNext
        BY <1>1 DEF MoveNext
      <3> QED BY <1>1, <3>1, DestWriters, SendsUndisturbed, DataFiles DEF Exists
    <2>4. \A n \in Movers \ {m} : Took(n)' <=> Took(n)
      BY <1>1, StepFrame DEF Took
    <2>5. UNCHANGED <<place, crc>> /\ DataIsOwn
      BY <1>1 DEF boxVars, TransferInv
    <2>6. \A n \in Movers \ {m} : pc'[n] = pc[n]
      BY <1>1, StepFrame
    <2> QED BY SMTT(100), <1>3, <2>1, <2>2, <2>3, <2>4, <2>5, <2>6 DEF DataIsOwn, Exists
  <1>8. MetaInStep'
    BY <1>1 DEF TransferInv, MetaInStep, MetaThere, Kept, boxVars
  <1>9. ReadsLate'
    BY <1>1 DEF TransferInv, ReadsLate, boxVars
  <1> QED BY <1>4, <1>5, <1>6, <1>7, <1>8, <1>9 DEF LinkInv

LEMMA TransferStep ==
  ASSUME "publish" \notin Faults
  PROVE  TransferInv /\ [TransferNext]_transferVars => TransferInv'
  <1> SUFFICES ASSUME TransferInv, [TransferNext]_transferVars PROVE TransferInv'
    OBVIOUS
  <1>1. MoveInv' /\ MoveTypeOK'
    BY MoveInvKept
  <1>2. CASE TransferNext
    <2>1. LinkInv'
      BY <1>1, <1>2, NextKinds, HandlerOnlyKeeps, PairsKeep, FlushKeeps, MoveDataKeeps,
         ReadsKeep, DieKeeps
    <2> QED BY <1>1, <2>1 DEF LinkInv, TransferInv
  <1>3. CASE UNCHANGED transferVars
    <2> USE <1>3 DEF transferVars, moveVars, boxVars, TransferInv
    <2>1. (TransferTypeOK /\ InStep /\ SameArgs)'
      BY <1>1 DEF TransferTypeOK, InStep, SameArgs
    <2>2. (DataIsOwn /\ MetaInStep /\ ReadsLate)'
      BY SMTT(100) DEF DataIsOwn, MetaInStep, ReadsLate, Exists, Took, MetaThere, Kept
    <2> QED BY <1>1, <2>1, <2>2
  <1> QED BY <1>2, <1>3

-----------------------------------------------------------------------------
\* What send_file, meta and the collector do to the files in move_file's hands
\* is what move_file does: the theorems of MoveFileProofs hold of the whole.
THEOREM SendsAreMoves ==
  ASSUME "publish" \notin Faults PROVE TransferSpec => MoveSpec
  <1>1. TransferInit => MoveInit
    BY DEF TransferInit
  <1>2. TransferInv /\ [TransferNext]_transferVars => [MoveNext]_moveVars
    BY MoveSimulated
  <1> QED BY TransferStart, TransferStep, <1>1, <1>2, PTL DEF TransferSpec, MoveSpec

\* The variables of the handlers keep their types.
THEOREM TransferTypeCorrect ==
  ASSUME "publish" \notin Faults PROVE TransferSpec => []TransferTypeOK
  <1>1. TransferInv => TransferTypeOK
    BY DEF TransferInv
  <1> QED BY TransferStart, TransferStep, <1>1, PTL DEF TransferSpec

\* No file given to send_file is lost, whatever the handlers, the collector and
\* crashes of the process do.
THEOREM NothingSentIsLost ==
  ASSUME "publish" \notin Faults PROVE TransferSpec => []Conserved
  BY SendsAreMoves, NothingIsLost, SendsUndisturbed, PTL

\* What the collector ships has the checksum its metadata records.
THEOREM ShipsWhatItSays ==
  ASSUME "publish" \notin Faults PROVE TransferSpec => []ShippedMatches
  <1>1. TransferInv => ShippedMatches
    BY DEF TransferInv, DataIsOwn, ShippedMatches
  <1> QED BY TransferStart, TransferStep, <1>1, PTL DEF TransferSpec

\* A request answered with an error leaves nothing in the transfers directory.
THEOREM ErrorsCleanUp ==
  ASSUME "publish" \notin Faults PROVE TransferSpec => []BadLeavesNothing
  <1>1. TransferInv => BadLeavesNothing
    BY DEF TransferInv, InStep, DataIsOwn, MetaInStep, BadLeavesNothing, InTransfers
  <1> QED BY TransferStart, TransferStep, <1>1, PTL DEF TransferSpec

\* An acknowledged transfer is collected or there to be collected, unless its
\* metadata was asked for too early or lost by the flush.
THEOREM AcksAreKept ==
  ASSUME "publish" \notin Faults PROVE TransferSpec => []AckedComplete
  <1>1. ASSUME TransferInv, NEW m \in Movers, h[m] = "ok", m \notin spoilt
        PROVE  place[m] = "collected" \/ Complete(m)
    <2>1. Kept(m) /\ pc[m] = "ok" /\ dest[m] = DataFile(m)
      BY <1>1 DEF TransferInv, InStep, SameArgs, MetaInStep
    <2>2. Exists(DataFile(m))
      BY <1>1, <2>1 DEF TransferInv, MoveInv, Published
    <2> QED BY <2>1, <2>2 DEF Kept, Complete, InTransfers
  <1>2. TransferInv => AckedComplete
    BY <1>1 DEF AckedComplete
  <1> QED BY TransferStart, TransferStep, <1>2, PTL DEF TransferSpec

\* A request that failed has left its file where it was, unless another request
\* has it, provided the rename of move_file's catch block does not fail.
THEOREM FailuresKeepFiles ==
  ASSUME "publish" \notin Faults, "revert" \notin Faults
  PROVE  TransferSpec => []UnsentKept
  <1>1. ASSUME TransferInv, NEW m \in Movers, h[m] \in {"bad", "threw"}, path[m] # None,
               fs[path[m]] # orig[path[m]]
        PROVE  \E n \in Movers \ {m} : src[n] = path[m] /\ Took(n)
    <2>0. InStep /\ path \in [Movers -> Srcs \cup {None}]
      BY <1>1 DEF TransferInv, TransferTypeOK
    <2>1. path[m] \in Srcs /\ pc[m] \in {"idle", "system", "runtime"}
      BY <1>1, <2>0 DEF InStep
    <2>2. stmp[m] = None
      BY <1>1, <2>1 DEF TransferInv, MoveInv, StashIsSource
    <2>3. orig[path[m]] # None
      BY <1>1, <2>1 DEF TransferInv, MoveInv, SrcsIntact
    <2>4. PICK n \in Movers : src[n] = path[m] /\
                 (stmp[n] = orig[path[m]] \/ Delivered(n, orig[path[m]]))
      BY <1>1, <2>1, <2>3 DEF TransferInv, MoveInv, Conserved
    <2>5. n # m /\ Took(n)
      BY <2>1, <2>2, <2>3, <2>4 DEF Delivered, Took
    <2> QED BY <2>4, <2>5
  <1>2. TransferInv => UnsentKept
    BY <1>1 DEF UnsentKept
  <1> QED BY TransferStart, TransferStep, <1>2, PTL DEF TransferSpec

\* An application can rely on the answers of send_file: the four theorems above.
THEOREM AnswersCanBeTrusted ==
  ASSUME "publish" \notin Faults, "revert" \notin Faults
  PROVE  TransferSpec => []AnswersHold
  <1>1. ShippedMatches /\ AckedComplete /\ BadLeavesNothing /\ UnsentKept => AnswersHold
    BY DEF AnswersHold
  <1> QED BY ShipsWhatItSays, AcksAreKept, ErrorsCleanUp, FailuresKeepFiles, <1>1, PTL

-----------------------------------------------------------------------------
(***************************************************************************)
(* Transfers implements Outbox.                                            *)
(***************************************************************************)
LEMMA OutboxStart == TransferInit => O!OutboxInit
  <1> SUFFICES ASSUME TransferInit PROVE O!OutboxInit
    OBVIOUS
  <1>1. \A m \in Movers : ~Sent(m)
    BY DataFiles DEF TransferInit, Sent, Exists
  <1> QED BY <1>1 DEF O!OutboxInit, Used, Box

\* While no file appears at a data path, all that can happen to the offers is
\* that the one whose files are touched is withdrawn.
LEMMA OutboxQuiet ==
  ASSUME TransferInv, UNCHANGED fs, NEW m \in Movers,
         \A n \in Movers : Sent(n) => src'[n] = src[n],
         \A n \in Movers \ {m} : meta'[n] = meta[n] /\ place'[n] = place[n],
         Sent(m) /\ ~Complete(m) => ~Complete(m)'
  PROVE  [O!OutboxNext]_(O!outboxVars)
  <1>1. \A n \in Movers : Sent(n)' <=> Sent(n)
    BY DEF Sent, Exists
  <1>2. Used' = Used
    BY <1>1 DEF Used
  <1>3. \A n \in Movers \ {m} : Box'[n] = Box[n]
    BY <1>1 DEF Box, Complete, InTransfers, Exists
  <1>4. CASE Sent(m) /\ Complete(m) /\ ~Complete(m)'
    <2>1. Box[m] = src[m] /\ src[m] \in Srcs
      BY <1>4 DEF Box, TransferInv, DataIsOwn, Sent, MoveInv, BasicInv, ArgsSet
    <2>2. Box' = [Box EXCEPT ![m] = "after"]
      BY <1>1, <1>3, <1>4 DEF Box
    <2> QED BY <1>2, <2>1, <2>2 DEF O!OutboxNext, O!Withdraw
  <1>5. CASE ~(Sent(m) /\ Complete(m) /\ ~Complete(m)')
    <2>1. Box'[m] = Box[m]
      BY <1>1, <1>5 DEF Box
    <2>2. Box' = Box
      BY <1>3, <2>1 DEF Box
    <2> QED BY <1>2, <2>2 DEF O!outboxVars
  <1> QED BY <1>4, <1>5

\* A file appears at the data path of a request: it was no other request's.
LEMMA OutboxOffer ==
  ASSUME "publish" \notin Faults, TransferInv, MoveInv', NEW m \in Movers, MoveData(m)
  PROVE  [O!OutboxNext]_(O!outboxVars)
  <1>1. MoveStep(m) /\ UNCHANGED boxVars /\ MoveInv
    BY DEF MoveData, TransferInv
  <1>0. InStep /\ SameArgs /\ pc[m] \in Busy /\ UNCHANGED args
    BY <1>1, StepFrame DEF TransferInv
  <1>2. dest[m] = DataFile(m) /\ src[m] \in Srcs /\ UNCHANGED src
    BY <1>0 DEF InStep, SameArgs, Busy, Working, args
  <1>3. \A n \in Movers \ {m} : fs'[DataFile(n)] = fs[DataFile(n)]
    BY SMTT(100), <1>1, <1>2, StepFrame, DataFiles
  <1>4. \A n \in Movers \ {m} : (Sent(n)' <=> Sent(n)) /\ (Complete(n)' <=> Complete(n))
    BY <1>1, <1>3 DEF Sent, Exists, Complete, InTransfers, boxVars
  <1>5. \A n \in Movers \ {m} : Box'[n] = Box[n]
    BY <1>2, <1>4 DEF Box
  <1>6. CASE fs'[DataFile(m)] = fs[DataFile(m)]
    <2>1. (Sent(m)' <=> Sent(m)) /\ (Complete(m)' <=> Complete(m))
      BY <1>1, <1>6 DEF Sent, Exists, Complete, InTransfers, boxVars
    <2>2. Used' = Used
      BY <1>2, <1>4, <2>1 DEF Used
    <2>3. Box' = Box
      BY <1>2, <1>5, <2>1 DEF Box
    <2> QED BY <2>2, <2>3 DEF O!outboxVars
  <1>7. CASE fs'[DataFile(m)] # fs[DataFile(m)]
    <2>1. RenameSame(m) \/ Publish(m)
      BY <1>1, <1>2, <1>7, StepPublishes
    <2>2. MoveNext
      BY <1>1 DEF MoveNext
    <2>3. ~Sent(m) /\ Sent(m)'
      BY <1>1, <1>7, <2>2, DestWriters, SendsUndisturbed, DataFiles DEF Sent, Exists
    <2>4. src[m] \notin Used
      <3>1. \A n \in Movers : Sent(n) => Took(n) /\ n # m
        BY <2>3 DEF Sent, TransferInv, DataIsOwn
      <3>2. Exists(src[m]) \/ Took(m)
        <4>1. CopyIsGood
          BY <1>1 DEF MoveInv, BasicInv
        <4> QED BY <2>1, <4>1 DEF RenameSame, Publish, Goto, Took, CopyIsGood, Holding
      <3>3. \A n \in Movers : Took(n) /\ n # m => src[n] # src[m]
        <4>1. Exclusive
          BY <1>1 DEF MoveInv
        <4> QED BY <3>2, <4>1 DEF Exclusive, Exists
      <3> QED BY <3>1, <3>3 DEF Used
    <2>5. Used' = Used \cup {src[m]}
      BY <1>2, <1>4, <2>3 DEF Used
    <2>6. Box[m] = "before"
      BY <2>3 DEF Box
    <2>7. CASE Complete(m)'
      <3>1. Box' = [Box EXCEPT ![m] = src[m]]
        BY <1>2, <1>5, <2>3, <2>7 DEF Box
      <3> QED BY <1>2, <2>4, <2>5, <2>6, <3>1 DEF O!OutboxNext, O!Offer
    <2>8. CASE ~Complete(m)'
      <3>1. Box' = [Box EXCEPT ![m] = "after"]
        BY <1>5, <2>3, <2>8 DEF Box
      <3> QED BY <1>2, <2>4, <2>5, <2>6, <3>1 DEF O!OutboxNext, O!Miss
    <2> QED BY <2>7, <2>8
  <1> QED BY <1>6, <1>7

LEMMA OutboxStep ==
  ASSUME "publish" \notin Faults, TransferInv, [TransferNext]_transferVars
  PROVE  [O!OutboxNext]_(O!outboxVars)
  <1>0. /\ meta \in [Movers -> {"none", "empty", "full", "dead"}]
        /\ place \in [Movers -> {"transfers", "collected", "dead"}]
    BY DEF TransferInv, TransferTypeOK
  <1>1. ASSUME NEW m \in Movers, HandlerOnly(m)
        PROVE  [O!OutboxNext]_(O!outboxVars)
    <2>1. UNCHANGED <<fs, src, meta, place>>
      BY <1>1 DEF HandlerOnly, Refuse, Accept, FileInfo, FileInfoFails, OpenMetaFails,
                  AnswerOk, AnswerThrows, moveVars
    <2> QED BY <2>1, OutboxQuiet DEF Complete, InTransfers, Exists
  <1>2. ASSUME NEW m \in Movers, OpenMeta(m) \/ AnswerBad(m) \/ Collect(m)
        PROVE  [O!OutboxNext]_(O!outboxVars)
    <2>1. UNCHANGED <<fs, src>> /\ \A n \in Movers \ {m} : meta'[n] = meta[n] /\ place'[n] = place[n]
      BY <1>0, <1>2 DEF OpenMeta, AnswerBad, Collect, moveVars
    <2>2. meta'[m] # "full"  \/  UNCHANGED <<meta, place>>
      BY <1>0, <1>2 DEF OpenMeta, AnswerBad, Collect, MetaThere
    <2>3. ~Complete(m) => ~Complete(m)'
      BY <2>1, <2>2 DEF Complete, InTransfers, Exists
    <2> QED BY <2>1, <2>3, OutboxQuiet
  <1>3. ASSUME NEW m \in Movers, FlushMeta(m)
        PROVE  [O!OutboxNext]_(O!outboxVars)
    <2>1. UNCHANGED <<fs, place>> /\ \A n \in Movers \ {m} : meta'[n] = meta[n] /\ src'[n] = src[n]
      BY SMTT(100), <1>3 DEF FlushMeta, CallMove, TransferInv, TransferTypeOK, MoveTypeOK
    <2>2. ~Sent(m)
      BY <1>3 DEF FlushMeta, CallMove, Goto, Sent, TransferInv, DataIsOwn
    <2> QED BY <2>1, <2>2, OutboxQuiet
  <1>4. ASSUME NEW m \in Movers, MoveData(m)
        PROVE  [O!OutboxNext]_(O!outboxVars)
    <2>1. MoveInv'
      BY MoveInvKept
    <2> QED BY <1>4, <2>1, OutboxOffer
  <1>5. ASSUME NEW k \in Readers, ReadMeta(k) \/ \E m \in Movers : AskMeta(k, m)
        PROVE  [O!OutboxNext]_(O!outboxVars)
    <2>1. UNCHANGED <<fs, src, meta, place>>
      BY <1>5 DEF ReadMeta, AskMeta, moveVars
    <2> QED BY <2>1 DEF O!outboxVars, Used, Box, Sent, Complete, InTransfers, Exists
  <1>6. ASSUME NEW k \in Readers, EndeadenMeta(k) \/ EndeadenTwin(k)
        PROVE  [O!OutboxNext]_(O!outboxVars)
    <2>1. PICK m \in Movers : m = rid[k]
      BY <1>6 DEF TransferInv, ReadsLate, EndeadenMeta, EndeadenTwin
    <2>2. UNCHANGED <<fs, src>> /\ \A n \in Movers \ {m} : meta'[n] = meta[n] /\ place'[n] = place[n]
      BY <1>0, <1>6, <2>1 DEF EndeadenMeta, EndeadenTwin, moveVars
    <2>3. /\ meta'[m] = "full" => meta[m] = "full"
          /\ place'[m] = "transfers" => place[m] = "transfers"
      BY <1>0, <1>6, <2>1 DEF EndeadenMeta, EndeadenTwin
    <2>4. ~Complete(m) => ~Complete(m)'
      BY <2>2, <2>3 DEF Complete, InTransfers, Exists
    <2> QED BY <2>2, <2>4, OutboxQuiet
  <1>7. CASE Die \/ UNCHANGED transferVars
    <2>1. UNCHANGED <<fs, src, meta, place>>
      BY <1>7 DEF Die, args, transferVars, moveVars, boxVars
    <2> QED BY <2>1 DEF O!outboxVars, Used, Box, Sent, Complete, InTransfers, Exists
  <1> QED BY NextKinds, <1>1, <1>2, <1>3, <1>4, <1>5, <1>6, <1>7

\* Whatever requests, collector and crashes do, a file is offered by one request
\* only, in one step and once.
THEOREM TransfersImplementOutbox ==
  ASSUME "publish" \notin Faults PROVE TransferSpec => OffersOnce
  <1>1. TransferInv /\ [TransferNext]_transferVars => [O!OutboxNext]_(O!outboxVars)
    BY OutboxStep
  <1> QED BY TransferStart, TransferStep, OutboxStart, <1>1, PTL
          DEF TransferSpec, OffersOnce, O!OutboxSpec
=============================================================================
