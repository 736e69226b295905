----------------------------- MODULE Transfers ------------------------------
(***************************************************************************)
(* The way down: Agent::send_file and Agent::meta of Agent.cpp around the  *)
(* calls of move_file, and the collector that takes what is sent.          *)
(*                                                                         *)
(* A request is a mover of MoveFile.  Its random identifier is its own, so *)
(* it names a pair of files nobody else writes: the data file is the one   *)
(* destination the request has in MoveFile, the meta file is meta[m].      *)
(* What becomes of a data file after move_file has put it in the transfers *)
(* directory is place[m], which leaves the variables of MoveFile to        *)
(* move_file: every behaviour of this module is one of MoveFile.           *)
(***************************************************************************)
EXTENDS MoveFile

CONSTANTS
  Readers,    \* requests for the metadata of a transfer, one each
  MetaFaults  \* failures of the meta file: {"open", "flush"} or less

ASSUME TransferAssumption ==
  /\ PrivateDests
  /\ \A m \in Movers : \E d \in Dests[m] : Dests[m] = {d}
  /\ Rewrites = {}
  /\ MetaFaults \subseteq {"open", "flush"}

VARIABLES
  h,       \* h[m]: what the handler of request m does next, or its answer
  path,    \* path[m]: the file it sends
  crc,     \* crc[m]: the checksum file_info found, which the metadata records
  meta,    \* meta[m]: the meta file
  place,   \* place[m]: where the data file is, once move_file has put it in
  rpc,     \* rpc[k]: what the metadata request k does next, or its answer
  rid,     \* rid[k]: the transfer it asks for
  spoilt   \* history: transfers asked for before they were answered, or whose
           \* metadata the flush has lost

sendVars == <<h, path, crc>>
readVars == <<rpc, rid, spoilt>>
boxVars == <<h, path, crc, meta, place, rpc, rid, spoilt>>
transferVars == <<moveVars, boxVars>>

Answers == {"ok", "bad", "threw"}
Working == {"info", "open", "flush", "move"}

DataFile(m) == CHOOSE d \in Dests[m] : TRUE
\* The data file of m is in the transfers directory.
InTransfers(m) == Exists(DataFile(m)) /\ place[m] = "transfers"
MetaThere(m) == meta[m] \in {"empty", "full"}

\* The type of every variable.
TransferTypeOK ==
  /\ MoveTypeOK
  /\ h \in [Movers -> {"idle", "dead"} \cup Working \cup Answers]
  /\ path \in [Movers -> Srcs \cup {None}]
  /\ crc \in [Movers -> Crcs \cup {None}]
  /\ meta \in [Movers -> {"none", "empty", "full", "dead"}]
  /\ place \in [Movers -> {"transfers", "collected", "dead"}]
  /\ rpc \in [Readers -> {"idle", "read", "endeaden", "twin", "ok", "bad", "dead"}]
  /\ rid \in [Readers -> Movers \cup {None}]
  /\ spoilt \subseteq Movers

TransferInit ==
  /\ MoveInit
  /\ \A d \in AllDests : fs[d] = None
  /\ h = [m \in Movers |-> "idle"]
  /\ path = [m \in Movers |-> None]
  /\ crc = [m \in Movers |-> None]
  /\ meta = [m \in Movers |-> "none"]
  /\ place = [m \in Movers |-> "transfers"]
  /\ rpc = [k \in Readers |-> "idle"]
  /\ rid = [k \in Readers |-> None]
  /\ spoilt = {}

-----------------------------------------------------------------------------
(***************************************************************************)
(* send_file                                                               *)
(***************************************************************************)
Handle(m, from, to) ==
  /\ h[m] = from
  /\ h' = [h EXCEPT ![m] = to]

\* A relative path, a topic that is not allowed or a directory that cannot be
\* written is refused before anything is done.
Refuse(m) ==
  /\ Handle(m, "idle", "bad")
  /\ UNCHANGED <<moveVars, path, crc, meta, place, readVars>>

Accept(m, s) ==
  /\ Handle(m, "idle", "info")
  /\ path' = [path EXCEPT ![m] = s]
  /\ UNCHANGED <<moveVars, crc, meta, place, readVars>>

FileInfo(m) ==
  /\ Handle(m, "info", "open")
  /\ Exists(path[m])
  /\ crc' = [crc EXCEPT ![m] = Crc[fs[path[m]]]]
  /\ UNCHANGED <<moveVars, path, meta, place, readVars>>

FileInfoFails(m) ==
  /\ Handle(m, "info", "bad")
  /\ ~Exists(path[m])
  /\ UNCHANGED <<moveVars, path, crc, meta, place, readVars>>

\* The stream creates the file; what is written to it stays in its buffer.
OpenMeta(m) ==
  /\ Handle(m, "open", "flush")
  /\ meta' = [meta EXCEPT ![m] = "empty"]
  /\ UNCHANGED <<moveVars, path, crc, place, readVars>>

OpenMetaFails(m) ==
  /\ Handle(m, "open", "bad")
  /\ "open" \in MetaFaults
  /\ UNCHANGED <<moveVars, path, crc, meta, place, readVars>>

\* Faulty variant of FlushMeta: the buffer is written after the move only.
FlushMetaLate(m) ==
  /\ Handle(m, "flush", "move")
  /\ CallMove(m, path[m], DataFile(m), crc[m])
  /\ UNCHANGED <<path, crc, meta, place, readVars>>

\* Faulty variant of FlushMeta: the metadata records the checksum of the meta
\* file just created.
FlushMetaOwnCrc(m) ==
  /\ Handle(m, "flush", "move")
  /\ meta' = [meta EXCEPT ![m] = IF @ = "empty" THEN "full" ELSE @]
  /\ crc' = [crc EXCEPT ![m] = Crc[Empty]]
  /\ CallMove(m, path[m], DataFile(m), crc[m])
  /\ UNCHANGED <<path, place, readVars>>

\* The stream is destroyed at the end of the try block: its buffer is written
\* and synchronised, with a result nobody looks at.  A meta file that has been
\* moved meanwhile is written where it is now.  Then move_file is called.
FlushMeta(m) ==
  /\ Handle(m, "flush", "move")
  /\ \/ /\ meta' = [meta EXCEPT ![m] = IF @ = "empty" THEN "full" ELSE @]
        /\ UNCHANGED spoilt
     \/ /\ "flush" \in MetaFaults
        /\ spoilt' = spoilt \cup {m}
        /\ UNCHANGED meta
  /\ CallMove(m, path[m], DataFile(m), crc[m])
  /\ UNCHANGED <<path, crc, place, rpc, rid>>

MoveData(m) == MoveStep(m) /\ UNCHANGED boxVars

AnswerOk(m) ==
  /\ Handle(m, "move", "ok")
  /\ pc[m] = "ok"
  /\ UNCHANGED <<moveVars, path, crc, meta, place, readVars>>

\* Faulty variant of AnswerBad: the meta file is left.
AnswerBadKeepsMeta(m) ==
  /\ Handle(m, "move", "bad")
  /\ pc[m] = "system"
  /\ UNCHANGED <<moveVars, path, crc, meta, place, readVars>>

\* "remove meta file on error"
AnswerBad(m) ==
  /\ Handle(m, "move", "bad")
  /\ pc[m] = "system"
  /\ meta' = [meta EXCEPT ![m] = IF MetaThere(m) THEN "none" ELSE @]
  /\ UNCHANGED <<moveVars, path, crc, place, readVars>>

\* Only system_error is caught: a runtime_error leaves the handler.
AnswerThrows(m) ==
  /\ Handle(m, "move", "threw")
  /\ pc[m] = "runtime"
  /\ UNCHANGED <<moveVars, path, crc, meta, place, readVars>>

SendStep(m) ==
  \/ FileInfo(m) \/ FileInfoFails(m) \/ OpenMeta(m) \/ OpenMetaFails(m)
  \/ FlushMeta(m) \/ MoveData(m)
  \/ AnswerOk(m) \/ AnswerBad(m) \/ AnswerThrows(m)

-----------------------------------------------------------------------------
(***************************************************************************)
(* meta: a request that finds the metadata in the cache touches nothing    *)
(* and is not an action; the ones here read the file.                      *)
(***************************************************************************)
\* The identifier is known from a listing of the directory, which shows the
\* meta file as soon as it is created.
AskMeta(k, m) ==
  /\ rpc[k] = "idle"
  /\ h[m] \notin {"idle", "info", "open"}
  /\ rpc' = [rpc EXCEPT ![k] = "read"]
  /\ rid' = [rid EXCEPT ![k] = m]
  /\ spoilt' = IF h[m] \in Working THEN spoilt \cup {m} ELSE spoilt
  /\ UNCHANGED <<moveVars, sendVars, meta, place>>

\* A missing file cannot be opened and an empty one is not JSON.
ReadMeta(k) ==
  /\ rpc[k] = "read"
  /\ rpc' = [rpc EXCEPT ![k] = IF meta[rid[k]] = "full" THEN "ok" ELSE "endeaden"]
  /\ UNCHANGED <<moveVars, sendVars, meta, place, rid, spoilt>>

\* endeaden(meta): rename the meta file, then its twin, errors being logged.
EndeadenMeta(k) ==
  /\ rpc[k] = "endeaden"
  /\ rpc' = [rpc EXCEPT ![k] = "twin"]
  /\ meta' = [meta EXCEPT ![rid[k]] = IF MetaThere(rid[k]) THEN "dead" ELSE @]
  /\ UNCHANGED <<moveVars, sendVars, place, rid, spoilt>>

EndeadenTwin(k) ==
  /\ rpc[k] = "twin"
  /\ rpc' = [rpc EXCEPT ![k] = "bad"]
  /\ place' = [place EXCEPT ![rid[k]] = IF InTransfers(rid[k]) THEN "dead" ELSE @]
  /\ UNCHANGED <<moveVars, sendVars, meta, rid, spoilt>>

ReadStep(k) == ReadMeta(k) \/ EndeadenMeta(k) \/ EndeadenTwin(k)

-----------------------------------------------------------------------------
\* The collector takes a complete pair away.
Collect(m) ==
  /\ meta[m] = "full"
  /\ InTransfers(m)
  /\ meta' = [meta EXCEPT ![m] = "none"]
  /\ place' = [place EXCEPT ![m] = "collected"]
  /\ UNCHANGED <<moveVars, sendVars, readVars>>

\* The process dies, by itself or because mkdtemp failed, with every request in
\* progress; those still idle come to the process that is started next.
Die ==
  /\ pc' = [m \in Movers |-> IF pc[m] \in Busy THEN "dead" ELSE pc[m]]
  /\ h' = [m \in Movers |-> IF h[m] \in Working THEN "dead" ELSE h[m]]
  /\ rpc' = [k \in Readers |-> IF rpc[k] \in {"read", "endeaden", "twin"}
                               THEN "dead" ELSE rpc[k]]
  /\ UNCHANGED <<fs, env, args, temps, exn, path, crc, meta, place, rid, spoilt>>

TransferNext ==
  \/ \E m \in Movers :
       \/ Refuse(m) \/ \E s \in Srcs : Accept(m, s)
       \/ SendStep(m)
       \/ Collect(m)
  \/ \E k \in Readers :
       \/ \E m \in Movers : AskMeta(k, m)
       \/ ReadStep(k)
  \/ Die

TransferSpec == TransferInit /\ [][TransferNext]_transferVars

\* Threads of the pool are scheduled.
FairTransferSpec ==
  TransferSpec /\ \A m \in Movers : WF_transferVars(SendStep(m))

-----------------------------------------------------------------------------
\* Both files of transfer m are in the directory, the metadata written.
Complete(m) == meta[m] = "full" /\ InTransfers(m)

\* What the collector ships has the checksum its metadata records, although
\* the metadata is there before the data file is.
ShippedMatches ==
  \A m \in Movers : place[m] = "collected" => Crc[fs[DataFile(m)]] = crc[m]

\* A transfer the application has an identifier for is shipped or ready to be
\* shipped, unless somebody asked for its metadata while it was being sent or
\* its metadata was lost when the stream was destroyed.
AckedComplete ==
  \A m \in Movers :
    h[m] = "ok" /\ m \notin spoilt => place[m] = "collected" \/ Complete(m)

\* "remove meta file on error": a request that is answered with an error
\* leaves no file in the transfers directory.
BadLeavesNothing ==
  \A m \in Movers : h[m] = "bad" => ~MetaThere(m) /\ ~InTransfers(m)

\* A file whose request failed is still where the application left it, unless
\* another request has it.
UnsentKept ==
  \A m \in Movers :
    h[m] \in {"bad", "threw"} /\ path[m] # None =>
      \/ fs[path[m]] = orig[path[m]]
      \/ \E n \in Movers \ {m} : src[n] = path[m] /\ Took(n)

\* The answers of send_file can be relied on, and so can what is shipped.
AnswersHold == ShippedMatches /\ AckedComplete /\ BadLeavesNothing /\ UnsentKept

\* Every request is answered, or dies with the process.
EverySendEnds ==
  \A m \in Movers : h[m] = "info" ~> h[m] \in Answers \cup {"dead"}

-----------------------------------------------------------------------------
\* The abstract view: a request's file is used once it is at its data path.
Sent(m) == Exists(DataFile(m))
Used == {src[m] : m \in {n \in Movers : Sent(n)}}
Box == [m \in Movers |-> IF ~Sent(m) THEN "before"
                          ELSE IF Complete(m) THEN src[m] ELSE "after"]

O == INSTANCE Outbox WITH Requests <- Movers, Files <- Srcs, used <- Used, box <- Box

\* send_file, meta and the collector together keep the promise of Outbox.
OffersOnce == O!OutboxSpec

-----------------------------------------------------------------------------
(***************************************************************************)
(* The inductive invariant behind the theorems of TransfersProofs, on top  *)
(* of MoveInv.                                                             *)
(***************************************************************************)
\* How far the handler and its call of move_file are.
InStep ==
  \A m \in Movers :
    /\ h[m] \in {"idle", "info", "open", "flush"} => pc[m] = "idle"
    /\ pc[m] \in Busy => h[m] = "move"
    /\ h[m] = "ok" => pc[m] = "ok"
    /\ h[m] = "bad" => pc[m] \in {"idle", "system"}
    /\ h[m] = "threw" => pc[m] = "runtime"

\* The call has the arguments of its handler.
SameArgs ==
  \A m \in Movers :
    /\ h[m] \in Working => path[m] \in Srcs
    /\ h[m] \in {"open", "flush"} => crc[m] \in Crcs
    /\ pc[m] # "idle" => src[m] = path[m] /\ dest[m] = DataFile(m) /\ want[m] = crc[m]

\* What is at the data path of a request was put there by its own call.
DataIsOwn ==
  \A m \in Movers :
    /\ Exists(DataFile(m)) =>
         pc[m] \in {"drop", "ok", "dead"} /\ Took(m) /\ Crc[fs[DataFile(m)]] = crc[m]
    /\ place[m] # "transfers" => Exists(DataFile(m))

\* The pair is there, but for its data file, or collected.
Kept(m) == (meta[m] = "full" /\ place[m] = "transfers") \/ place[m] = "collected"

MetaInStep ==
  \A m \in Movers :
    /\ h[m] \in {"idle", "info", "open"} => meta[m] = "none"
    /\ h[m] = "bad" => ~MetaThere(m)
    /\ m \notin spoilt /\ h[m] = "flush" => meta[m] = "empty"
    /\ m \notin spoilt /\ h[m] \in {"move", "ok"} => Kept(m)

\* A request for metadata that is not in spoilt came after the answer, and
\* endeadens an acknowledged transfer only after it was collected.
ReadsLate ==
  \A k \in Readers : rpc[k] \in {"read", "endeaden", "twin"} =>
    /\ rid[k] \in Movers
    /\ rid[k] \notin spoilt => h[rid[k]] \in Answers \cup {"dead"}
    /\ rid[k] \notin spoilt /\ rpc[k] # "read" /\ h[rid[k]] = "ok" =>
         place[rid[k]] = "collected"

TransferInv ==
  /\ MoveInv /\ TransferTypeOK
  /\ InStep /\ SameArgs /\ DataIsOwn /\ MetaInStep /\ ReadsLate
=============================================================================
