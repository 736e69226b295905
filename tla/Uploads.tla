------------------------------ MODULE Uploads -------------------------------
(***************************************************************************)
(* The way up: Agent::retrieve_file and Agent::query_available of          *)
(* Agent.cpp, with endeaden, around the calls of move_file.                *)
(*                                                                         *)
(* An upload is a source of MoveFile, its data file; beside it is a meta   *)
(* file that records a checksum.  The collector brings the data file       *)
(* first and the meta file last, so the data files are there (or lost, or  *)
(* damaged) from the start and the meta files come.                        *)
(***************************************************************************)
EXTENDS MoveFile, Sequences

CONSTANTS
  Queries,    \* calls of query_available, one each
  OffTopic,   \* uploads of another topic than the queries ask for
  MaxQuery    \* max_query

Uploads == Srcs
Procs == Movers \cup Queries
\* What a meta file records that is not JSON of the right form.
Garbled == None
\* No listing in the cache.
NoListing == None

VARIABLES
  record,   \* record[i]: the checksum the meta file of upload i holds
  meta,     \* meta[i]: where the meta file is
  dead,     \* dead[i]: the data file in the dead-letter directory
  cached,   \* the uploads whose metadata is in meta_cache
  listing,  \* the meta files listed in metafile_cache
  g,        \* g[p]: what the handler p does next, or its answer
  id,       \* id[p]: the upload it works on
  save,     \* save[p]: where retrieve_file is to put it
  renames,  \* renames[p]: the renames endeaden has still to make
  listed,   \* listed[q]: the files a query was given to look at (history)
  todo,     \* todo[q]: the listed files a query has not looked at
  found,    \* found[q]: the files it answers with
  overflow  \* overflow[q]: it says that there are more

pairVars == <<record, meta, dead>>
cacheVars == <<cached, listing>>
queryVars == <<listed, todo, found, overflow>>
procVars == <<g, id, save, renames>>
uploadVars == <<moveVars, record, meta, dead, cached, listing,
                g, id, save, renames, listed, todo, found, overflow>>

Answers == {"ok", "system", "bad"}
Working == {"access", "read", "move", "unlink", "endeaden", "next", "info"}

\* The type of every variable.
UploadTypeOK ==
  /\ MoveTypeOK
  /\ record \in [Uploads -> Crcs \cup {Garbled}]
  /\ meta \in [Uploads -> {"coming", "there", "gone", "dead"}]
  /\ dead \in [Uploads -> Contents \cup {None}]
  /\ cached \subseteq Uploads
  /\ listing = NoListing \/ listing \subseteq Uploads
  /\ g \in [Procs -> {"idle", "killed"} \cup Working \cup Answers]
  /\ id \in [Procs -> Uploads \cup {None}]
  /\ save \in [Procs -> AllDests \cup {None}]
  /\ renames \in [Procs -> Seq({"meta", "data"})]
  /\ listed \in [Queries -> SUBSET Uploads]
  /\ todo \in [Queries -> SUBSET Uploads]
  /\ found \in [Queries -> Seq(Uploads)]
  /\ overflow \in [Queries -> BOOLEAN]

UploadInit ==
  /\ MoveInit
  /\ record \in [Uploads -> Crcs \cup {Garbled}]
  /\ meta = [i \in Uploads |-> "coming"]
  /\ dead = [i \in Uploads |-> None]
  /\ cached = {}
  /\ listing = NoListing
  /\ g = [p \in Procs |-> "idle"]
  /\ id = [p \in Procs |-> None]
  /\ save = [p \in Procs |-> None]
  /\ renames = [p \in Procs |-> <<>>]
  /\ listed = [q \in Queries |-> {}]
  /\ todo = [q \in Queries |-> {}]
  /\ found = [q \in Queries |-> <<>>]
  /\ overflow = [q \in Queries |-> FALSE]

-----------------------------------------------------------------------------
Handle(p, from, to) ==
  /\ g[p] = from
  /\ g' = [g EXCEPT ![p] = to]

\* endeaden(path): the file itself, then its twin.
Pair(first) == IF first = "meta" THEN <<"meta", "data">> ELSE <<"data", "meta">>

\* p goes on to make renames rs.
Endeaden(p, from, rs) ==
  /\ Handle(p, from, "endeaden")
  /\ renames' = [renames EXCEPT ![p] = rs]

\* A failing read_transfer_meta endeadens the pair under the lock of the cache,
\* and its caller does so again: it holds the lock for the first two renames.
LockFree == \A p \in Procs : Len(renames[p]) <= 2

\* The metadata of i can be had: from the cache, or from a file that parses.
Readable(i) == i \in cached \/ (meta[i] = "there" /\ record[i] # Garbled)

\* Faulty variant of EndeadenStep: files are removed instead of renamed.
EndeadenRemoves(p) ==
  /\ g[p] = "endeaden"
  /\ renames' = [renames EXCEPT ![p] = Tail(@)]
  /\ IF Head(renames[p]) = "meta"
     THEN /\ meta' = [meta EXCEPT ![id[p]] = IF @ = "there" THEN "gone" ELSE @]
          /\ UNCHANGED fs
     ELSE /\ fs' = [fs EXCEPT ![id[p]] = None]
          /\ UNCHANGED meta
  /\ g' = IF Len(renames[p]) > 1 THEN g
          ELSE [g EXCEPT ![p] = IF p \in Queries THEN "next" ELSE "bad"]
  /\ UNCHANGED <<env, pc, args, temps, exn, record, dead, cacheVars, id, save, queryVars>>

\* One rename of endeaden; an error is logged and nothing else.
EndeadenStep(p) ==
  /\ g[p] = "endeaden"
  /\ renames' = [renames EXCEPT ![p] = Tail(@)]
  /\ IF Head(renames[p]) = "meta"
     THEN /\ meta' = [meta EXCEPT ![id[p]] = IF @ = "there" THEN "dead" ELSE @]
          /\ UNCHANGED <<fs, dead>>
     ELSE /\ dead' = [dead EXCEPT ![id[p]] = IF Exists(id[p]) THEN fs[id[p]] ELSE @]
          /\ fs' = [fs EXCEPT ![id[p]] = None]
          /\ UNCHANGED meta
  /\ g' = IF Len(renames[p]) > 1 THEN g
          ELSE [g EXCEPT ![p] = IF p \in Queries THEN "next" ELSE "bad"]
  /\ UNCHANGED <<env, pc, args, temps, exn, record, cacheVars, id, save, queryVars>>

-----------------------------------------------------------------------------
(***************************************************************************)
(* retrieve_file                                                           *)
(***************************************************************************)
Retrieve(m, i, d) ==
  /\ Handle(m, "idle", "access")
  /\ id' = [id EXCEPT ![m] = i]
  /\ save' = [save EXCEPT ![m] = d]
  /\ UNCHANGED <<moveVars, pairVars, cacheVars, renames, queryVars>>

\* A relative destination is refused.
RetrieveRefused(m) ==
  /\ Handle(m, "idle", "bad")
  /\ UNCHANGED <<moveVars, pairVars, cacheVars, id, save, renames, queryVars>>

CheckMeta(m) ==
  /\ Handle(m, "access", IF meta[id[m]] = "there" THEN "read" ELSE "bad")
  /\ UNCHANGED <<moveVars, pairVars, cacheVars, id, save, renames, queryVars>>

RetrieveReads(m) ==
  /\ LockFree
  /\ Handle(m, "read", "move")
  /\ Readable(id[m])
  /\ cached' = cached \cup {id[m]}
  /\ CallMove(m, id[m], save[m], record[id[m]])
  /\ UNCHANGED <<pairVars, listing, id, save, renames, queryVars>>

RetrieveCannotRead(m) ==
  /\ LockFree
  /\ Endeaden(m, "read", Pair("meta") \o Pair("data"))
  /\ ~Readable(id[m])
  /\ UNCHANGED <<moveVars, pairVars, cacheVars, id, save, queryVars>>

MoveData(m) ==
  /\ MoveStep(m)
  /\ UNCHANGED <<pairVars, cacheVars, procVars, queryVars>>

MoveReturns(m) ==
  /\ Handle(m, "move", "unlink")
  /\ pc[m] = "ok"
  /\ UNCHANGED <<moveVars, pairVars, cacheVars, id, save, renames, queryVars>>

UnlinkMeta(m) ==
  /\ Handle(m, "unlink", "ok")
  /\ meta' = [meta EXCEPT ![id[m]] = IF @ = "there" THEN "gone" ELSE @]
  /\ UNCHANGED <<moveVars, record, dead, cacheVars, id, save, renames, queryVars>>

\* Faulty variant of MoveSystemError: the errors are not told apart.
MoveSystemErrorEndeadens(m) ==
  /\ Endeaden(m, "move", Pair("data"))
  /\ pc[m] = "system"
  /\ UNCHANGED <<moveVars, pairVars, cacheVars, id, save, queryVars>>

\* "don't endeaden the file in this case"
MoveSystemError(m) ==
  /\ Handle(m, "move", "system")
  /\ pc[m] = "system"
  /\ UNCHANGED <<moveVars, pairVars, cacheVars, id, save, renames, queryVars>>

MoveRuntimeError(m) ==
  /\ Endeaden(m, "move", Pair("data"))
  /\ pc[m] = "runtime"
  /\ UNCHANGED <<moveVars, pairVars, cacheVars, id, save, queryVars>>

RetrieveStep(m) ==
  \/ CheckMeta(m) \/ RetrieveReads(m) \/ RetrieveCannotRead(m)
  \/ MoveData(m) \/ MoveReturns(m) \/ UnlinkMeta(m)
  \/ MoveSystemError(m) \/ MoveRuntimeError(m)
  \/ EndeadenStep(m)

-----------------------------------------------------------------------------
(***************************************************************************)
(* query_available                                                         *)
(***************************************************************************)
\* The meta files of the directory, or the listing the cache still has.
List(q) ==
  /\ Handle(q, "idle", "next")
  /\ LET files == IF listing # NoListing THEN listing
                  ELSE {i \in Uploads : meta[i] = "there"}
     IN  /\ listing' = files
         /\ listed' = [listed EXCEPT ![q] = files]
         /\ todo' = [todo EXCEPT ![q] = files]
  /\ UNCHANGED <<moveVars, pairVars, cached, id, save, renames, found, overflow>>

\* The loop goes on while there are files and the answer is not too long.
Continues(q) == todo[q] # {} /\ Len(found[q]) <= MaxQuery

QueryReads(q, i) ==
  /\ Continues(q) /\ i \in todo[q] /\ LockFree
  /\ Handle(q, "next", IF i \in OffTopic THEN "next" ELSE "info")
  /\ Readable(i)
  /\ cached' = cached \cup {i}
  /\ todo' = [todo EXCEPT ![q] = @ \ {i}]
  /\ id' = [id EXCEPT ![q] = i]
  /\ UNCHANGED <<moveVars, pairVars, listing, save, renames, listed, found, overflow>>

QueryCannotRead(q, i) ==
  /\ Continues(q) /\ i \in todo[q] /\ LockFree
  /\ Endeaden(q, "next", Pair("meta") \o Pair("meta"))
  /\ ~Readable(i)
  /\ todo' = [todo EXCEPT ![q] = @ \ {i}]
  /\ id' = [id EXCEPT ![q] = i]
  /\ UNCHANGED <<moveVars, pairVars, cacheVars, save, listed, found, overflow>>

\* Faulty variant of QueryFinds: the checksum is not verified.
QueryFindsAny(q) ==
  /\ Handle(q, "info", "next")
  /\ Exists(id[q])
  /\ found' = [found EXCEPT ![q] = Append(@, id[q])]
  /\ UNCHANGED <<moveVars, pairVars, cacheVars, id, save, renames, listed, todo, overflow>>

\* file_info of the data file agrees with the metadata.
QueryFinds(q) ==
  /\ Handle(q, "info", "next")
  /\ Exists(id[q]) /\ Crc[fs[id[q]]] = record[id[q]]
  /\ found' = [found EXCEPT ![q] = Append(@, id[q])]
  /\ UNCHANGED <<moveVars, pairVars, cacheVars, id, save, renames, listed, todo, overflow>>

QueryRejects(q) ==
  /\ Endeaden(q, "info", Pair("meta"))
  /\ ~(Exists(id[q]) /\ Crc[fs[id[q]]] = record[id[q]])
  /\ UNCHANGED <<moveVars, pairVars, cacheVars, id, save, queryVars>>

QueryAnswers(q) ==
  /\ Handle(q, "next", "ok")
  /\ ~Continues(q)
  /\ overflow' = [overflow EXCEPT ![q] = Len(found[q]) > MaxQuery]
  /\ found' = IF overflow'[q]
              THEN [found EXCEPT ![q] = SubSeq(@, 1, Len(@) - 1)] ELSE found
  /\ UNCHANGED <<moveVars, pairVars, cacheVars, id, save, renames, listed, todo>>

QueryStep(q) ==
  \/ \E i \in Uploads : QueryReads(q, i) \/ QueryCannotRead(q, i)
  \/ QueryFinds(q) \/ QueryRejects(q) \/ QueryAnswers(q)
  \/ EndeadenStep(q)

-----------------------------------------------------------------------------
\* The collector has brought the data file and now brings the meta file.
Deliver(i) ==
  /\ meta[i] = "coming"
  /\ meta' = [meta EXCEPT ![i] = "there"]
  /\ UNCHANGED <<moveVars, record, dead, cacheVars, procVars, queryVars>>

\* Entries of the two caches grow too old.
Expire ==
  /\ \/ \E i \in cached : cached' = cached \ {i} /\ UNCHANGED listing
     \/ listing # NoListing /\ listing' = NoListing /\ UNCHANGED cached
  /\ UNCHANGED <<moveVars, pairVars, procVars, queryVars>>

\* The process dies with every request in progress; its caches are gone.
Die ==
  /\ pc' = [m \in Movers |-> IF pc[m] \in Busy THEN "dead" ELSE pc[m]]
  /\ g' = [p \in Procs |-> IF g[p] \in Working THEN "killed" ELSE g[p]]
  /\ renames' = [p \in Procs |-> <<>>]
  /\ cached' = {} /\ listing' = NoListing
  /\ UNCHANGED <<fs, env, args, temps, exn, pairVars, id, save, queryVars>>

UploadNext ==
  \/ \E m \in Movers :
       \/ \E i \in Uploads, d \in Dests[m] : Retrieve(m, i, d)
       \/ RetrieveRefused(m) \/ RetrieveStep(m)
  \/ \E q \in Queries : List(q) \/ QueryStep(q)
  \/ \E i \in Uploads : Deliver(i)
  \/ Expire \/ Die

UploadSpec == UploadInit /\ [][UploadNext]_uploadVars

-----------------------------------------------------------------------------
\* The metadata and the data of upload i, as it came, belong together.
Sound(i) == orig[i] # None /\ Crc[orig[i]] = record[i]

\* No upload is lost: it is in the uploads or the dead-letter directory, or in
\* the hands of a call, or where a call has put it.
UploadConserved ==
  \A i \in Uploads : orig[i] # None =>
    \/ fs[i] = orig[i] \/ dead[i] = orig[i]
    \/ \E m \in Movers : src[m] = i /\ (stmp[m] = orig[i] \/ Delivered(m, orig[i]))

\* An upload is given to one application only, and with the content its
\* metadata describes.
RetrievedOnce ==
  \A m \in Movers : g[m] = "ok" =>
    /\ Exists(save[m]) /\ Crc[fs[save[m]]] = record[id[m]]
    /\ \A n \in Movers \ {m} : g[n] = "ok" => id[n] # id[m]

\* "When file corruption is detected, the file should be endeadened": a sound
\* upload gets into the dead-letter directory only when a call has stashed it and
\* put it back; other errors, cached metadata, cached listings, queries and
\* requests that compete for it do not do it.
SoundStays ==
  \A i \in Uploads : Sound(i) /\ dead[i] # None =>
    \E m \in Movers : id[m] = i /\ exn[m] # "none"

\* Both: retrieve_file hands an upload out once and whole, and nobody endeadens a sound
\* one that no retrieval of it has failed on.
RetrievedOrKept == RetrievedOnce /\ SoundStays

\* The answer to a query lists sound uploads of the topic, each once and never
\* more than max_query; it tells of every one that was there to be listed and
\* not being retrieved, or says truthfully that there are too many.
QueryExact ==
  \A q \in Queries : g[q] = "ok" =>
    LET answer == {found[q][j] : j \in 1..Len(found[q])}
        sound == {i \in listed[q] \ OffTopic : Sound(i)}
    IN  /\ Cardinality(answer) = Len(found[q]) /\ Len(found[q]) <= MaxQuery
        /\ answer \subseteq sound
        /\ IF overflow[q] THEN Cardinality(sound) > MaxQuery
           ELSE \A i \in sound \ answer : \E m \in Movers : id[m] = i
=============================================================================
