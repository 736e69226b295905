------------------------------ MODULE RaftCore ------------------------------
(***************************************************************************)
(* The distributed allocation server of libuavcan: RaftCore with its Log,  *)
(* PersistentState and ClusterManager, and the hooks of distributed::Server *)
(* that the core calls.  A server's term, vote and log are persistent, the *)
(* rest is lost in a crash.  A handler may fail, or the server may die, at *)
(* any of the handler's storage writes; a write that reports a failure has *)
(* left the old value.                                                     *)
(*                                                                         *)
(* A service call is the message of its request and then of its response.  *)
(* It is live until the caller cancels it: its request may still be served *)
(* after that, but nobody takes the answer.  A message that is not handled  *)
(* is lost, or its call times out.                                         *)
(***************************************************************************)
EXTENDS Integers, Sequences, FiniteSets

CONSTANTS
  Server,     \* the cluster; quorums are counted on its size
  Client,     \* nodes that may ask for an allocation
  MaxEntries, \* capacity of AppendEntries.entries
  Budgets     \* what a behaviour may use up: election timeouts (and so terms), failures
              \* (crashes and failed writes), requests of clients; and how many requests
              \* may be late, on their way after their call was cancelled

Nobody == "nobody"

ASSUME RaftAssumption ==
  /\ IsFiniteSet(Server) /\ Server /= {} /\ Server \cap Client = {} /\ Nobody \notin Server
  /\ MaxEntries \in Nat \ {0}
  /\ Budgets \subseteq [timeouts : Nat, failures : Nat, requests : Nat, late : Nat]

VARIABLES
  sv,      \* each server's state
  net,     \* the requests and the responses on their way
  won,     \* <<term, server>> of every election won
  budget   \* what is left to use up

raftVars == <<sv, net, won, budget>>

Zero == [term |-> 0, node |-> Nobody]
Nothing == [prev |-> 0, num |-> 0]
NoIndices == [p \in Server |-> 0]
BothCalls == {"vote", "append"}

Min2(m, n) == IF m < n THEN m ELSE n

\* Log.  Index 0 always holds an empty entry.
LastIndex(r) == Len(r.log)
EntryAt(r, i) == IF i = 0 THEN Zero ELSE r.log[i]
TakenIn(r) == {r.log[i].node : i \in 1..LastIndex(r)}
Truncated(r, last) == [r EXCEPT !.log = SubSeq(@, 1, last)]
Appended(r, e) == [r EXCEPT !.log = Append(@, e)]

isOtherLogUpToDate(r, index, term) ==
  LET last == EntryAt(r, LastIndex(r)).term
  IN term > last \/ (term = last /\ index >= LastIndex(r))

\* ClusterManager.
QuorumSize == Cardinality(Server) \div 2 + 1
isClusterDiscovered(r) == Cardinality(r.known) = Cardinality(Server) - 1

addServers(r, ps) ==
  [r EXCEPT !.known = @ \union ps,
            !.next = [p \in Server |-> IF p \in ps /\ r.st = "leader" THEN LastIndex(r) + 1
                                       ELSE @[p]]]

\* The constructor and init: the storage is read, the cluster is not known.
Booted(term, voted, log) ==
  [st |-> "follower", term |-> term, voted |-> voted, log |-> log, commit |-> 0,
   votes |-> 0, sent |-> Nothing, known |-> {}, discovering |-> TRUE,
   next |-> NoIndices, match |-> NoIndices]

Dead(r) == [Booted(r.term, r.voted, r.log) EXCEPT !.st = "down"]

-----------------------------------------------------------------------------
\* switchState, short of the leader's handler.  The indices of the other servers and the
\* fields of the pending call are only read by a leader: they are 0 on the others.
Switched(r, new) ==
  IF r.st = new THEN r
  ELSE [r EXCEPT !.st = new, !.votes = 0, !.sent = Nothing, !.match = NoIndices,
                 !.next = IF new = "leader" THEN [p \in Server |-> LastIndex(r) + 1]
                          ELSE NoIndices]

\* cancelAllCalls of the clients of s of these kinds: what may be left of the messages ms.
Cancelled(ms, kinds, s) ==
  LET mine == {m \in ms : m.live /\ m.from = s /\ m.kind \in kinds}
      late == {[m EXCEPT !.live = FALSE] : m \in {n \in mine : n.req}}
      rest == ms \ mine
  IN {rest \union some : some \in
        {x \in SUBSET late : Cardinality({m \in rest \union x : ~m.live}) <= budget.late}}

\* The same, once s has switched from r.st to the state new.
CancelledBy(ms, r, s, new) == IF r.st = new THEN {ms} ELSE Cancelled(ms, BothCalls, s)

\* The bus keeps the order of the requests of a kind from one server to another: those
\* that are to arrive at all have arrived before the next one is sent.
Sent(ms, new) ==
  new \union {m \in ms : \A n \in new :
                ~(m.req /\ m.kind = n.kind /\ m.from = n.from /\ m.to = n.to)}

Use(what) == budget[what] > 0 /\ budget' = [budget EXCEPT ![what] = @ - 1]

\* A handler at s writes path[2], path[3], ... to the storage, path[1] being its state
\* before.  The write after path[k] fails, or s dies there.
FailsIn(s, path) ==
  /\ Use("failures")
  /\ \E k \in 1..Len(path) - 1 :
       \/ sv' = [sv EXCEPT ![s] = Switched(path[k], "follower")]
       \/ sv' = [sv EXCEPT ![s] = Dead(path[k])]

\* What a handler that gets to the end of its path leaves.
Final(path) == path[Len(path)]
Completes == UNCHANGED budget

-----------------------------------------------------------------------------
\* handleTimerEvent.  updateFollower, when the activity has timed out.
updateFollower(s) ==
  /\ sv[s].st = "follower"
  /\ Use("timeouts")
  /\ sv' = [sv EXCEPT ![s] = Switched(@, "candidate")]
  /\ UNCHANGED <<net, won>>

RequestVotes(r, s) ==
  {[kind |-> "vote", req |-> TRUE, live |-> TRUE, from |-> s, to |-> p, term |-> r.term,
    index |-> LastIndex(r), last |-> EntryAt(r, LastIndex(r)).term] : p \in r.known}

\* updateCandidate, first event: the vote and the term are stored, the calls made.
StartCampaign(s) ==
  LET r == sv[s]
      voted == [r EXCEPT !.voted = s]
      raised == [voted EXCEPT !.term = @ + 1]
  IN /\ r.st = "candidate" /\ r.votes = 0
     /\ \/ /\ sv' = [sv EXCEPT ![s] = [raised EXCEPT !.votes = 1]]
           /\ net' = Sent(net, RequestVotes(raised, s))
           /\ Completes
        \/ FailsIn(s, <<r, voted, raised>>) /\ UNCHANGED net
     /\ UNCHANGED won

OwnEntryAgain(r, s) == <<r, Appended(r, [term |-> r.term, node |-> s])>>

\* handleLocalLeadershipChange: a leader that is not in its log enters it.
OwnEntry(r, s) ==
  IF s \in TakenIn(r) THEN <<r>> ELSE <<r, Appended(r, [term |-> r.term, node |-> s])>>

\* updateCandidate, next event: the votes are counted.
FinishCampaign(s) ==
  LET r == sv[s]
      path == OwnEntry(Switched(r, "leader"), s)
  IN /\ r.st = "candidate" /\ r.votes > 0
     /\ net' \in Cancelled(net, BothCalls, s)
     /\ IF r.votes >= QuorumSize
        THEN /\ won' = won \union {<<r.term, s>>}
             /\ \/ sv' = [sv EXCEPT ![s] = Final(path)] /\ Completes
                \/ FailsIn(s, path)
        ELSE /\ sv' = [sv EXCEPT ![s] = Switched(r, "follower")]
             /\ UNCHANGED <<won, budget>>

\* propagateCommitIndex, one entry at a time.
propagateCommitIndex(r) ==
  LET have == 1 + Cardinality({p \in r.known : r.match[p] > r.commit})
  IN IF r.commit < LastIndex(r) /\ have >= QuorumSize
     THEN [r EXCEPT !.commit = @ + 1] ELSE r

\* updateLeader: the pending call is cancelled, one server is called.  The code calls the
\* servers in turn, in the order they were discovered; here in any order.
updateLeader(s, p) ==
  LET r == sv[s]
      prev == r.next[p] - 1
      entries == SubSeq(r.log, prev + 1, Min2(prev + MaxEntries, LastIndex(r)))
      m == [kind |-> "append", req |-> TRUE, live |-> TRUE, from |-> s, to |-> p,
            term |-> r.term, prev |-> prev, prevterm |-> EntryAt(r, prev).term,
            entries |-> entries, commit |-> r.commit]
  IN /\ r.st = "leader" /\ p \in r.known
     /\ sv' = [sv EXCEPT ![s] = propagateCommitIndex(
                 [r EXCEPT !.sent = [prev |-> prev, num |-> Len(entries)]])]
     /\ \E rest \in Cancelled(net, {"append"}, s) : net' = Sent(rest, {m})
     /\ UNCHANGED <<won, budget>>

\* appendLog, for an allocation or for a node that was discovered.
AllocateNewNode(s, c) ==
  LET r == sv[s]
  IN /\ r.st = "leader"
     /\ c \notin TakenIn(r)
     /\ \/ /\ sv' = [sv EXCEPT ![s] = Appended(r, [term |-> r.term, node |-> c])]
           /\ Use("requests")
           /\ UNCHANGED net
        \/ /\ FailsIn(s, <<r, r>>)
           /\ net' \in Cancelled(net, BothCalls, s)
     /\ UNCHANGED won

-----------------------------------------------------------------------------
\* The response to m, unless nobody waits for it any more.
Reply(m, term, ok) ==
  IF m.live THEN {[kind |-> m.kind, req |-> FALSE, live |-> TRUE, from |-> m.from, to |-> m.to,
                   term |-> term, ok |-> ok]}
  ELSE {}

\* A newer term is stored and the vote reset: the handlers of both requests begin so.
NewTerm(r, term) ==
  IF term > r.term
  THEN LET raised == [r EXCEPT !.term = term] IN <<r, raised, [raised EXCEPT !.voted = Nobody]>>
  ELSE <<r>>

GrantsFreely(r, m) == m.term = r.term /\ isOtherLogUpToDate(r, m.index, m.last)

\* Whether a server in r, which has the request's term or a newer one, votes for its sender.
Grants(r, m) ==
  /\ m.term = r.term
  /\ r.voted \in {Nobody, m.from}
  /\ isOtherLogUpToDate(r, m.index, m.last)

\* handleRequestVoteRequest.  Unknown servers get no answer.
HandleRequestVote(m) ==
  LET s == m.to
      r == sv[s]
      path == NewTerm(IF m.term > r.term THEN Switched(r, "follower") ELSE r, m.term)
      now == Final(path)
      grant == Grants(now, m)
      all == IF grant
             THEN Append(path, [Switched(now, "follower") EXCEPT !.voted = m.from]) ELSE path
  IN /\ m.kind = "vote" /\ m.req /\ r.st /= "down"
     /\ IF m.from \in r.known
        THEN \/ /\ sv' = [sv EXCEPT ![s] = Final(all)]
                /\ \E rest \in CancelledBy(net \ {m}, r, s, Final(all).st) :
                     net' = rest \union Reply(m, now.term, grant)
                /\ Completes
             \/ /\ FailsIn(s, all)
                /\ net' \in Cancelled(net \ {m}, BothCalls, s)
        ELSE net' = net \ {m} /\ UNCHANGED sv /\ Completes
     /\ UNCHANGED won

NewLogUnchecked(r, m) == <<r, [r EXCEPT !.log = SubSeq(@, 1, m.prev) \o m.entries]>>

\* Steps 3 and 4 of handleAppendEntriesRequest, on a log that has the previous index.
NewLog(r, m) ==
  IF EntryAt(r, m.prev).term /= m.prevterm
  THEN <<r, Truncated(r, m.prev - 1)>>
  ELSE LET cut == Truncated(r, m.prev)
       IN (IF m.prev /= LastIndex(r) THEN <<r, cut>> ELSE <<r>>)
            \o [i \in 1..Len(m.entries) |-> [cut EXCEPT !.log = @ \o SubSeq(m.entries, 1, i)]]

\* handleAppendEntriesRequest.
HandleAppendEntries(m) ==
  LET s == m.to
      r == IF m.from \in sv[s].known \/ isClusterDiscovered(sv[s]) THEN sv[s]
           ELSE addServers(sv[s], {m.from})
      path == NewTerm(r, m.term)
      now == Switched(Final(path), "follower")
      stale == m.term < r.term
      has == m.prev <= LastIndex(now)
      same == has /\ EntryAt(now, m.prev).term = m.prevterm
      all == IF stale \/ ~has THEN path ELSE path \o Tail(NewLog(now, m))
      end == IF stale THEN r ELSE Switched(Final(all), "follower")
      done == IF ~stale /\ same /\ m.commit > end.commit
              THEN [end EXCEPT !.commit = Min2(m.commit, LastIndex(end))] ELSE end
  IN /\ m.kind = "append" /\ m.req /\ r.st /= "down"
     /\ IF m.from \in r.known
        THEN \/ /\ sv' = [sv EXCEPT ![s] = done]
                /\ \E rest \in CancelledBy(net \ {m}, r, s, done.st) :
                     net' = rest \union Reply(m, done.term, ~stale /\ same)
                /\ Completes
             \/ /\ FailsIn(s, all)
                /\ net' \in Cancelled(net \ {m}, BothCalls, s)
        ELSE net' = net \ {m} /\ UNCHANGED sv /\ Completes
     /\ UNCHANGED won

\* tryIncrementCurrentTermFromResponse: a failed write is ignored.
NewerTermInResponse(m, s) ==
  LET r == [sv[s] EXCEPT !.sent = Nothing]
      raised == [r EXCEPT !.term = m.term]
  IN /\ \/ sv' = [sv EXCEPT ![s] = Switched(raised, "follower")] /\ Completes
        \/ FailsIn(s, <<r, raised>>)
     /\ net' \in Cancelled(net \ {m}, BothCalls, s)

HandleRequestVoteResponse(m) ==
  LET s == m.from
  IN /\ m.kind = "vote" /\ ~m.req
     /\ IF m.term > sv[s].term THEN NewerTermInResponse(m, s)
        ELSE /\ sv' = IF m.ok THEN [sv EXCEPT ![s].votes = @ + 1] ELSE sv
             /\ net' = net \ {m} /\ Completes
     /\ UNCHANGED won

AppendAcceptedAll(r, p) ==
  [r EXCEPT !.next[p] = @ + r.sent.num, !.match[p] = LastIndex(r), !.sent = Nothing]

\* The indices of p after it has accepted.  What was sent was kept aside when the call was
\* made and is reset after it.
AppendAccepted(r, p) ==
  [r EXCEPT !.next[p] = @ + r.sent.num, !.match[p] = r.sent.prev + r.sent.num, !.sent = Nothing]

\* And after it has refused.
AppendRefused(r, p) == [r EXCEPT !.next[p] = @ - 1, !.sent = Nothing]

HandleAppendEntriesResponse(m) ==
  LET s == m.from
  IN /\ m.kind = "append" /\ ~m.req
     /\ IF m.term > sv[s].term THEN NewerTermInResponse(m, s)
        ELSE /\ sv' = [sv EXCEPT ![s] =
                  IF m.ok THEN AppendAccepted(@, m.to) ELSE AppendRefused(@, m.to)]
             /\ net' = net \ {m} /\ Completes
     /\ UNCHANGED won

-----------------------------------------------------------------------------
\* handleDiscovery at q of the message of server s, which lists s and those it knows.
handleDiscovery(q, s) ==
  LET r == sv[q]
      listed == {s} \union sv[s].known
      new == listed \ (r.known \union {q})
  IN [addServers(r, new) EXCEPT !.discovering = @ \/ Cardinality(listed) < Cardinality(Server)]

\* ClusterManager::handleTimerEvent: the message reaches the servers in Q.
BroadcastDiscovery(s, Q) ==
  /\ sv[s].st /= "down" /\ sv[s].discovering
  /\ \A q \in Q : sv[q].st /= "down"
  /\ sv' = [q \in Server |->
             CASE q = s -> [sv[s] EXCEPT !.discovering = ~isClusterDiscovered(sv[s])]
               [] q \in Q -> handleDiscovery(q, s)
               [] OTHER -> sv[q]]
  /\ UNCHANGED <<net, won, budget>>

Crash(s) ==
  /\ sv[s].st /= "down"
  /\ Use("failures")
  /\ sv' = [sv EXCEPT ![s] = Dead(@)]
  /\ net' \in Cancelled(net, BothCalls, s)
  /\ UNCHANGED won

Restart(s) ==
  /\ sv[s].st = "down"
  /\ sv' = [sv EXCEPT ![s].st = "follower"]
  /\ UNCHANGED <<net, won, budget>>

-----------------------------------------------------------------------------
\* The cluster is set up: the servers have found each other and nothing is allocated.
RaftInit ==
  /\ sv = [s \in Server |->
            [Booted(0, Nobody, <<>>) EXCEPT !.known = Server \ {s}, !.discovering = FALSE]]
  /\ net = {} /\ won = {} /\ budget \in Budgets

ServerStep(s) ==
  \/ updateFollower(s)
  \/ StartCampaign(s)
  \/ FinishCampaign(s)
  \/ \E p \in Server : updateLeader(s, p)
  \/ \E c \in Client : AllocateNewNode(s, c)
  \/ \E Q \in SUBSET (Server \ {s}) : BroadcastDiscovery(s, Q)
  \/ Crash(s)
  \/ Restart(s)

MessageStep(m) ==
  \/ HandleRequestVote(m)
  \/ HandleAppendEntries(m)
  \/ HandleRequestVoteResponse(m)
  \/ HandleAppendEntriesResponse(m)

RaftNext ==
  \/ \E s \in Server : ServerStep(s)
  \/ \E m \in net : MessageStep(m)

RaftSpec == RaftInit /\ [][RaftNext]_raftVars

-----------------------------------------------------------------------------
\* At most one server wins the election of a term: the stored votes rule out a second
\* winner through crashes, failed writes, lost and late messages.
ElectionSafety == \A a, b \in won : a[1] = b[1] => a[2] = b[2]

\* Two logs that have an entry of the same term at an index are the same up to it.
LogMatching ==
  \A s, t \in Server : \A i \in 1..Min2(LastIndex(sv[s]), LastIndex(sv[t])) :
    sv[s].log[i].term = sv[t].log[i].term
      => SubSeq(sv[s].log, 1, i) = SubSeq(sv[t].log, 1, i)

\* A leader counts on a server of its term only for what that server has stored.
MatchIsStored ==
  \A s, p \in Server :
    sv[s].st = "leader" /\ p \in sv[s].known /\ sv[p].term = sv[s].term
      => /\ sv[s].match[p] <= LastIndex(sv[p])
         /\ SubSeq(sv[p].log, 1, sv[s].match[p]) = SubSeq(sv[s].log, 1, sv[s].match[p])

\* Logs that agree on an entry agree on all before it, and a leader counts on a
\* server of its term only for what that server has stored.
LogsAgree == LogMatching /\ MatchIsStored

\* No log gives a node ID away twice, so no log outgrows its capacity.
NodeIDsOnce ==
  \A s \in Server : \A i, j \in 1..LastIndex(sv[s]) :
    sv[s].log[i].node = sv[s].log[j].node => i = j

\* checkInvariants: UAVCAN_ASSERT(commit_index_ <= getLastIndex()): what a server holds
\* committed is in its log.
CommitInLog == \A s \in Server : sv[s].commit <= LastIndex(sv[s])
=============================================================================
