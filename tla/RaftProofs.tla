----------------------------- MODULE RaftProofs -----------------------------
(***************************************************************************)
(* The safety of the elections and of the logs of RaftCore, for any        *)
(* cluster and any clients, any crashes, failed writes, lost and late      *)
(* messages.                                                               *)
(***************************************************************************)
EXTENDS RaftLogs

USE ZenonT(100)

-----------------------------------------------------------------------------
\* The elections.  V[p][t] is whom p has answered in term t that it votes for, C[s] who
\* have voted for s in its campaign.
Backed(V, w) ==
  \E Q \in SUBSET Server : Cardinality(Q) >= QuorumSize /\ \A p \in Q : V[p][w[1]] = w[2]

VotesTyped(V, C) ==
  V \in [Server -> [Nat -> Server \cup {Nobody}]] /\ C \in [Server -> SUBSET Server]

VotesStored(V) ==
  \A p \in Server :
    /\ \A t \in Nat : V[p][t] # Nobody => t <= sv[p].term
    /\ V[p][sv[p].term] # Nobody => sv[p].voted \in {V[p][sv[p].term], p}

VoteCall(V, C, m) ==
  /\ m.to \notin C[m.from]
  /\ m.req => m.term = sv[m.from].term
  /\ ~m.req /\ m.ok => V[m.to][sv[m.from].term] = m.from

VoteCalls(V, C) ==
  /\ \A m \in net : LiveVote(m) => VoteCall(V, C, m)
  /\ \A k, n \in net : LiveVote(k) /\ LiveVote(n) /\ k.from = n.from /\ k.to = n.to => k = n

VotesCounted(V, C) ==
  \A s \in Server : Campaigning(s) => /\ sv[s].votes = Cardinality(C[s])
                                      /\ \A p \in C[s] : V[p][sv[s].term] = s

ElectGood(V, C) ==
  /\ VotesTyped(V, C) /\ VotesStored(V) /\ VoteCalls(V, C) /\ VotesCounted(V, C)
  /\ \A w \in won : Backed(V, w)

ElectInv == BaseInv /\ \E V, C : ElectGood(V, C)

LEMMA ElectInit == RaftInit => ElectInv
  <1> SUFFICES ASSUME RaftInit PROVE ElectInv
    OBVIOUS
  <1> DEFINE V == [p \in Server |-> [t \in Nat |-> Nobody]]
             C == [p \in Server |-> {}]
  <1>1. BaseInv
    BY BaseInit
  <1>2. VotesTyped(V, C)
    BY DEF VotesTyped
  <1>3. net = {} /\ won = {}
    BY DEF RaftInit
  <1>4. \A s \in Server : sv[s].st = "follower"
    <2> DEFINE b == Booted(0, Nobody, <<>>)
    <2>1. \A s \in Server : [b EXCEPT !.known = Server \ {s}, !.discovering = FALSE].st = b.st
      BY DEF Booted
    <2>2. b.st = "follower"
      BY DEF Booted
    <2> QED BY <2>1, <2>2 DEF RaftInit
  <1>5. \A s \in Server : sv[s].term \in Nat
    BY <1>1 DEF BaseInv, RaftTypeOK, ServerRec
  <1>6. VotesStored(V)
    BY <1>5 DEF VotesStored
  <1>7. VotesCounted(V, C) /\ VoteCalls(V, C)
    BY <1>3, <1>4 DEF VotesCounted, VoteCalls, Campaigning
  <1>8. ElectGood(V, C)
    BY <1>2, <1>3, <1>6, <1>7 DEF ElectGood
  <1> QED BY <1>1, <1>8 DEF ElectInv

\* Nothing is forgotten of whom a server has voted for.
Extends(W, V) ==
  \A p \in Server, t \in Nat : V[p][t] # Nobody => W[p][t] = V[p][t]

LEMMA BackedStill ==
  ASSUME NEW V, NEW C, VotesTyped(V, C), NEW W, Extends(W, V),
         NEW w \in Nat \X Server, Backed(V, w)
  PROVE  Backed(W, w)
  <1>1. PICK Q \in SUBSET Server : Cardinality(Q) >= QuorumSize /\ \A p \in Q : V[p][w[1]] = w[2]
    BY DEF Backed
  <1>2. w[1] \in Nat /\ w[2] \in Server /\ Nobody \notin Server
    BY SMTT(100), RaftAssumption
  <1>3. \A p \in Q : W[p][w[1]] = w[2]
    BY SMTT(100), <1>1, <1>2 DEF Extends
  <1> QED BY <1>1, <1>3 DEF Backed

\* The answers in R for a vote are to requests in G, and those that grant one are in W.
GivenVotes(W, G, R) ==
  \A n \in R : LiveVote(n) => \E m \in net \cap G :
    /\ LiveVote(m) /\ m.req /\ ~n.req /\ n.from = m.from /\ n.to = m.to
    /\ n.ok => W[m.to][m.term] = m.from
    /\ \A k \in R : k = n

\* Who campaigns has been campaigning with the same votes.
NoNewVotes(s) ==
  Campaigning(s)' => /\ Campaigning(s) /\ sv'[s].term = sv[s].term
                     /\ sv'[s].votes = sv[s].votes

\* A step that makes no call for votes and counts none.
LEMMA ElectKept ==
  ASSUME BaseInv, BaseInv', NEW V, NEW C, ElectGood(V, C),
         NEW W \in [Server -> [Nat -> Server \cup {Nobody}]], Extends(W, V), VotesStored(W)',
         \A s \in Server : NoNewVotes(s),
         \A w \in won' : w \in won \/ Backed(W, w),
         NEW G, NEW R, NetStep(G, R), GivenVotes(W, G, R)
  PROVE  ElectGood(W, C)'
  <1>0. /\ VotesTyped(V, C) /\ VotesStored(V) /\ VoteCalls(V, C) /\ VotesCounted(V, C)
        /\ \A w \in won : Backed(V, w)
        /\ sv \in [Server -> ServerRec] /\ net \subseteq Message /\ won \subseteq Nat \X Server
        /\ \A n \in net' : LiveVote(n) => Campaigning(n.from)'
        /\ net' \subseteq Message
    BY DEF ElectGood, BaseInv, RaftTypeOK, CallsOK
  <1>1. \A w \in won' : Backed(W, w)
    BY <1>0, BackedStill
  <1>2. VotesTyped(W, C)
    BY <1>0 DEF VotesTyped
  <1>3. \A s \in Server : sv[s].term \in Nat /\ s # Nobody
    BY <1>0, RaftAssumption DEF ServerRec
  <1>a. \A p, q \in Server, t \in Nat : V[p][t] = q => W[p][t] = q
    BY SMTT(100), <1>3 DEF Extends
  <1>4. ASSUME NEW s \in Server, Campaigning(s)'
        PROVE  sv'[s].votes = Cardinality(C[s]) /\ \A p \in C[s] : W[p][sv'[s].term] = s
    <2>1. /\ Campaigning(s) /\ sv'[s].term = sv[s].term /\ sv'[s].votes = sv[s].votes
      BY <1>4 DEF NoNewVotes
    <2>2. sv[s].votes = Cardinality(C[s]) /\ \A p \in C[s] : p \in Server /\ V[p][sv[s].term] = s
      BY <1>0, <2>1 DEF VotesCounted, VotesTyped
    <2> QED BY SMTT(100), <1>a, <1>3, <2>1, <2>2
  <1>5. \A n \in Message : n.from \in Server /\ n.to \in Server
    BY DEF Message, VoteRequest, AppendRequest, Response
  <1>6. ASSUME NEW n \in net', LiveVote(n)
        PROVE  n \in net \ G \/ n \in R
    BY <1>0, <1>6, LateIs DEF NetStep, LiveVote
  <1>7. ASSUME NEW n \in net', LiveVote(n) PROVE VoteCall(W, C, n)'
    <2>1. /\ n.from \in Server /\ n.to \in Server /\ sv'[n.from].term = sv[n.from].term
      BY <1>0, <1>5, <1>7 DEF NoNewVotes
    <2>2. CASE n \in net
      <3>1. VoteCall(V, C, n)
        BY <1>0, <1>7, <2>2 DEF VoteCalls
      <3>2. n.to \notin C[n.from] /\ (n.req => n.term = sv[n.from].term)
        BY <3>1 DEF VoteCall
      <3>3. ~n.req /\ n.ok => W[n.to][sv[n.from].term] = n.from
        BY SMTT(100), <1>a, <1>3, <2>1, <3>1 DEF VoteCall
      <3> QED BY <2>1, <3>2, <3>3 DEF VoteCall
    <2>3. CASE n \in R
      <3>1. PICK m \in net : /\ LiveVote(m) /\ m.req /\ ~n.req /\ n.from = m.from /\ n.to = m.to
                             /\ n.ok => W[m.to][m.term] = m.from
        BY <1>7, <2>3 DEF GivenVotes
      <3>2. VoteCall(V, C, m)
        BY <1>0, <3>1 DEF VoteCalls
      <3> QED BY SMTT(100), <2>1, <3>1, <3>2 DEF VoteCall
    <2> QED BY <1>6, <1>7, <2>2, <2>3
  <1>8. ASSUME NEW k \in net', NEW n \in net', LiveVote(k), LiveVote(n), k.from = n.from, k.to = n.to
        PROVE  k = n
    <2>1. CASE n \in R
      <3>1. PICK m \in net \cap G : /\ LiveVote(m) /\ n.from = m.from /\ n.to = m.to
                                    /\ \A j \in R : j = n
        BY <1>8, <2>1 DEF GivenVotes
      <3>2. k \in net => k = m
        BY <1>0, <1>8, <3>1 DEF VoteCalls
      <3> QED BY <1>6, <1>8, <3>1, <3>2
    <2>2. CASE k \in R
      <3>1. PICK m \in net \cap G : /\ LiveVote(m) /\ k.from = m.from /\ k.to = m.to
                                    /\ \A j \in R : j = k
        BY <1>8, <2>2 DEF GivenVotes
      <3>2. n \in net => n = m
        BY <1>0, <1>8, <3>1 DEF VoteCalls
      <3> QED BY <1>6, <1>8, <3>1, <3>2
    <2>3. CASE k \notin R /\ n \notin R
      BY <1>0, <1>6, <1>8, <2>3 DEF VoteCalls
    <2> QED BY <2>1, <2>2, <2>3
  <1>9. VotesCounted(W, C)'
    BY <1>4 DEF VotesCounted
  <1>10. VoteCalls(W, C)'
    BY <1>7, <1>8 DEF VoteCalls
  <1> QED BY <1>1, <1>2, <1>9, <1>10 DEF ElectGood, VotesTyped

\* Most steps leave the votes alone.
VoteFrame(p) ==
  /\ sv[p].term <= sv'[p].term
  /\ sv'[p].term = sv[p].term => sv'[p].voted \in {sv[p].voted, p}
  /\ NoNewVotes(p)

NoVotes(G, R) ==
  \A n \in R : LiveVote(n) => \E m \in net \cap G :
    /\ LiveVote(m) /\ m.req /\ ~n.req /\ n.from = m.from /\ n.to = m.to /\ ~n.ok
    /\ \A k \in R : k = n

LEMMA ElectSame ==
  ASSUME BaseInv, BaseInv', NEW V, NEW C, ElectGood(V, C), \A p \in Server : VoteFrame(p),
         \A w \in won' : w \in won \/ Backed(V, w),
         NEW G, NEW R, NetStep(G, R), NoVotes(G, R)
  PROVE  ElectGood(V, C)'
  <1>1. VotesTyped(V, C) /\ VotesStored(V)
    BY DEF ElectGood
  <1>2. V \in [Server -> [Nat -> Server \cup {Nobody}]] /\ Extends(V, V)
    BY <1>1 DEF VotesTyped, Extends
  <1>3. \A p \in Server : sv[p].term \in Nat /\ sv'[p].term \in Nat
    BY DEF BaseInv, RaftTypeOK, ServerRec
  <1>4. ASSUME NEW p \in Server
        PROVE  /\ \A t \in Nat : V[p][t] # Nobody => t <= sv'[p].term
               /\ V[p][sv'[p].term] # Nobody => sv'[p].voted \in {V[p][sv'[p].term], p}
    <2>1. /\ \A t \in Nat : V[p][t] # Nobody => t <= sv[p].term
          /\ V[p][sv[p].term] # Nobody => sv[p].voted \in {V[p][sv[p].term], p}
      BY <1>1 DEF VotesStored
    <2>2. /\ sv[p].term <= sv'[p].term
          /\ sv'[p].term = sv[p].term => sv'[p].voted \in {sv[p].voted, p}
      BY DEF VoteFrame
    <2>3. \A t \in Nat : t <= sv[p].term => t <= sv'[p].term
      BY SMTT(100), <1>3, <2>2
    <2>4. sv'[p].term <= sv[p].term => sv'[p].term = sv[p].term
      BY SMTT(100), <1>3, <2>2
    <2>5. V[p][sv'[p].term] # Nobody => sv'[p].term = sv[p].term
      BY <1>3, <2>1, <2>4
    <2> QED BY <2>1, <2>2, <2>3, <2>5
  <1>5. VotesStored(V)'
    BY <1>4 DEF VotesStored
  <1>6. GivenVotes(V, G, R)
    BY DEF NoVotes, GivenVotes
  <1>7. \A p \in Server : NoNewVotes(p)
    BY DEF VoteFrame
  <1> QED BY <1>2, <1>5, <1>6, <1>7, ElectKept

LEMMA FrameSame ==
  ASSUME BaseInv, NEW p \in Server, sv'[p].term = sv[p].term,
         sv'[p].voted = sv[p].voted, sv'[p].votes = sv[p].votes, sv'[p].st = sv[p].st
  PROVE  VoteFrame(p)
  <1>1. sv[p].term \in Nat
    BY DEF BaseInv, RaftTypeOK, ServerRec
  <1>2. sv[p].term <= sv[p].term
    BY SMTT(100), <1>1
  <1> QED BY <1>2 DEF VoteFrame, NoNewVotes, Campaigning

LEMMA FrameRetires ==
  ASSUME BaseInv, NEW s, NEW x, NEW G, NEW R, Retires(s, x, G, R), VoteKept(s, x)
  PROVE  /\ \A p \in Server : VoteFrame(p)
         /\ NetStep(G, R) /\ s \in Server
  <1>1. /\ s \in Server /\ sv' = [sv EXCEPT ![s] = x] /\ sv[s].term <= x.term
        /\ ~(x.st = "candidate" /\ x.votes > 0) /\ NetStep(G, R)
        /\ sv \in [Server -> ServerRec]
    BY DEF Retires, Quiet, BaseInv, RaftTypeOK
  <1>2. \A p \in Server : sv'[p] = IF p = s THEN x ELSE sv[p]
    BY <1>1
  <1>3. VoteFrame(s)
    BY <1>1, <1>2 DEF VoteFrame, NoNewVotes, VoteKept, Campaigning
  <1>4. ASSUME NEW p \in Server, p # s PROVE VoteFrame(p)
    <2>1. sv'[p] = sv[p]
      BY <1>2, <1>4
    <2> QED BY <2>1, FrameSame
  <1> QED BY <1>1, <1>3, <1>4

\* A server that wins has a quorum behind it.
LEMMA WinnerBacked ==
  ASSUME BaseInv, NEW V, NEW C, ElectGood(V, C), NEW s \in Server, Wins(s)
  PROVE  \A w \in won' : w \in won \/ Backed(V, w)
  <1>1. /\ Campaigning(s) /\ sv[s].votes >= QuorumSize
        /\ won' = won \cup {<<sv[s].term, s>>}
    BY DEF Wins
  <1>2. /\ sv[s].votes = Cardinality(C[s]) /\ C[s] \in SUBSET Server
        /\ \A p \in C[s] : V[p][sv[s].term] = s
    BY <1>1 DEF ElectGood, VotesCounted, VotesTyped
  <1>3. <<sv[s].term, s>>[1] = sv[s].term /\ <<sv[s].term, s>>[2] = s
    BY SMTT(100)
  <1>4. Backed(V, <<sv[s].term, s>>)
    BY <1>1, <1>2, <1>3 DEF Backed
  <1> QED BY <1>1, <1>4

\* An answer that refuses, and any answer of AppendEntries.
LEMMA RefusalIsNoVote ==
  ASSUME BaseInv, NEW m \in net, m.req, NEW t \in Nat, NEW ok \in BOOLEAN, ok => m.kind = "append"
  PROVE  NoVotes({m}, Reply(m, t, ok))
  <1>1. m \in Message
    BY DEF BaseInv, RaftTypeOK
  <1> SUFFICES ASSUME NEW n \in Reply(m, t, ok), LiveVote(n)
               PROVE  /\ LiveVote(m) /\ ~n.req /\ n.from = m.from /\ n.to = m.to /\ ~n.ok
                      /\ \A k \in Reply(m, t, ok) : k = n
    BY DEF NoVotes
  <1>2. /\ m.live /\ n.live /\ ~n.req /\ n.kind = m.kind /\ n.from = m.from /\ n.to = m.to
        /\ n.ok = ok /\ \A k \in Reply(m, t, ok) : k = n
    BY SMTT(100), <1>1, ReplyIs
  <1>3. m.kind = "vote" /\ ~ok
    BY <1>2 DEF LiveVote
  <1> QED BY <1>2, <1>3 DEF LiveVote

LEMMA ElectRetires ==
  ASSUME BaseInv, BaseInv', NEW V, NEW C, ElectGood(V, C),
         \/ \E s, x, G : Resigns(s, x, G)
         \/ \E m, x : VoteRefused(m, x) \/ LogBroken(m, x)
         \/ \E m, x, ok : LogTaken(m, x, ok)
  PROVE  ElectGood(V, C)'
  <1>1. ASSUME NEW s, NEW x, NEW G, Resigns(s, x, G) PROVE ElectGood(V, C)'
    <2>1. Retires(s, x, G, {}) /\ VoteKept(s, x) /\ (won' = won \/ Wins(s))
      BY <1>1 DEF Resigns
    <2>2. NoVotes(G, {})
      BY DEF NoVotes
    <2>3. (\A p \in Server : VoteFrame(p)) /\ NetStep(G, {}) /\ s \in Server
      BY <2>1, FrameRetires
    <2>4. \A w \in won' : w \in won \/ Backed(V, w)
      BY <2>1, <2>3, WinnerBacked
    <2> QED BY <2>2, <2>3, <2>4, ElectSame
  <1>2. ASSUME NEW m, NEW x, VoteRefused(m, x) PROVE ElectGood(V, C)'
    <2>1. /\ Retires(m.to, x, {m}, Reply(m, x.term, FALSE)) /\ VoteKept(m.to, x) /\ won' = won
          /\ m \in net /\ m.req /\ x.term \in Nat
      BY <1>2 DEF VoteRefused, VoteRequest, Retires, ServerRec
    <2>2. NoVotes({m}, Reply(m, x.term, FALSE))
      BY <2>1, RefusalIsNoVote
    <2>3. (\A p \in Server : VoteFrame(p)) /\ NetStep({m}, Reply(m, x.term, FALSE))
      BY <2>1, FrameRetires
    <2> QED BY <2>1, <2>2, <2>3, ElectSame
  <1>3. ASSUME NEW m, NEW x, LogBroken(m, x) PROVE ElectGood(V, C)'
    <2>1. Retires(m.to, x, {m}, {}) /\ VoteKept(m.to, x) /\ won' = won
      BY <1>3 DEF LogBroken, Halfway
    <2>2. NoVotes({m}, {})
      BY DEF NoVotes
    <2>3. (\A p \in Server : VoteFrame(p)) /\ NetStep({m}, {})
      BY <2>1, FrameRetires
    <2> QED BY <2>1, <2>2, <2>3, ElectSame
  <1>4. ASSUME NEW m, NEW x, NEW ok, LogTaken(m, x, ok) PROVE ElectGood(V, C)'
    <2>1. /\ Retires(m.to, x, {m}, Reply(m, x.term, ok)) /\ VoteKept(m.to, x) /\ won' = won
          /\ m \in net /\ m.req /\ m.kind = "append" /\ x.term \in Nat /\ ok \in BOOLEAN
      BY <1>4 DEF LogTaken, AppendRequest, Retires, ServerRec
    <2>2. NoVotes({m}, Reply(m, x.term, ok))
      BY <2>1, RefusalIsNoVote
    <2>3. (\A p \in Server : VoteFrame(p)) /\ NetStep({m}, Reply(m, x.term, ok))
      BY <2>1, FrameRetires
    <2> QED BY <2>1, <2>2, <2>3, ElectSame
  <1> QED BY <1>1, <1>2, <1>3, <1>4

LEMMA FrameOne ==
  ASSUME BaseInv, NEW s \in Server, NEW x, sv' = [sv EXCEPT ![s] = x], x.term = sv[s].term,
         x.voted = sv[s].voted, (x.votes = sv[s].votes /\ x.st = sv[s].st) \/ x.st = "leader"
  PROVE  \A p \in Server : VoteFrame(p)
  <1>1. \A p \in Server : sv'[p] = IF p = s THEN x ELSE sv[p]
    BY DEF BaseInv, RaftTypeOK
  <1>2. \A n \in Nat : n <= n
    BY SMTT(100)
  <1>3. \A p \in Server : sv[p].term <= sv[p].term
    BY <1>2 DEF BaseInv, RaftTypeOK, ServerRec
  <1>4. ASSUME NEW p \in Server, p # s PROVE VoteFrame(p)
    <2>1. sv'[p] = sv[p]
      BY <1>1, <1>4
    <2> QED BY <2>1, FrameSame
  <1>5. "leader" # "candidate" /\ sv'[s] = x
    BY <1>1
  <1>6. VoteFrame(s)
    BY <1>3, <1>5 DEF VoteFrame, NoNewVotes, Campaigning
  <1> QED BY <1>4, <1>6

LEMMA ElectIdles ==
  ASSUME BaseInv, BaseInv', NEW V, NEW C, ElectGood(V, C),
         \/ \E G : Idles(G, {})
         \/ \E m : Unmoved(m)
         \/ \E s, x : Leads(s, x) \/ Allocates(s, x)
         \/ \E s, p, x, m : Calls(s, p, x, m)
         \/ \E m, x : Answered(m, x)
  PROVE  ElectGood(V, C)'
  <1>1. \A G : NoVotes(G, {})
    BY DEF NoVotes
  <1>2. ASSUME NEW G, NEW R, Idles(G, R), NoVotes(G, R) PROVE ElectGood(V, C)'
    <2>1. \A p \in Server : VoteFrame(p)
      BY <1>2, FrameSame DEF Idles, Steady
    <2> QED BY <1>2, <2>1, ElectSame DEF Idles
  <1>3. ASSUME NEW m, Unmoved(m) PROVE ElectGood(V, C)'
    <2>1. m \in net /\ m.req /\ \A n \in Message : n.to \in Server
      BY <1>3 DEF Unmoved, Message, VoteRequest, AppendRequest, Response
    <2>2. sv[m.to].term \in Nat
      BY <2>1 DEF BaseInv, RaftTypeOK, ServerRec
    <2>3. NoVotes({m}, Reply(m, sv[m.to].term, FALSE))
      BY <2>1, <2>2, RefusalIsNoVote
    <2> QED BY <1>1, <1>2, <1>3, <2>3 DEF Unmoved
  <1>4. ASSUME NEW s, NEW x, Leads(s, x) PROVE ElectGood(V, C)'
    <2>1. /\ s \in Server /\ Wins(s) /\ NetStep({}, {}) /\ sv' = [sv EXCEPT ![s] = x]
          /\ x.term = sv[s].term /\ x.voted = sv[s].voted /\ x.st = "leader"
      BY <1>4 DEF Leads, Quiet
    <2>2. \A p \in Server : VoteFrame(p)
      BY <2>1, FrameOne
    <2>3. \A w \in won' : w \in won \/ Backed(V, w)
      BY <2>1, WinnerBacked
    <2> QED BY <1>1, <2>1, <2>2, <2>3, ElectSame
  <1>5. ASSUME NEW s, NEW x, Allocates(s, x) PROVE ElectGood(V, C)'
    <2>1. /\ s \in Server /\ won' = won /\ net' = net /\ sv' = [sv EXCEPT ![s] = x]
          /\ x.term = sv[s].term /\ x.voted = sv[s].voted /\ x.st = "leader"
      BY <1>5 DEF Allocates
    <2>2. NetStep({}, {})
      BY <2>1 DEF NetStep
    <2>3. \A p \in Server : VoteFrame(p)
      BY <2>1, FrameOne
    <2> QED BY <1>1, <2>1, <2>2, <2>3, ElectSame
  <1>6. ASSUME NEW s, NEW p, NEW x, NEW m, Calls(s, p, x, m) PROVE ElectGood(V, C)'
    <2>1. /\ s \in Server /\ won' = won /\ sv' = [sv EXCEPT ![s] = x]
          /\ x.term = sv[s].term /\ x.voted = sv[s].voted /\ x.st = "leader"
          /\ m \in AppendRequest
          /\ \A n \in net' \ {m} :
               n \in net \/ \E k \in net : k.live /\ k.req /\ n = Late(k) /\ k \notin net'
      BY <1>6 DEF Calls
    <2>2. NetStep({}, {m})
      BY <2>1 DEF NetStep
    <2>3. NoVotes({}, {m})
      BY <2>1 DEF NoVotes, LiveVote, AppendRequest
    <2>4. \A q \in Server : VoteFrame(q)
      BY <2>1, FrameOne
    <2> QED BY <2>1, <2>2, <2>3, <2>4, ElectSame
  <1>7. ASSUME NEW m, NEW x, Answered(m, x) PROVE ElectGood(V, C)'
    <2>1. /\ m.from \in Server /\ won' = won /\ sv' = [sv EXCEPT ![m.from] = x]
          /\ x.term = sv[m.from].term /\ x.voted = sv[m.from].voted
          /\ x.votes = sv[m.from].votes /\ x.st = sv[m.from].st /\ net' = net \ {m}
      BY <1>7 DEF Answered
    <2>2. NetStep({}, {})
      BY <2>1 DEF NetStep
    <2>3. \A p \in Server : VoteFrame(p)
      BY <2>1, FrameOne
    <2> QED BY <1>1, <2>1, <2>2, <2>3, ElectSame
  <1> QED BY <1>1, <1>2, <1>3, <1>4, <1>5, <1>6, <1>7

\* A vote that is given stays given.
Given(V, p, t, q) == [V EXCEPT ![p] = [V[p] EXCEPT ![t] = q]]

AddsVote(W, V, p, t, q) ==
  /\ W \in [Server -> [Nat -> Server \cup {Nobody}]] /\ Extends(W, V) /\ W[p][t] = q
  /\ \A o \in Server, u \in Nat : o # p \/ u # t => W[o][u] = V[o][u]

LEMMA GivenIs ==
  ASSUME NEW V \in [Server -> [Nat -> Server \cup {Nobody}]], NEW p \in Server, NEW t \in Nat,
         NEW q \in Server, V[p][t] \in {Nobody, q}
  PROVE  AddsVote(Given(V, p, t, q), V, p, t, q)
  <1> DEFINE W == Given(V, p, t, q)
  <1>1. W \in [Server -> [Nat -> Server \cup {Nobody}]]
    BY DEF Given
  <1>2. \A o \in Server, u \in Nat : W[o][u] = IF o = p /\ u = t THEN q ELSE V[o][u]
    BY SMTT(100) DEF Given
  <1> HIDE DEF W
  <1>3. AddsVote(W, V, p, t, q)
    BY <1>1, <1>2 DEF AddsVote, Extends
  <1> QED BY <1>3 DEF W

LEMMA ElectGrants ==
  ASSUME BaseInv, BaseInv', NEW V, NEW C, ElectGood(V, C), NEW m, NEW x, VoteGranted(m, x)
  PROVE  \E W : ElectGood(W, C)'
  <1> DEFINE p == m.to
             W == Given(V, p, m.term, m.from)
  <1>1. /\ V \in [Server -> [Nat -> Server \cup {Nobody}]] /\ VotesStored(V)
        /\ sv \in [Server -> ServerRec] /\ Nobody \notin Server
    BY RaftAssumption DEF ElectGood, VotesTyped, BaseInv, RaftTypeOK
  <1>2. /\ m \in net /\ m \in Message /\ m.from # m.to /\ p \in Server /\ m.from \in Server
        /\ m.term \in Nat /\ m.kind = "vote" /\ m.req /\ sv[p].term \in Nat
    BY DEF VoteGranted, VoteRequest, BaseInv, RaftTypeOK, ServerRec
  <1>3. /\ sv' = [sv EXCEPT ![p] = x] /\ x \in ServerRec /\ sv[p].term <= x.term
        /\ ~(x.st = "candidate" /\ x.votes > 0)
        /\ NetStep({m}, Reply(m, m.term, TRUE)) /\ x.term = m.term /\ x.voted = m.from /\ won' = won
        /\ sv[p].term = m.term => sv[p].voted \in {Nobody, m.from}
    BY DEF VoteGranted, Retires, Quiet
  <1>4. /\ \A t \in Nat : V[p][t] # Nobody => t <= sv[p].term
        /\ V[p][sv[p].term] # Nobody => sv[p].voted \in {V[p][sv[p].term], p}
    BY <1>1, <1>2 DEF VotesStored
  <1>5. V[p][m.term] \in {Nobody, m.from}
    <2>1. m.term <= sv[p].term => m.term = sv[p].term
      BY SMTT(100), <1>2, <1>3
    <2>2. V[p][m.term] # Nobody => m.term = sv[p].term
      BY <1>2, <1>4, <2>1
    <2> QED BY <1>1, <1>2, <1>3, <1>4, <2>2
  <1>6. /\ W \in [Server -> [Nat -> Server \cup {Nobody}]] /\ Extends(W, V)
        /\ W[p][m.term] = m.from
        /\ \A o \in Server, u \in Nat : o # p \/ u # m.term => W[o][u] = V[o][u]
    <2>1. AddsVote(W, V, p, m.term, m.from)
      BY <1>1, <1>2, <1>5, GivenIs
    <2> QED BY <2>1 DEF AddsVote
  <1> HIDE DEF W
  <1>7. \A o \in Server : sv'[o] = IF o = p THEN x ELSE sv[o]
    BY <1>1, <1>3
  <1>8. VotesStored(W)'
    <2>1. \A t \in Nat : t <= sv[p].term => t <= m.term
      BY SMTT(100), <1>2, <1>3
    <2>2. \A t \in Nat : W[p][t] # Nobody => t <= m.term
      <3>1. m.term <= m.term
        BY SMTT(100), <1>2
      <3> QED BY <1>2, <1>4, <1>6, <2>1, <3>1
    <2>3. ASSUME NEW o \in Server, o # p
          PROVE  /\ \A t \in Nat : W[o][t] # Nobody => t <= sv'[o].term
                 /\ W[o][sv'[o].term] # Nobody => sv'[o].voted \in {W[o][sv'[o].term], o}
      <3>1. sv'[o] = sv[o] /\ sv[o].term \in Nat /\ \A t \in Nat : W[o][t] = V[o][t]
        BY <1>1, <1>6, <1>7, <2>3 DEF ServerRec
      <3> QED BY <1>1, <3>1 DEF VotesStored
    <2>4. sv'[p].term = m.term /\ sv'[p].voted = m.from
      BY <1>2, <1>3, <1>7
    <2> QED BY <1>6, <2>2, <2>3, <2>4 DEF VotesStored
  <1>9. \A s \in Server : NoNewVotes(s)
    BY <1>3, <1>7 DEF NoNewVotes, Campaigning
  <1>10. GivenVotes(W, {m}, Reply(m, m.term, TRUE))
    <2> SUFFICES ASSUME NEW n \in Reply(m, m.term, TRUE), LiveVote(n)
                 PROVE  /\ LiveVote(m) /\ ~n.req /\ n.from = m.from /\ n.to = m.to
                        /\ \A k \in Reply(m, m.term, TRUE) : k = n
      BY <1>2, <1>6 DEF GivenVotes
    <2>1. /\ m.live /\ ~n.req /\ n.from = m.from /\ n.to = m.to
          /\ \A k \in Reply(m, m.term, TRUE) : k = n
      <3>1. \A ok \in BOOLEAN : n \in Reply(m, m.term, ok) =>
              /\ m.live /\ ~n.req /\ n.from = m.from /\ n.to = m.to
              /\ \A k \in Reply(m, m.term, ok) : k = n
        BY SMTT(100), <1>2, ReplyIs
      <3> QED BY <3>1
    <2> QED BY <1>2, <2>1 DEF LiveVote
  <1>11. \A w \in won' : w \in won \/ Backed(W, w)
    BY <1>3
  <1>12. ElectGood(W, C)'
    BY <1>3, <1>6, <1>8, <1>9, <1>10, <1>11, ElectKept
  <1> QED BY <1>12

-----------------------------------------------------------------------------
INSTANCE FiniteSetTheorems

\* A candidate votes for itself in a term it has given no vote in.
LEMMA ElectCampaigns ==
  ASSUME BaseInv, BaseInv', NEW V, NEW C, ElectGood(V, C), NEW s, NEW x, Campaigns(s, x)
  PROVE  \E W, D : ElectGood(W, D)'
  <1> DEFINE W == Given(V, s, x.term, s)
             D == [C EXCEPT ![s] = {s}]
  <1>1. /\ V \in [Server -> [Nat -> Server \cup {Nobody}]] /\ C \in [Server -> SUBSET Server]
        /\ VotesStored(V) /\ VoteCalls(V, C) /\ VotesCounted(V, C)
        /\ \A w \in won : Backed(V, w)
        /\ sv \in [Server -> ServerRec] /\ Nobody \notin Server /\ won \subseteq Nat \X Server
        /\ VotesTyped(V, C) /\ net \subseteq Message
    BY RaftAssumption DEF ElectGood, VotesTyped, BaseInv, RaftTypeOK
  <1>2. /\ s \in Server /\ sv[s].term \in Nat /\ x.term \in Nat /\ x.term = sv[s].term + 1
        /\ sv' = [sv EXCEPT ![s] = x] /\ won' = won /\ ~Campaigning(s)
        /\ x.votes = 1 /\ x.voted = s /\ s \notin x.known
        /\ \A n \in net' : \/ n \in net
                           \/ n \in VoteRequest /\ n.from = s /\ n.to \in x.known /\ n.term = x.term
        /\ \A k, n \in net' : k.live /\ n.live /\ k.from = s /\ n.from = s /\ k.to = n.to => k = n
    BY <1>1 DEF Campaigns, ServerRec, BaseInv, RaftTypeOK
  <1>3. \A t \in Nat : t <= sv[s].term => t <= x.term /\ t # x.term
    BY SMTT(100), <1>2
  <1>4. V[s][x.term] = Nobody
    BY <1>1, <1>2, <1>3 DEF VotesStored
  <1>5. AddsVote(W, V, s, x.term, s)
    BY <1>1, <1>2, <1>4, GivenIs
  <1>6. /\ W \in [Server -> [Nat -> Server \cup {Nobody}]] /\ Extends(W, V) /\ W[s][x.term] = s
        /\ \A o \in Server, u \in Nat : o # s \/ u # x.term => W[o][u] = V[o][u]
    BY <1>5 DEF AddsVote
  <1>7. /\ D \in [Server -> SUBSET Server] /\ D[s] = {s}
        /\ \A o \in Server : o # s => D[o] = C[o]
    BY <1>1, <1>2
  <1> HIDE DEF W, D
  <1>8. \A o \in Server : sv'[o] = IF o = s THEN x ELSE sv[o]
    BY <1>1, <1>2
  <1>9. \A w \in won' : Backed(W, w)
    BY <1>1, <1>2, <1>6, BackedStill
  <1>10. VotesStored(W)'
    <2>1. x.term <= x.term
      BY SMTT(100), <1>2
    <2>2. \A t \in Nat : W[s][t] # Nobody => t <= x.term
      <3>1. \A t \in Nat : V[s][t] # Nobody => t <= sv[s].term
        BY <1>1, <1>2 DEF VotesStored
      <3> QED BY <1>2, <1>3, <1>6, <2>1, <3>1
    <2>3. ASSUME NEW o \in Server, o # s
          PROVE  /\ \A t \in Nat : W[o][t] # Nobody => t <= sv'[o].term
                 /\ W[o][sv'[o].term] # Nobody => sv'[o].voted \in {W[o][sv'[o].term], o}
      <3>1. sv'[o] = sv[o] /\ sv[o].term \in Nat /\ \A t \in Nat : W[o][t] = V[o][t]
        BY <1>1, <1>6, <1>8, <2>3 DEF ServerRec
      <3> QED BY <1>1, <3>1 DEF VotesStored
    <2>4. sv'[s] = x
      BY <1>2, <1>8
    <2> QED BY <1>2, <1>6, <2>2, <2>3, <2>4 DEF VotesStored
  <1>11. \A o \in Server : sv[o].term \in Nat /\ o # Nobody
    BY <1>1 DEF ServerRec
  <1>12. \A p, q \in Server, t \in Nat : V[p][t] = q => W[p][t] = q
    BY SMTT(100), <1>6, <1>11 DEF Extends
  <1>13. VotesCounted(W, D)'
    <2>1. Cardinality({s}) = 1
      BY FS_Singleton
    <2>2. ASSUME NEW o \in Server, o # s, Campaigning(o)'
          PROVE  sv'[o].votes = Cardinality(D[o]) /\ \A p \in D[o] : W[p][sv'[o].term] = o
      <3>1. sv'[o] = sv[o] /\ Campaigning(o) /\ D[o] = C[o] /\ C[o] \subseteq Server
        BY <1>1, <1>7, <1>8, <2>2 DEF Campaigning
      <3>2. sv[o].votes = Cardinality(C[o]) /\ \A p \in C[o] : V[p][sv[o].term] = o
        BY <1>1, <3>1 DEF VotesCounted
      <3>3. \A p \in C[o] : W[p][sv[o].term] = o
        BY SMTT(100), <1>11, <1>12, <3>1, <3>2
      <3> QED BY <3>1, <3>2, <3>3
    <2>3. sv'[s] = x
      BY <1>2, <1>8
    <2> QED BY <1>2, <1>6, <1>7, <2>1, <2>2, <2>3 DEF VotesCounted
  <1>14. \A n \in Message : n.from \in Server /\ n.to \in Server
    BY DEF Message, VoteRequest, AppendRequest, Response
  <1>15. \A n \in net' : n \in net /\ LiveVote(n) => n.from # s
    BY <1>2 DEF BaseInv, CallsOK
  <1>16. \A n \in net' : LiveVote(n) => VoteCall(W, D, n)'
    <2>1. ASSUME NEW n \in net', n \in net, LiveVote(n) PROVE VoteCall(W, D, n)'
      <3>1. /\ n.from \in Server /\ n.to \in Server /\ n.from # s
        BY <1>1, <1>14, <1>15, <2>1
      <3>2. VoteCall(V, C, n) /\ sv'[n.from] = sv[n.from] /\ D[n.from] = C[n.from]
        BY <1>1, <1>7, <1>8, <2>1, <3>1 DEF VoteCalls
      <3>3. ~n.req /\ n.ok => W[n.to][sv[n.from].term] = n.from
        BY SMTT(100), <1>11, <1>12, <3>1, <3>2 DEF VoteCall
      <3> QED BY <3>2, <3>3 DEF VoteCall
    <2>2. ASSUME NEW n \in net', n \in VoteRequest, n.from = s, n.to \in x.known, n.term = x.term
          PROVE  VoteCall(W, D, n)'
      <3>1. n.req /\ sv'[s] = x
        BY <1>2, <1>8, <2>2 DEF VoteRequest
      <3> QED BY <1>2, <1>7, <2>2, <3>1 DEF VoteCall
    <2> QED BY <1>2, <2>1, <2>2
  <1>17. ASSUME NEW k \in net', NEW n \in net', LiveVote(k), LiveVote(n), k.from = n.from, k.to = n.to
         PROVE  k = n
    <2>1. CASE n.from = s
      BY <1>2, <1>17, <2>1 DEF LiveVote
    <2>2. CASE n.from # s
      <3>1. k \in net /\ n \in net
        BY <1>2, <1>17, <2>2
      <3> QED BY <1>1, <1>17, <3>1 DEF VoteCalls
    <2> QED BY <2>1, <2>2
  <1>18. VoteCalls(W, D)'
    BY <1>16, <1>17 DEF VoteCalls
  <1>19. ElectGood(W, D)'
    BY <1>6, <1>7, <1>9, <1>10, <1>13, <1>18 DEF ElectGood, VotesTyped
  <1> QED BY <1>19

LEMMA ElectCounts ==
  ASSUME BaseInv, BaseInv', NEW V, NEW C, ElectGood(V, C), NEW m, NEW x, Counts(m, x)
  PROVE  \E D : ElectGood(V, D)'
  <1> DEFINE s == m.from
             D == [C EXCEPT ![s] = C[s] \cup {m.to}]
  <1>1. /\ V \in [Server -> [Nat -> Server \cup {Nobody}]] /\ C \in [Server -> SUBSET Server]
        /\ VotesStored(V) /\ VoteCalls(V, C) /\ VotesCounted(V, C)
        /\ \A w \in won : Backed(V, w)
        /\ sv \in [Server -> ServerRec] /\ net \subseteq Message
    BY DEF ElectGood, VotesTyped, BaseInv, RaftTypeOK
  <1>2. /\ m \in net /\ ~m.req /\ m.live /\ m.kind = "vote" /\ m.ok /\ s \in Server /\ m.to \in Server
        /\ Campaigning(s) /\ sv' = [sv EXCEPT ![s] = x] /\ won' = won /\ net' = net \ {m}
        /\ x.votes = sv[s].votes + 1 /\ x.term = sv[s].term /\ x.voted = sv[s].voted
    BY DEF Counts, Response
  <1>3. /\ LiveVote(m) /\ m.to \notin C[s] /\ V[m.to][sv[s].term] = s
    BY <1>1, <1>2 DEF VoteCalls, VoteCall, LiveVote
  <1>4. /\ D \in [Server -> SUBSET Server] /\ D[s] = C[s] \cup {m.to}
        /\ \A o \in Server : o # s => D[o] = C[o]
    BY <1>1, <1>2
  <1>5. Cardinality(D[s]) = Cardinality(C[s]) + 1
    <2>1. IsFiniteSet(C[s])
      BY <1>1, <1>2, RaftAssumption, FS_Subset
    <2> QED BY <1>3, <1>4, <2>1, FS_AddElement
  <1> HIDE DEF D
  <1>6. \A o \in Server : sv'[o] = IF o = s THEN x ELSE sv[o]
    BY <1>1, <1>2
  <1>7. \A o \in Server : sv'[o].term = sv[o].term /\ sv'[o].voted = sv[o].voted
    BY <1>2, <1>6
  <1>8. VotesStored(V)'
    BY <1>1, <1>7 DEF VotesStored
  <1>9. VotesCounted(V, D)'
    <2>1. /\ sv[s].votes = Cardinality(C[s]) /\ \A p \in C[s] : V[p][sv[s].term] = s
      BY <1>1, <1>2 DEF VotesCounted
    <2>2. sv'[s].votes = Cardinality(D[s]) /\ \A p \in D[s] : V[p][sv'[s].term] = s
      <3>1. sv'[s] = x /\ \A p \in D[s] : p \in C[s] \/ p = m.to
        BY <1>2, <1>4, <1>6
      <3>2. x.votes = Cardinality(D[s])
        BY <1>2, <1>5, <2>1
      <3>3. \A p \in D[s] : V[p][sv[s].term] = s
        BY <1>3, <2>1, <3>1
      <3> QED BY <1>2, <3>1, <3>2, <3>3
    <2>3. ASSUME NEW o \in Server, o # s, Campaigning(o)'
          PROVE  sv'[o].votes = Cardinality(D[o]) /\ \A p \in D[o] : V[p][sv'[o].term] = o
      <3>1. sv'[o] = sv[o] /\ Campaigning(o) /\ D[o] = C[o]
        BY <1>4, <1>6, <2>3 DEF Campaigning
      <3> QED BY <1>1, <3>1 DEF VotesCounted
    <2> QED BY <2>2, <2>3 DEF VotesCounted
  <1>10. ASSUME NEW n \in net', LiveVote(n) PROVE VoteCall(V, D, n)'
    <2>1. n.from \in Server /\ n \in net /\ n # m
      BY <1>1, <1>2, <1>10 DEF Message, VoteRequest, AppendRequest, Response
    <2>2. VoteCall(V, C, n)
      BY <1>1, <1>10, <2>1 DEF VoteCalls
    <2>3. n.from = s => n.to # m.to
      BY <1>1, <1>2, <1>3, <1>10, <2>1 DEF VoteCalls
    <2>4. n.to \notin D[n.from]
      BY <1>4, <2>1, <2>2, <2>3 DEF VoteCall
    <2> QED BY <1>7, <2>1, <2>2, <2>4 DEF VoteCall
  <1>11. VoteCalls(V, D)'
    BY <1>1, <1>2, <1>10 DEF VoteCalls
  <1>12. ElectGood(V, D)'
    BY <1>1, <1>2, <1>4, <1>8, <1>9, <1>11 DEF ElectGood, VotesTyped
  <1> QED BY <1>12

LEMMA ElectStep ==
  ASSUME ElectInv, [RaftNext]_raftVars
  PROVE  ElectInv'
  <1>1. BaseInv /\ Effect
    BY StepIs DEF ElectInv
  <1>2. BaseInv'
    BY <1>1, BaseStep
  <1>3. PICK V, C : ElectGood(V, C)
    BY DEF ElectInv
  <1>4. \E W, D : ElectGood(W, D)'
    BY <1>1, <1>2, <1>3, ElectRetires, ElectIdles, ElectGrants, ElectCampaigns, ElectCounts
       DEF Effect
  <1> QED BY <1>2, <1>4 DEF ElectInv

LEMMA ElectImplies == ElectInv => ElectionSafety
  <1> SUFFICES ASSUME ElectInv, NEW a \in won, NEW b \in won, a[1] = b[1] PROVE a[2] = b[2]
    BY DEF ElectionSafety
  <1>1. PICK V, C : ElectGood(V, C)
    BY DEF ElectInv
  <1>2. PICK Q \in SUBSET Server : Cardinality(Q) >= QuorumSize /\ \A p \in Q : V[p][a[1]] = a[2]
    BY <1>1 DEF ElectGood, Backed
  <1>3. PICK P \in SUBSET Server : Cardinality(P) >= QuorumSize /\ \A p \in P : V[p][b[1]] = b[2]
    BY <1>1 DEF ElectGood, Backed
  <1>4. IsFiniteSet(Server) /\ IsFiniteSet(P) /\ IsFiniteSet(Q)
    BY RaftAssumption, FS_Subset
  <1>5. Cardinality(Server) \in Nat /\ Cardinality(P) \in Nat /\ Cardinality(Q) \in Nat
    BY <1>4, FS_CardinalityType
  <1>6. Cardinality(P) + Cardinality(Q) > Cardinality(Server)
    BY SMTT(100), <1>2, <1>3, <1>5 DEF QuorumSize
  <1>7. P \cap Q # {}
    BY <1>4, <1>6, FS_MajoritiesIntersect
  <1>8. PICK p \in Server : p \in P /\ p \in Q
    BY <1>7
  <1>9. V[p][a[1]] = a[2] /\ V[p][b[1]] = b[2]
    BY <1>2, <1>3, <1>8
  <1> QED BY SMTT(100), <1>9

\* No two servers win the election of a term, whatever the size of the cluster and the
\* number of timeouts, crashes, failed writes and late requests: a vote is in the storage
\* of the voter before the response that grants it is sent.
THEOREM OneLeaderPerTerm == RaftSpec => []ElectionSafety
  BY ElectInit, ElectStep, ElectImplies, PTL DEF RaftSpec

\* The whole invariant: who has voted for whom, what each leader has written, and what
\* a leader may count on.
RaftInv == ElectInv /\ (\E E : LogGood(E)) /\ MatchGood

LEMMA RaftInvInit == RaftInit => RaftInv
  BY ElectInit, LogInit DEF RaftInv

LEMMA RaftInvStep ==
  ASSUME RaftInv, [RaftNext]_raftVars
  PROVE  RaftInv'
  <1>1. BaseInv /\ Effect /\ ElectionSafety /\ MatchGood
    BY StepIs, ElectImplies DEF RaftInv, ElectInv
  <1>2. PICK E : LogGood(E)
    BY DEF RaftInv
  <1>3. ElectInv'
    BY ElectStep DEF RaftInv
  <1>4. BaseInv'
    BY <1>1, BaseStep
  <1>5. ElectionSafety'
    BY <1>3, ElectImplies, PTL
  <1>6. \E F : LogGood(F)'
    BY <1>1, <1>2, <1>4, <1>5, LogStep
  <1>7. MatchGood'
    BY <1>1, <1>2, <1>4, MatchStep
  <1> QED BY <1>3, <1>6, <1>7 DEF RaftInv

LEMMA RaftInvImplies == RaftInv => LogsAgree /\ NodeIDsOnce
  BY LogImplies, MatchImplies DEF RaftInv, ElectInv, LogsAgree

\* Logs that have an entry of the same term at an index are the same up to it, and a
\* leader counts on a server of its term only for what that server has stored, although
\* requests are served late, calls are lost and every write to storage may fail.
THEOREM LogsAlwaysAgree == RaftSpec => []LogsAgree
  BY RaftInvInit, RaftInvStep, RaftInvImplies, PTL DEF RaftSpec

\* No log gives a node ID away twice: a leader enters an ID that its log does not have,
\* and what it overwrites in another log is replaced by a part of its own.
THEOREM NodeIDsGivenOnce == RaftSpec => []NodeIDsOnce
  BY RaftInvInit, RaftInvStep, RaftInvImplies, PTL DEF RaftSpec
=============================================================================
