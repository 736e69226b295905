------------------------------ MODULE RaftLogs ------------------------------
(***************************************************************************)
(* The logs of RaftCore and what a leader counts on: every step keeps them *)
(* sound, as long as no term has two leaders.                              *)
(***************************************************************************)
EXTENDS RaftSteps

USE ZenonT(100)

-----------------------------------------------------------------------------
\* Logs.  Two agree on the first n entries.
Agreed(l, e, n) == n <= Len(l) /\ n <= Len(e) /\ \A j \in 1..n : l[j] = e[j]
Begins(l, e) == Agreed(l, e, Len(l))

LEMMA AgreedIs ==
  ASSUME NEW l \in Seq(Entry), NEW e \in Seq(Entry), NEW n \in Nat, Agreed(l, e, n)
  PROVE  /\ Agreed(e, l, n)
         /\ \A k \in 0..n : Agreed(l, e, k)
         /\ \A f \in Seq(Entry) : Agreed(e, f, n) => Agreed(l, f, n)
         /\ SubSeq(l, 1, n) = SubSeq(e, 1, n)
         /\ \A k \in 1..n : l[k] = e[k] /\ k \in 1..Len(l) /\ k \in 1..Len(e)
  <1>1. /\ Agreed(e, l, n) /\ \A k \in 0..n : Agreed(l, e, k)
        /\ \A k \in 1..n : l[k] = e[k] /\ k \in 1..Len(l) /\ k \in 1..Len(e)
    BY SMTT(100) DEF Agreed
  <1>2. \A f \in Seq(Entry) : Agreed(e, f, n) => Agreed(l, f, n)
    BY SMTT(100) DEF Agreed
  <1>3. SubSeq(l, 1, n) = SubSeq(e, 1, n)
    BY SMTT(100) DEF Agreed
  <1> QED BY <1>1, <1>2, <1>3

\* E[t] is the log of the leader of term t, as long as it got.  What a log has at an index
\* and before it is what the leader of that entry's term had.
LogOK(l, E) == \A i \in 1..Len(l) : Agreed(l, E[l[i].term], i)
NodesOnce(l) == \A i, j \in 1..Len(l) : l[i].node = l[j].node => i = j
Sound(l, E) == LogOK(l, E) /\ NodesOnce(l)

LEMMA BeginsSound ==
  ASSUME NEW E \in [Nat -> Seq(Entry)], NEW l \in Seq(Entry), NEW e \in Seq(Entry),
         Begins(l, e), Sound(e, E)
  PROVE  Sound(l, E)
  <1>1. Len(l) \in Nat /\ Len(e) \in Nat /\ Agreed(l, e, Len(l))
    BY SMTT(100) DEF Begins
  <1>2. \A k \in 1..Len(l) : l[k] = e[k] /\ k \in 1..Len(e)
    BY SMTT(100), <1>1 DEF Agreed
  <1>3. NodesOnce(l)
    BY <1>2 DEF Sound, NodesOnce
  <1>4. ASSUME NEW i \in 1..Len(l) PROVE Agreed(l, E[l[i].term], i)
    <2>1. i \in Nat /\ i \in 0..Len(l) /\ l[i] \in Entry
      BY SMTT(100), <1>1
    <2>2. Agreed(l, e, i)
      BY <1>1, <2>1, AgreedIs
    <2> DEFINE f == E[l[i].term]
    <2>3. Agreed(e, f, i) /\ f \in Seq(Entry)
      BY <1>2, <2>1 DEF Sound, LogOK, Entry
    <2> HIDE DEF f
    <2>4. Agreed(l, f, i)
      BY <2>1, <2>2, <2>3, AgreedIs
    <2> QED BY <2>4 DEF f
  <1> QED BY <1>3, <1>4 DEF Sound, LogOK

\* Leaders' logs only grow.
Grows(F, E) == \A t \in Nat : Begins(E[t], F[t])

LEMMA GrowsSound ==
  ASSUME NEW E \in [Nat -> Seq(Entry)], NEW F \in [Nat -> Seq(Entry)], Grows(F, E),
         NEW l \in Seq(Entry), Sound(l, E)
  PROVE  Sound(l, F)
  <1>1. ASSUME NEW i \in 1..Len(l) PROVE Agreed(l, F[l[i].term], i)
    <2>1. i \in Nat /\ l[i] \in Entry
      BY SMTT(100)
    <2>2. Agreed(l, E[l[i].term], i) /\ Begins(E[l[i].term], F[l[i].term])
          /\ E[l[i].term] \in Seq(Entry) /\ F[l[i].term] \in Seq(Entry)
      BY <2>1 DEF Sound, LogOK, Grows, Entry
    <2> DEFINE e == E[l[i].term]
               f == F[l[i].term]
    <2> HIDE DEF e, f
    <2>3. e \in Seq(Entry) /\ f \in Seq(Entry) /\ Agreed(l, e, i) /\ Agreed(e, f, Len(e))
      BY <2>2 DEF e, f, Begins
    <2>4. i \in 0..Len(e) /\ Len(e) \in Nat
      BY SMTT(100), <2>1, <2>3 DEF Agreed
    <2>5. Agreed(e, f, i)
      BY <2>3, <2>4, AgreedIs
    <2>6. Agreed(l, f, i)
      BY <2>1, <2>3, <2>5, AgreedIs
    <2> QED BY <2>6 DEF f
  <1> QED BY <1>1 DEF Sound, LogOK

LEMMA BeginsAll ==
  ASSUME NEW l \in Seq(Entry)
  PROVE  /\ Begins(l, l) /\ Begins(<<>>, l)
         /\ \A k \in 0..Len(l) : SubSeq(l, 1, k) \in Seq(Entry) /\ Begins(SubSeq(l, 1, k), l)
         /\ \A v \in Entry : /\ Append(l, v) \in Seq(Entry) /\ Begins(l, Append(l, v))
  BY SMTT(100) DEF Begins, Agreed

LEMMA ElementIs ==
  ASSUME NEW l \in Seq(Entry), NEW i \in 1..Len(l)
  PROVE  l[i] \in Entry /\ i \in Nat
  BY SMTT(100)

\* A request carries a piece of the log of the leader of its term.
Slice(m, e) ==
  /\ m.prev + Len(m.entries) <= Len(e)
  /\ m.prev > 0 => m.prevterm = e[m.prev].term
  /\ \A i \in 1..Len(m.entries) : m.entries[i] = e[m.prev + i]

LEMMA FitsAgrees ==
  ASSUME NEW E \in [Nat -> Seq(Entry)], NEW e \in Seq(Entry), Sound(e, E),
         NEW m \in AppendRequest, Slice(m, e), NEW old \in Seq(Entry), Sound(old, E), Fits(m, old)
  PROVE  Agreed(old, e, m.prev)
  <1>0. m.prev \in Nat /\ m.entries \in Seq(Entry)
    BY DEF AppendRequest
  <1>1. CASE m.prev = 0
    <2>1. Agreed(old, e, 0)
      BY SMTT(100) DEF Agreed
    <2> QED BY <1>1, <2>1
  <1>2. CASE m.prev # 0
    <2> DEFINE n == m.prev
    <2>1. n \in 1..Len(old) /\ n \in 1..Len(e) /\ old[n].term = e[n].term
      <3>1. \A k \in Nat, q \in Seq(Entry), h, g \in Seq(Entry) :
              k # 0 /\ k <= Len(h) /\ k + Len(q) <= Len(g) => k > 0 /\ k \in 1..Len(h) /\ k \in 1..Len(g)
        BY SMTT(100)
      <3>2. n > 0 /\ n \in 1..Len(old) /\ n \in 1..Len(e)
        BY <1>0, <1>2, <3>1 DEF Fits, Slice
      <3> QED BY <3>2 DEF Fits, Slice
    <2>2. old[n] \in Entry
      BY <2>1, ElementIs
    <2> DEFINE f == E[old[n].term]
    <2>3. Agreed(old, f, n) /\ Agreed(e, f, n) /\ f \in Seq(Entry)
      BY <2>1, <2>2 DEF Sound, LogOK, Entry
    <2> HIDE DEF f
    <2>4. Agreed(f, e, n)
      BY <1>0, <2>3, AgreedIs
    <2> QED BY <1>0, <2>3, <2>4, AgreedIs
  <1> QED BY <1>1, <1>2

LEMMA ConcatIs ==
  ASSUME NEW h \in Seq(Entry), NEW r \in Seq(Entry)
  PROVE  /\ h \o r \in Seq(Entry) /\ Len(h \o r) = Len(h) + Len(r)
         /\ \A j \in 1..Len(h) + Len(r) : (h \o r)[j] = IF j <= Len(h) THEN h[j] ELSE r[j - Len(h)]
  BY SMTT(100)

LEMMA JoinAgrees ==
  ASSUME NEW e \in Seq(Entry), NEW old \in Seq(Entry), NEW q \in Seq(Entry), NEW p \in Nat,
         Agreed(old, e, p), p + Len(q) <= Len(e), \A i \in 1..Len(q) : q[i] = e[p + i],
         NEW i \in 0..Len(q)
  PROVE  LET l == SubSeq(old, 1, p) \o SubSeq(q, 1, i)
         IN /\ l \in Seq(Entry) /\ Len(l) = p + i /\ Agreed(l, e, p + i)
            /\ \A n \in 0..p : Agreed(l, e, n)
  <1> DEFINE h == SubSeq(old, 1, p)
             r == SubSeq(q, 1, i)
             l == h \o r
  <1>1. h \in Seq(Entry) /\ Len(h) = p /\ \A j \in 1..p : h[j] = e[j]
    BY SMTT(100) DEF Agreed
  <1>2. r \in Seq(Entry) /\ Len(r) = i /\ \A j \in 1..i : r[j] = e[p + j]
    BY SMTT(100)
  <1>3. p + i <= Len(e) /\ i \in Nat
    BY SMTT(100)
  <1> HIDE DEF h, r
  <1>4. /\ l \in Seq(Entry) /\ Len(l) = p + i
        /\ \A j \in 1..p + i : l[j] = e[j]
    <2>1. l \in Seq(Entry) /\ Len(l) = Len(h) + Len(r)
      BY <1>1, <1>2, ConcatIs
    <2>2. \A j \in 1..Len(h) + Len(r) : l[j] = IF j <= Len(h) THEN h[j] ELSE r[j - Len(h)]
      BY <1>1, <1>2, ConcatIs
    <2>3. \A j \in 1..p + i : l[j] = IF j <= p THEN h[j] ELSE r[j - p]
      BY <1>1, <1>2, <2>2
    <2> HIDE DEF l
    <2>4. \A j \in 1..p + i : l[j] = e[j]
      BY SMTT(100), <1>1, <1>2, <1>3, <2>3
    <2> QED BY <1>1, <1>2, <2>1, <2>4
  <1> HIDE DEF l
  <1>5. Agreed(l, e, p + i) /\ \A n \in 0..p : Agreed(l, e, n)
    BY SMTT(100), <1>3, <1>4 DEF Agreed
  <1> QED BY <1>4, <1>5 DEF l, h, r

LEMMA TakenAgrees ==
  ASSUME NEW e \in Seq(Entry), NEW m \in AppendRequest, Slice(m, e), NEW old \in Seq(Entry),
         Agreed(old, e, m.prev), NEW i \in 0..Len(m.entries)
  PROVE  LET l == SubSeq(old, 1, m.prev) \o SubSeq(m.entries, 1, i)
         IN /\ l \in Seq(Entry) /\ Len(l) = m.prev + i /\ Agreed(l, e, m.prev + i)
            /\ \A n \in 0..m.prev : Agreed(l, e, n)
  <1>0. m.prev \in Nat /\ m.entries \in Seq(Entry)
    BY DEF AppendRequest
  <1> QED BY <1>0, JoinAgrees DEF Slice

LEMMA CutAgrees ==
  ASSUME NEW e \in Seq(Entry), NEW old \in Seq(Entry), NEW p \in 1..Len(old), NEW n \in 0..p,
         Agreed(old, e, n)
  PROVE  /\ p - 1 \in 0..Len(old) /\ p > 0
         /\ n = p => old[p] = e[p]
         /\ n # p => Agreed(SubSeq(old, 1, p - 1), e, n)
  BY SMTT(100) DEF Agreed

\* What AppendEntries leaves is a beginning of the old log or of the leader's; and what the
\* old log had of the leader's up to the previous entry stays.
LEMMA LogFromIs ==
  ASSUME NEW E \in [Nat -> Seq(Entry)], NEW e \in Seq(Entry), Sound(e, E),
         NEW m \in AppendRequest, Slice(m, e), NEW old \in Seq(Entry), Sound(old, E),
         NEW l, LogFrom(m, old, l)
  PROVE  /\ l \in Seq(Entry) /\ (Begins(l, old) \/ Begins(l, e))
         /\ \A n \in 0..m.prev : Agreed(old, e, n) => Agreed(l, e, n)
  <1>0. m.prev \in Nat /\ m.entries \in Seq(Entry)
    BY DEF AppendRequest
  <1>1. CASE l = old
    BY <1>1, BeginsAll
  <1>2. CASE /\ m.prev \in 1..Len(old) /\ old[m.prev].term # m.prevterm
             /\ l = SubSeq(old, 1, m.prev - 1)
    <2>1. \A p \in 1..Len(old) : p - 1 \in 0..Len(old) /\ p > 0
      BY SMTT(100)
    <2>2. l \in Seq(Entry) /\ Begins(l, old)
      BY <1>2, <2>1, BeginsAll
    <2>3. ASSUME NEW n \in 0..m.prev, Agreed(old, e, n) PROVE Agreed(l, e, n)
      <3>1. n = m.prev => old[m.prev] = e[m.prev]
        BY <1>2, <2>3, CutAgrees
      <3>2. n # m.prev
        BY <1>2, <2>1, <3>1 DEF Slice
      <3> QED BY <1>2, <2>3, <3>2, CutAgrees
    <2> QED BY <2>2, <2>3
  <1>3. CASE /\ Fits(m, old)
             /\ \E i \in 0..Len(m.entries) : l = SubSeq(old, 1, m.prev) \o SubSeq(m.entries, 1, i)
    <2>1. PICK i \in 0..Len(m.entries) : l = SubSeq(old, 1, m.prev) \o SubSeq(m.entries, 1, i)
      BY <1>3
    <2>2. Agreed(old, e, m.prev)
      BY <1>3, FitsAgrees
    <2>3. /\ l \in Seq(Entry) /\ Len(l) = m.prev + i /\ Agreed(l, e, m.prev + i)
          /\ \A n \in 0..m.prev : Agreed(l, e, n)
      BY <2>1, <2>2, TakenAgrees
    <2> QED BY <2>3 DEF Begins
  <1> QED BY <1>1, <1>2, <1>3 DEF LogFrom

\* A step in which no leader's log grows and no request is made: what it does to terms,
\* leaders and logs.
TermFrame(p) ==
  /\ sv[p].term <= sv'[p].term
  /\ Campaigning(p)' /\ sv'[p].term = sv[p].term => Campaigning(p)

LeadFrame(p) ==
  sv'[p].st = "leader" => /\ sv[p].st = "leader" /\ sv'[p].term = sv[p].term
                          /\ sv'[p].log = sv[p].log

Takes(p, m) ==
  /\ m \in net /\ m \in AppendRequest /\ m.to = p /\ sv'[p].term = m.term
  /\ sv'[p].st # "leader" /\ LogFrom(m, sv[p].log, sv'[p].log)

LogFrame(p) == sv'[p].log = sv[p].log \/ \E m : Takes(p, m)

Frame(p) == TermFrame(p) /\ LeadFrame(p) /\ LogFrame(p)

WonFrame ==
  won' = won \/ \E s \in Server : Wins(s) /\ sv'[s].term = sv[s].term /\ ~Campaigning(s)'

RequestsFrom ==
  \A n \in net' : n \in AppendRequest => 
    \E k \in net : /\ k \in AppendRequest
                   /\ n = k \/ (k.live /\ n = Late(k) /\ k \notin net')

Still == (\A p \in Server : Frame(p)) /\ WonFrame /\ RequestsFrom

LEMMA FrameKept ==
  ASSUME BaseInv, NEW p \in Server, sv'[p].st = sv[p].st, sv'[p].term = sv[p].term,
         sv'[p].log = sv[p].log, Campaigning(p)' => Campaigning(p)
  PROVE  Frame(p)
  <1>1. \A n \in Nat : n <= n
    BY SMTT(100)
  <1>2. sv[p].term <= sv[p].term
    BY <1>1 DEF BaseInv, RaftTypeOK, ServerRec
  <1> QED BY <1>2 DEF Frame, TermFrame, LeadFrame, LogFrame

LEMMA FramesButOne ==
  ASSUME BaseInv, NEW s \in Server, NEW x, sv' = [sv EXCEPT ![s] = x], Frame(s)
  PROVE  \A p \in Server : Frame(p)
  <1>1. \A p \in Server : p # s => sv'[p] = sv[p]
    BY DEF BaseInv, RaftTypeOK
  <1>2. ASSUME NEW p \in Server, p # s PROVE Frame(p)
    <2>1. sv'[p] = sv[p]
      BY <1>1, <1>2
    <2> QED BY <2>1, FrameKept DEF Campaigning
  <1> QED BY <1>2

NoRequests(R) == \A n \in R : n \notin AppendRequest

LEMMA NetRequests ==
  ASSUME BaseInv, NEW G, NEW R, NetStep(G, R), NoRequests(R)
  PROVE  RequestsFrom
  <1> SUFFICES ASSUME NEW n \in net', n \in AppendRequest, n \notin net
               PROVE  \E k \in net : k \in AppendRequest /\ k.live /\ n = Late(k) /\ k \notin net'
    BY DEF RequestsFrom
  <1>1. PICK k \in net : k.live /\ k.req /\ n = Late(k) /\ k \notin net'
    BY DEF NetStep, NoRequests
  <1>2. k \in Message /\ n.kind = k.kind /\ n.kind = "append"
    <2>1. k \in Message
      BY <1>1 DEF BaseInv, RaftTypeOK
    <2> QED BY <1>1, <2>1, LateIs DEF AppendRequest
  <1>3. k \in AppendRequest
    BY <1>1, <1>2 DEF Message, VoteRequest, Response
  <1> QED BY <1>1, <1>3

LEMMA RetireStill ==
  ASSUME BaseInv, NEW s, NEW x, NEW G, NEW R, Retires(s, x, G, R),
         LogFrame(s), WonFrame,
         NoRequests(R)
  PROVE  Still
  <1>1. /\ s \in Server /\ sv' = [sv EXCEPT ![s] = x] /\ x.st # "leader"
        /\ ~(x.st = "candidate" /\ x.votes > 0) /\ sv[s].term <= x.term /\ NetStep(G, R)
    BY DEF Retires, Quiet
  <1>2. sv'[s] = x
    BY <1>1 DEF BaseInv, RaftTypeOK
  <1>3. Frame(s)
    <2>1. TermFrame(s)
      BY <1>1, <1>2 DEF TermFrame, Campaigning
    <2>2. LeadFrame(s)
      BY <1>1, <1>2 DEF LeadFrame
    <2> QED BY <2>1, <2>2 DEF Frame
  <1> QED BY <1>1, <1>3, FramesButOne, NetRequests DEF Still

LEMMA ReplyIsNone ==
  ASSUME BaseInv, NEW m \in net, NEW t \in Nat, NEW ok \in BOOLEAN
  PROVE  NoRequests(Reply(m, t, ok))
  <1>1. m \in Message
    BY DEF BaseInv, RaftTypeOK
  <1>2. \A n \in Reply(m, t, ok) : ~n.req
    BY <1>1, ReplyIs
  <1> QED BY <1>2 DEF AppendRequest, NoRequests

LEMMA StillIs ==
  ASSUME BaseInv, Effect
  PROVE  \/ Still
         \/ \E s, x : Leads(s, x) \/ Allocates(s, x)
         \/ \E s, p, x, m : Calls(s, p, x, m)
  <1>0. /\ sv \in [Server -> ServerRec] /\ \A s \in Server : sv[s].term \in Nat
        /\ \A m \in Message : m.from \in Server /\ m.to \in Server
        /\ net \subseteq Message
    BY DEF BaseInv, RaftTypeOK, ServerRec, Message, VoteRequest, AppendRequest, Response
  <1>a. NoRequests({})
    BY DEF NoRequests
  <1>1. ASSUME NEW s, NEW x, NEW G, Resigns(s, x, G) PROVE Still
    <2>1. /\ Retires(s, x, G, {}) /\ x.log = sv[s].log
          /\ won' = won \/ (Wins(s) /\ x.term = sv[s].term)
          /\ s \in Server /\ sv' = [sv EXCEPT ![s] = x] /\ ~(x.st = "candidate" /\ x.votes > 0)
      BY <1>1 DEF Resigns, Retires
    <2>2. sv'[s] = x
      BY <1>0, <2>1
    <2>3. WonFrame /\ LogFrame(s)
      BY <2>1, <2>2 DEF WonFrame, LogFrame, Campaigning
    <2> QED BY <1>a, <2>1, <2>3, RetireStill
  <1>2. ASSUME NEW G, NEW R, Idles(G, R), NoRequests(R) PROVE Still
    <2>1. \A p \in Server : Frame(p)
      BY <1>2, FrameKept DEF Idles, Steady, Campaigning
    <2>2. RequestsFrom /\ WonFrame
      BY <1>2, NetRequests DEF Idles, WonFrame
    <2> QED BY <2>1, <2>2 DEF Still
  <1>3. ASSUME NEW m, Unmoved(m) PROVE Still
    <2>1. NoRequests(Reply(m, sv[m.to].term, FALSE))
      BY <1>0, <1>3, ReplyIsNone DEF Unmoved
    <2> QED BY <1>a, <1>2, <1>3, <2>1 DEF Unmoved
  <1>4. ASSUME NEW s, NEW x, Campaigns(s, x) PROVE Still
    <2>1. /\ s \in Server /\ sv' = [sv EXCEPT ![s] = x] /\ won' = won
          /\ x.st = "candidate" /\ x.term = sv[s].term + 1 /\ x.log = sv[s].log
          /\ \A n \in net' : n \in net \/ n \in VoteRequest
      BY <1>4 DEF Campaigns
    <2>2. sv'[s] = x
      BY <1>0, <2>1
    <2>3. sv[s].term <= x.term /\ x.term # sv[s].term
      BY SMTT(100), <1>0, <2>1
    <2>4. Frame(s)
      BY <2>1, <2>2, <2>3 DEF Frame, TermFrame, LeadFrame, LogFrame
    <2>5. RequestsFrom
      BY <2>1 DEF RequestsFrom, VoteRequest, AppendRequest
    <2> QED BY <2>1, <2>4, <2>5, FramesButOne DEF Still, WonFrame
  <1>5. ASSUME NEW m, NEW x, Counts(m, x) \/ Answered(m, x) PROVE Still
    <2>1. /\ m.from \in Server /\ sv' = [sv EXCEPT ![m.from] = x] /\ won' = won
          /\ x.st = sv[m.from].st /\ x.term = sv[m.from].term /\ x.log = sv[m.from].log
          /\ x.votes = sv[m.from].votes \/ Campaigning(m.from)
          /\ net' = net \ {m}
      BY <1>5 DEF Counts, Answered
    <2>2. sv'[m.from] = x
      BY <1>0, <2>1
    <2>3. Frame(m.from)
      BY <2>1, <2>2, FrameKept DEF Campaigning
    <2>4. RequestsFrom
      BY <2>1 DEF RequestsFrom
    <2> QED BY <2>1, <2>3, <2>4, FramesButOne DEF Still, WonFrame
  <1>6. ASSUME NEW m, NEW x, VoteRefused(m, x) \/ VoteGranted(m, x) PROVE Still
    <2>1. /\ m \in net /\ won' = won /\ x.log = sv[m.to].log /\ m.to \in Server /\ x.term \in Nat
          /\ sv' = [sv EXCEPT ![m.to] = x]
          /\ \E ok \in BOOLEAN : Retires(m.to, x, {m}, Reply(m, x.term, ok))
      BY <1>6 DEF VoteRefused, VoteGranted, Retires, ServerRec
    <2>2. PICK ok \in BOOLEAN : Retires(m.to, x, {m}, Reply(m, x.term, ok))
      BY <2>1
    <2>3. NoRequests(Reply(m, x.term, ok))
      BY <2>1, ReplyIsNone
    <2>4. LogFrame(m.to) /\ WonFrame
      BY <1>0, <2>1 DEF LogFrame, WonFrame
    <2> QED BY <2>2, <2>3, <2>4, RetireStill
  <1>7. ASSUME NEW m, NEW x, LogBroken(m, x) PROVE Still
    <2>1. /\ Retires(m.to, x, {m}, {}) /\ won' = won /\ m \in net /\ m \in AppendRequest
          /\ x.log = sv[m.to].log \/ (x.term = m.term /\ LogFrom(m, sv[m.to].log, x.log))
          /\ m.to \in Server /\ sv' = [sv EXCEPT ![m.to] = x] /\ x.st # "leader"
      BY <1>7 DEF LogBroken, Halfway, Retires
    <2>2. LogFrame(m.to) /\ WonFrame
      BY <1>0, <2>1 DEF LogFrame, WonFrame, Takes
    <2> QED BY <1>a, <2>1, <2>2, RetireStill
  <1>8. ASSUME NEW m, NEW x, NEW ok, LogTaken(m, x, ok) PROVE Still
    <2>1. /\ Retires(m.to, x, {m}, Reply(m, x.term, ok)) /\ won' = won /\ m \in net
          /\ m \in AppendRequest /\ x.term = m.term /\ LogFrom(m, sv[m.to].log, x.log)
          /\ m.to \in Server /\ sv' = [sv EXCEPT ![m.to] = x] /\ x.st # "leader"
          /\ x.term \in Nat /\ ok \in BOOLEAN
      BY <1>8 DEF LogTaken, Retires, ServerRec
    <2>2. LogFrame(m.to) /\ WonFrame
      BY <1>0, <2>1 DEF LogFrame, WonFrame, Takes
    <2>3. NoRequests(Reply(m, x.term, ok))
      BY <2>1, ReplyIsNone
    <2> QED BY <2>1, <2>2, <2>3, RetireStill
  <1>9. \A G : Idles(G, {}) => Still
    BY <1>a, <1>2
  <1> QED BY <1>1, <1>3, <1>4, <1>5, <1>6, <1>7, <1>8, <1>9 DEF Effect

\* The invariant of the logs.
Won(t, s) == <<t, s>> \in won

WonOnce ==
  \A t \in Nat, s \in Server :
    Won(t, s) => t <= sv[s].term /\ (t = sv[s].term => ~Campaigning(s))

LeadersLog(E) ==
  /\ \A s \in Server : sv[s].st = "leader" => E[sv[s].term] = sv[s].log /\ Won(sv[s].term, s)
  /\ \A t \in Nat : E[t] # <<>> => \E s \in Server : Won(t, s)

SoundLogs(E) ==
  /\ E \in [Nat -> Seq(Entry)] /\ \A t \in Nat : Sound(E[t], E)
  /\ \A s \in Server : Sound(sv[s].log, E)

SoundCall(m, E) == Slice(m, E[m.term]) /\ Won(m.term, m.from)
SoundCalls(E) == \A m \in net : m \in AppendRequest => SoundCall(m, E)

LogGood(E) == SoundLogs(E) /\ LeadersLog(E) /\ SoundCalls(E) /\ WonOnce

LEMMA OneWinner ==
  ASSUME NEW W, \A g, h \in W : g[1] = h[1] => g[2] = h[2],
         NEW t, NEW p, NEW q, <<t, p>> \in W, <<t, q>> \in W
  PROVE  p = q
  <1>1. <<t, p>>[1] = <<t, q>>[1] => <<t, p>>[2] = <<t, q>>[2]
    OBVIOUS
  <1> QED BY SMTT(100), <1>1

LEMMA WonStays ==
  ASSUME WonFrame, NEW t, NEW s, Won(t, s)
  PROVE  Won(t, s)'
  BY DEF WonFrame, Wins, Won

LEMMA WonOnceKept ==
  ASSUME BaseInv, BaseInv', WonOnce, \A p \in Server : TermFrame(p), WonFrame
  PROVE  WonOnce'
  <1> SUFFICES ASSUME NEW t \in Nat, NEW s \in Server, Won(t, s)'
               PROVE  t <= sv'[s].term /\ (t = sv'[s].term => ~Campaigning(s)')
    BY DEF WonOnce
  <1>1. sv[s].term \in Nat /\ sv'[s].term \in Nat
    BY DEF BaseInv, RaftTypeOK, ServerRec
  <1>2. sv[s].term <= sv'[s].term
    BY DEF TermFrame
  <1>3. CASE Won(t, s)
    <2>1. t <= sv[s].term /\ (t = sv[s].term => ~Campaigning(s))
      BY <1>3 DEF WonOnce
    <2>2. t <= sv'[s].term /\ (t = sv'[s].term => t = sv[s].term)
      BY SMTT(100), <1>1, <1>2, <2>1
    <2> QED BY <2>1, <2>2 DEF TermFrame
  <1>4. CASE ~Won(t, s)
    <2>1. PICK q \in Server : Wins(q) /\ sv'[q].term = sv[q].term /\ ~Campaigning(q)'
      BY <1>4 DEF WonFrame, Won
    <2>2. <<t, s>> = <<sv[q].term, q>>
      BY <1>4, <2>1 DEF Wins, Won
    <2>3. t = sv[q].term /\ s = q
      BY SMTT(100), <2>2
    <2>4. \A n \in Nat : n <= n
      BY SMTT(100)
    <2> QED BY <2>1, <2>3, <2>4
  <1> QED BY <1>3, <1>4

LEMMA SliceGrows ==
  ASSUME NEW e \in Seq(Entry), NEW f \in Seq(Entry), Begins(e, f), NEW m \in AppendRequest,
         Slice(m, e)
  PROVE  Slice(m, f)
  <1>1. m.prev \in Nat /\ m.entries \in Seq(Entry)
    BY DEF AppendRequest
  <1>2. \A p \in Nat, q \in Seq(Entry) : p + Len(q) <= Len(e) =>
          /\ p + Len(q) <= Len(f)
          /\ p > 0 => f[p] = e[p]
          /\ \A i \in 1..Len(q) : f[p + i] = e[p + i]
    BY SMTT(100) DEF Begins, Agreed
  <1> QED BY <1>1, <1>2 DEF Slice

LEMMA CallsKept ==
  ASSUME BaseInv, NEW E \in [Nat -> Seq(Entry)], NEW F \in [Nat -> Seq(Entry)], Grows(F, E),
         SoundCalls(E), WonFrame, NEW n, NEW k \in net, k \in AppendRequest, n = k \/ n = Late(k)
  PROVE  SoundCall(n, F)'
  <1>1. SoundCall(k, E)
    BY DEF SoundCalls
  <1>2. k \in Message /\ k.req /\ k.term \in Nat
    BY DEF Message, AppendRequest
  <1>3. Slice(k, F[k.term])
    BY <1>1, <1>2, SliceGrows DEF SoundCall, Grows
  <1>4. Won(k.term, k.from)'
    BY <1>1, WonStays DEF SoundCall
  <1>5. /\ n.term = k.term /\ n.from = k.from /\ n.prev = k.prev /\ n.prevterm = k.prevterm
        /\ n.entries = k.entries
    BY <1>2, LateIs
  <1> QED BY <1>3, <1>4, <1>5 DEF SoundCall, Slice

LEMMA GrowsSame ==
  ASSUME NEW E \in [Nat -> Seq(Entry)]
  PROVE  Grows(E, E)
  BY BeginsAll DEF Grows

LEMMA LogStill ==
  ASSUME BaseInv, BaseInv', NEW E, LogGood(E), Still
  PROVE  LogGood(E)'
  <1>0. /\ E \in [Nat -> Seq(Entry)] /\ (\A t \in Nat : Sound(E[t], E))
        /\ (\A p \in Server : Sound(sv[p].log, E) /\ sv[p].log \in Seq(Entry) /\ sv[p].term \in Nat)
        /\ LeadersLog(E) /\ SoundCalls(E) /\ WonOnce
        /\ (\A p \in Server : Frame(p)) /\ WonFrame /\ RequestsFrom
    BY DEF LogGood, SoundLogs, BaseInv, RaftTypeOK, ServerRec, Still
  <1>1. ASSUME NEW p \in Server PROVE Sound(sv'[p].log, E)
    <2>1. CASE sv'[p].log = sv[p].log
      BY <1>0, <2>1
    <2>2. ASSUME NEW m, Takes(p, m) PROVE Sound(sv'[p].log, E)
      <3> DEFINE e == E[m.term]
                 l == sv'[p].log
                 old == sv[p].log
      <3>1. m \in net /\ m \in AppendRequest /\ LogFrom(m, old, l)
        BY <2>2 DEF Takes
      <3>2. e \in Seq(Entry) /\ Sound(e, E) /\ Slice(m, e)
        BY <1>0, <3>1 DEF SoundCalls, SoundCall, AppendRequest
      <3>3. old \in Seq(Entry) /\ Sound(old, E)
        BY <1>0
      <3> HIDE DEF e, l, old
      <3>4. l \in Seq(Entry) /\ (Begins(l, old) \/ Begins(l, e))
        BY <1>0, <3>1, <3>2, <3>3, LogFromIs
      <3>5. Sound(l, E)
        BY <1>0, <3>2, <3>3, <3>4, BeginsSound
      <3> QED BY <3>5 DEF l
    <2> QED BY <1>0, <2>1, <2>2 DEF Frame, LogFrame
  <1>2. LeadersLog(E)'
    <2>1. ASSUME NEW s \in Server, sv'[s].st = "leader"
          PROVE  E[sv'[s].term] = sv'[s].log /\ <<sv'[s].term, s>> \in won'
      <3>1. sv[s].st = "leader" /\ sv'[s].term = sv[s].term /\ sv'[s].log = sv[s].log
        BY <1>0, <2>1 DEF Frame, LeadFrame
      <3>2. E[sv[s].term] = sv[s].log /\ <<sv[s].term, s>> \in won
        BY <1>0, <3>1 DEF LeadersLog, Won
      <3>3. won \subseteq won'
        BY <1>0 DEF WonFrame, Wins
      <3> QED BY <3>1, <3>2, <3>3
    <2>2. \A t \in Nat : E[t] # <<>> => \E s \in Server : Won(t, s)'
      BY <1>0, WonStays DEF LeadersLog
    <2> QED BY <2>1, <2>2 DEF LeadersLog, Won
  <1>3. SoundCalls(E)'
    <2> SUFFICES ASSUME NEW n \in net', n \in AppendRequest PROVE SoundCall(n, E)'
      BY DEF SoundCalls
    <2>1. PICK k \in net : k \in AppendRequest /\ (n = k \/ n = Late(k))
      BY <1>0 DEF RequestsFrom
    <2> QED BY <1>0, <2>1, GrowsSame, CallsKept
  <1>4. WonOnce'
    BY <1>0, WonOnceKept DEF Frame
  <1> QED BY <1>0, <1>1, <1>2, <1>3, <1>4 DEF LogGood, SoundLogs

LEMMA AppendIs ==
  ASSUME NEW o \in Seq(Entry), NEW e \in Entry
  PROVE  /\ Append(o, e) \in Seq(Entry) /\ Len(Append(o, e)) = Len(o) + 1 /\ Len(o) \in Nat
         /\ \A i \in 1..Len(o) : Append(o, e)[i] = o[i]
         /\ Append(o, e)[Len(o) + 1] = e
         /\ \A i \in 1..Len(o) + 1 : i \in 1..Len(o) \/ i = Len(o) + 1
  BY SMTT(100)

LEMMA GrownSound ==
  ASSUME NEW F \in [Nat -> Seq(Entry)], NEW r \in ServerRec, NEW l, Grown(r, l),
         Sound(r.log, F), F[r.term] = l
  PROVE  l \in Seq(Entry) /\ Sound(l, F) /\ Begins(r.log, l)
  <1>1. PICK v \in Server \cup Client : /\ v \notin TakenIn(r)
                                        /\ l = Append(r.log, [term |-> r.term, node |-> v])
    BY DEF Grown
  <1> DEFINE e == [term |-> r.term, node |-> v]
             o == r.log
             n == Len(o)
  <1>2. e \in Entry /\ o \in Seq(Entry) /\ e.term = r.term /\ e.node = v
    BY DEF Entry, ServerRec
  <1>3. l = Append(o, e)
    BY <1>1
  <1>4. \A i \in 1..n : o[i].node # e.node
    BY <1>1, <1>2 DEF TakenIn, LastIndex
  <1>5. LogOK(o, F) /\ NodesOnce(o)
    BY DEF Sound
  <1> HIDE DEF e, o
  <1>6. /\ l \in Seq(Entry) /\ Len(l) = n + 1 /\ n \in Nat
        /\ \A i \in 1..n : l[i] = o[i]
        /\ l[n + 1] = e
        /\ \A i \in 1..n + 1 : i \in 1..n \/ i = n + 1
    <2> DEFINE k == Append(o, e)
    <2>1. /\ k \in Seq(Entry) /\ Len(k) = n + 1 /\ n \in Nat
          /\ \A i \in 1..n : k[i] = o[i]
          /\ k[n + 1] = e
          /\ \A i \in 1..n + 1 : i \in 1..n \/ i = n + 1
      BY <1>2, AppendIs
    <2> HIDE DEF k
    <2>2. l = k
      BY <1>3 DEF k
    <2> QED BY <2>1, <2>2
  <1>7. Begins(o, l)
    BY <1>2, <1>3, BeginsAll
  <1>8. NodesOnce(l)
    <2> SUFFICES ASSUME NEW i \in 1..n + 1, NEW j \in 1..n + 1, l[i].node = l[j].node PROVE i = j
      BY <1>6 DEF NodesOnce
    <2>1. CASE i \in 1..n /\ j \in 1..n
      BY <1>5, <1>6, <2>1 DEF NodesOnce
    <2>2. CASE i \in 1..n /\ j = n + 1
      BY <1>4, <1>6, <2>2
    <2>3. CASE i = n + 1 /\ j \in 1..n
      BY <1>4, <1>6, <2>3
    <2> QED BY <1>6, <2>1, <2>2, <2>3
  <1>9. Begins(l, l)
    BY <1>6, BeginsAll
  <1>10. ASSUME NEW i \in 1..Len(l) PROVE Agreed(l, F[l[i].term], i)
    <2>1. CASE i = n + 1
      BY <1>2, <1>6, <1>9, <2>1 DEF Begins
    <2>2. CASE i \in 1..n
      <3> DEFINE f == F[l[i].term]
      <3>1. o[i] \in Entry /\ l[i] = o[i] /\ i \in Nat
        BY <1>2, <1>6, <2>2, ElementIs
      <3>2. Agreed(o, f, i) /\ f \in Seq(Entry)
        BY <1>5, <2>2, <3>1 DEF LogOK, Entry
      <3> HIDE DEF f
      <3>3. Agreed(o, l, i)
        <4>1. i \in 0..Len(o)
          BY SMTT(100), <2>2
        <4> QED BY <1>2, <1>6, <1>7, <4>1, AgreedIs DEF Begins
      <3>a. l \in Seq(Entry) /\ o \in Seq(Entry)
        BY <1>2, <1>6
      <3>4. Agreed(l, o, i)
        BY SMTT(100), <3>3 DEF Agreed
      <3>5. Agreed(l, f, i)
        BY <3>a, <3>1, <3>2, <3>4, AgreedIs
      <3> QED BY <3>5 DEF f
    <2> QED BY <1>6, <2>1, <2>2
  <1> QED BY <1>6, <1>7, <1>8, <1>10 DEF Sound, LogOK, o

LEMMA GrownBegins ==
  ASSUME NEW r \in ServerRec, NEW l, Grown(r, l)
  PROVE  Begins(r.log, l)
  <1>1. PICK v \in Server \cup Client : l = Append(r.log, [term |-> r.term, node |-> v])
    BY DEF Grown
  <1>2. [term |-> r.term, node |-> v] \in Entry /\ r.log \in Seq(Entry)
    BY DEF Entry, ServerRec
  <1> QED BY <1>1, <1>2, BeginsAll

\* A leader's log grows.
LEMMA LogGrows ==
  ASSUME BaseInv, BaseInv', ElectionSafety', NEW E, LogGood(E),
         NEW s \in Server, NEW x \in ServerRec, sv' = [sv EXCEPT ![s] = x], x.st = "leader",
         x.term = sv[s].term, x.log = sv[s].log \/ Grown(sv[s], x.log), Begins(E[x.term], x.log),
         <<x.term, s>> \in won', WonFrame, TermFrame(s), RequestsFrom
  PROVE  \E F : LogGood(F)'
  <1> DEFINE t == x.term
             F == [E EXCEPT ![t] = x.log]
  <1>0. /\ E \in [Nat -> Seq(Entry)] /\ (\A u \in Nat : Sound(E[u], E))
        /\ (\A p \in Server : Sound(sv[p].log, E) /\ sv[p].log \in Seq(Entry) /\ sv[p].term \in Nat)
        /\ LeadersLog(E) /\ SoundCalls(E) /\ WonOnce /\ sv \in [Server -> ServerRec]
    BY DEF LogGood, SoundLogs, BaseInv, RaftTypeOK, ServerRec
  <1>1. t \in Nat /\ x.log \in Seq(Entry)
    BY DEF ServerRec
  <1>2. /\ F \in [Nat -> Seq(Entry)] /\ F[t] = x.log /\ \A u \in Nat : u # t => F[u] = E[u]
    BY <1>0, <1>1
  <1> HIDE DEF F
  <1>3. \A p \in Server : sv'[p] = IF p = s THEN x ELSE sv[p]
    BY <1>0
  <1>4. Grows(F, E)
    BY <1>0, <1>2, BeginsAll DEF Grows
  <1>5. \A p \in Server : Sound(sv[p].log, F)
    BY <1>0, <1>2, <1>4, GrowsSound
  <1>6. Sound(x.log, F)
    <2>1. CASE x.log = sv[s].log
      BY <1>5, <2>1
    <2>2. CASE Grown(sv[s], x.log)
      BY <1>0, <1>2, <1>5, <2>2, GrownSound
    <2> QED BY <2>1, <2>2
  <1>7. \A u \in Nat : Sound(F[u], F)
    <2>1. ASSUME NEW u \in Nat, u # t PROVE Sound(F[u], F)
      <3>1. E[u] \in Seq(Entry) /\ Sound(E[u], E) /\ F[u] = E[u]
        BY <1>0, <1>2, <2>1
      <3>2. Sound(E[u], F)
        BY <1>0, <1>2, <1>4, <3>1, GrowsSound
      <3> QED BY <3>1, <3>2
    <2> QED BY <1>2, <1>6, <2>1
  <1>8. SoundLogs(F)'
    BY <1>2, <1>3, <1>5, <1>6, <1>7 DEF SoundLogs
  <1>9. won \subseteq won'
    BY DEF WonFrame, Wins
  <1>10. LeadersLog(F)'
    <2>1. ASSUME NEW p \in Server, p # s, sv[p].st = "leader"
          PROVE  F[sv[p].term] = sv[p].log /\ <<sv[p].term, p>> \in won'
      <3>1. E[sv[p].term] = sv[p].log /\ <<sv[p].term, p>> \in won'
        BY <1>0, <1>9, <2>1 DEF LeadersLog, Won
      <3>2. sv[p].term # t
        <4>1. ASSUME sv[p].term = t PROVE FALSE
          <5>1. <<t, p>> \in won' /\ <<t, s>> \in won'
            BY <3>1, <4>1
          <5> QED BY <2>1, <5>1, OneWinner DEF ElectionSafety
        <4> QED BY <4>1
      <3> QED BY <1>0, <1>2, <3>1, <3>2
    <2>2. \A p \in Server : sv'[p].st = "leader" =>
            F[sv'[p].term] = sv'[p].log /\ <<sv'[p].term, p>> \in won'
      <3>1. sv'[s] = x /\ \A p \in Server : p # s => sv'[p] = sv[p]
        BY <1>3
      <3> QED BY <1>2, <2>1, <3>1
    <2>3. \A u \in Nat : F[u] # <<>> => \E q \in Server : Won(u, q)'
      <3>1. \A u \in Nat : u # t /\ F[u] # <<>> => \E q \in Server : Won(u, q)
        BY <1>0, <1>2 DEF LeadersLog
      <3>2. \A u, q : Won(u, q) => Won(u, q)'
        BY WonStays
      <3>3. Won(t, s)'
        BY DEF Won
      <3> QED BY <3>1, <3>2, <3>3
    <2> QED BY <2>2, <2>3 DEF LeadersLog, Won
  <1>11. SoundCalls(F)'
    <2> SUFFICES ASSUME NEW n \in net', n \in AppendRequest PROVE SoundCall(n, F)'
      BY DEF SoundCalls
    <2>1. PICK k \in net : k \in AppendRequest /\ (n = k \/ n = Late(k))
      BY DEF RequestsFrom
    <2> QED BY <1>0, <1>2, <1>4, <2>1, CallsKept
  <1>12. \A p \in Server : TermFrame(p)
    <2>1. ASSUME NEW p \in Server, p # s PROVE TermFrame(p)
      <3>1. sv'[p] = sv[p]
        BY <1>3, <2>1
      <3> QED BY <3>1, FrameKept DEF Frame, Campaigning
    <2> QED BY <2>1
  <1>13. WonOnce'
    BY <1>0, <1>12, WonOnceKept
  <1>14. LogGood(F)'
    BY <1>8, <1>10, <1>11, <1>13 DEF LogGood
  <1> QED BY <1>14

LEMMA LogLeads ==
  ASSUME BaseInv, BaseInv', ElectionSafety', NEW E, LogGood(E), NEW s, NEW x, Leads(s, x)
  PROVE  \E F : LogGood(F)'
  <1>1. /\ s \in Server /\ x \in ServerRec /\ sv' = [sv EXCEPT ![s] = x] /\ x.st = "leader"
        /\ x.term = sv[s].term /\ (x.log = sv[s].log \/ Grown(sv[s], x.log))
        /\ Wins(s) /\ NetStep({}, {}) /\ sv'[s] = x
    BY DEF Leads, Quiet, BaseInv, RaftTypeOK
  <1>2. x.term \in Nat /\ x.log \in Seq(Entry) /\ x.term <= x.term
    <2>1. x.term \in Nat /\ x.log \in Seq(Entry)
      BY <1>1 DEF ServerRec
    <2> QED BY SMTT(100), <2>1
  <1>3. Campaigning(s) /\ <<x.term, s>> \in won' /\ won \subseteq won'
    BY <1>1 DEF Wins
  <1>4. "leader" # "candidate"
    OBVIOUS
  <1>5. WonFrame /\ TermFrame(s)
    <2>1. ~Campaigning(s)'
      BY <1>1, <1>4 DEF Campaigning
    <2> QED BY <1>1, <1>2, <2>1 DEF WonFrame, TermFrame
  <1>6. RequestsFrom
    <2>1. NoRequests({})
      BY DEF NoRequests
    <2> QED BY <1>1, <2>1, NetRequests
  <1>7. E[x.term] = <<>>
    <2>1. ASSUME E[x.term] # <<>> PROVE FALSE
      <3>1. PICK q \in Server : <<x.term, q>> \in won
        BY <1>2, <2>1 DEF LogGood, LeadersLog, Won
      <3>2. q = s
        BY <1>3, <3>1, OneWinner DEF ElectionSafety
      <3> QED BY <1>1, <1>2, <1>3, <3>1, <3>2 DEF LogGood, WonOnce, Won
    <2> QED BY <2>1
  <1>8. Begins(E[x.term], x.log)
    BY <1>2, <1>7, BeginsAll
  <1> QED BY <1>1, <1>3, <1>5, <1>6, <1>8, LogGrows

LEMMA LogAllocates ==
  ASSUME BaseInv, BaseInv', ElectionSafety', NEW E, LogGood(E), NEW s, NEW x, Allocates(s, x)
  PROVE  \E F : LogGood(F)'
  <1>1. /\ s \in Server /\ x \in ServerRec /\ sv' = [sv EXCEPT ![s] = x] /\ x.st = "leader"
        /\ x.term = sv[s].term /\ Grown(sv[s], x.log) /\ sv[s].st = "leader"
        /\ won' = won /\ net' = net /\ sv'[s] = x /\ sv[s] \in ServerRec
    BY DEF Allocates, BaseInv, RaftTypeOK
  <1>2. x.term \in Nat /\ x.term <= x.term
    <2>1. x.term \in Nat
      BY <1>1 DEF ServerRec
    <2> QED BY SMTT(100), <2>1
  <1>3. E[x.term] = sv[s].log /\ <<x.term, s>> \in won'
    BY <1>1 DEF LogGood, LeadersLog, Won
  <1>4. "leader" # "candidate"
    OBVIOUS
  <1>5. WonFrame /\ TermFrame(s)
    BY <1>1, <1>2, <1>4 DEF WonFrame, TermFrame, Campaigning
  <1>6. RequestsFrom
    BY <1>1 DEF RequestsFrom
  <1>7. Begins(E[x.term], x.log)
    BY <1>1, <1>3, GrownBegins
  <1> QED BY <1>1, <1>3, <1>5, <1>6, <1>7, LogGrows

LEMMA LogCalls ==
  ASSUME BaseInv, BaseInv', NEW E, LogGood(E), NEW s, NEW p, NEW x, NEW m, Calls(s, p, x, m)
  PROVE  LogGood(E)'
  <1>0. /\ E \in [Nat -> Seq(Entry)] /\ (\A u \in Nat : Sound(E[u], E))
        /\ (\A q \in Server : Sound(sv[q].log, E))
        /\ LeadersLog(E) /\ SoundCalls(E) /\ WonOnce /\ sv \in [Server -> ServerRec]
        /\ net \subseteq Message
    BY DEF LogGood, SoundLogs, BaseInv, RaftTypeOK
  <1>1. /\ s \in Server /\ sv' = [sv EXCEPT ![s] = x] /\ won' = won /\ sv[s].st = "leader"
        /\ x.st = "leader" /\ x.term = sv[s].term /\ x.log = sv[s].log
        /\ m \in AppendRequest /\ m.from = s /\ m.term = sv[s].term /\ Piece(m, sv[s])
        /\ \A n \in net' \ {m} : n \in net \/ \E k \in net : k.live /\ k.req /\ n = Late(k)
    BY DEF Calls
  <1>2. \A q \in Server : sv'[q] = IF q = s THEN x ELSE sv[q]
    BY <1>0, <1>1
  <1>3. \A q \in Server : /\ sv'[q].st = sv[q].st /\ sv'[q].term = sv[q].term
                          /\ sv'[q].log = sv[q].log
    BY <1>1, <1>2
  <1>4. SoundLogs(E)' /\ LeadersLog(E)'
    <2>1. SoundLogs(E)'
      BY <1>0, <1>3 DEF SoundLogs
    <2>2. ASSUME NEW q \in Server, sv'[q].st = "leader"
          PROVE  E[sv'[q].term] = sv'[q].log /\ <<sv'[q].term, q>> \in won'
      <3>1. sv[q].st = "leader" /\ sv'[q].term = sv[q].term /\ sv'[q].log = sv[q].log
        BY <1>3, <2>2
      <3>2. E[sv[q].term] = sv[q].log /\ <<sv[q].term, q>> \in won
        BY <1>0, <3>1 DEF LeadersLog, Won
      <3> QED BY SMTT(100), <1>1, <3>1, <3>2
    <2>3. \A u \in Nat : E[u] # <<>> => \E q \in Server : <<u, q>> \in won'
      BY <1>0, <1>1 DEF LeadersLog, Won
    <2> QED BY <2>1, <2>2, <2>3 DEF LeadersLog, Won
  <1>5. \A q \in Server : TermFrame(q)
    <2>1. \A q \in Server : Campaigning(q)' => Campaigning(q)
      BY SMTT(100), <1>1, <1>2 DEF Campaigning
    <2> QED BY <1>3, <2>1, FrameKept DEF Frame
  <1>6. WonFrame
    BY <1>1 DEF WonFrame
  <1>7. WonOnce'
    BY <1>0, <1>5, <1>6, WonOnceKept
  <1>8. SoundCall(m, E)'
    <2>1. E[m.term] = sv[s].log /\ <<m.term, m.from>> \in won'
      BY <1>0, <1>1 DEF LeadersLog, Won
    <2>2. Slice(m, sv[s].log)
      <3>1. m.prev > 0 => m.prev # 0
        BY SMTT(100)
      <3> QED BY <1>1, <3>1 DEF Piece, Slice, EntryAt
    <2> QED BY <2>1, <2>2 DEF SoundCall, Won
  <1>9. ASSUME NEW n \in net', n # m, n \in AppendRequest PROVE SoundCall(n, E)'
    <2>1. PICK k \in net : n = k \/ (k.req /\ n = Late(k))
      BY <1>1, <1>9
    <2>2. k \in AppendRequest
      <3>1. CASE n = k
        BY <1>9, <3>1
      <3>2. CASE k.req /\ n = Late(k)
        <4>1. n.kind = k.kind /\ n.kind = "append" /\ k \in Message
          BY <1>0, <1>9, <3>2, LateIs DEF AppendRequest
        <4> QED BY <3>2, <4>1 DEF Message, VoteRequest, Response
      <3> QED BY <2>1, <3>1, <3>2
    <2> QED BY <1>0, <1>6, <2>1, <2>2, GrowsSame, CallsKept
  <1>10. SoundCalls(E)'
    BY <1>8, <1>9 DEF SoundCalls
  <1> QED BY <1>4, <1>7, <1>10 DEF LogGood

LEMMA LogStep ==
  ASSUME BaseInv, BaseInv', ElectionSafety', Effect, NEW E, LogGood(E)
  PROVE  \E F : LogGood(F)'
  BY StillIs, LogStill, LogLeads, LogAllocates, LogCalls

-----------------------------------------------------------------------------
\* What a leader counts on.  In its term, p holds the first n entries of its log.
Counted(s, p, n) ==
  n > 0 => /\ sv[s].term <= sv[p].term
           /\ sv[p].term = sv[s].term => Agreed(sv[p].log, sv[s].log, n)

Tracked(s) ==
  sv[s].st = "leader" => \A p \in Server :
    /\ p \notin sv[s].known => sv[s].match[p] = 0
    /\ sv[s].match[p] < sv[s].next[p]
    /\ Counted(s, p, sv[s].match[p])

\* Of one server to another there is one request of AppendEntries on its way, or a response.
AloneIn(N) ==
  \A k, n \in N : k.kind = "append" /\ n.kind = "append" /\ k.req /\ k.from = n.from /\ k.to = n.to
                    => k = n

Alone == AloneIn(net)

Behind(m) ==
  sv[m.from].st = "leader" /\ m.term = sv[m.from].term => sv[m.from].match[m.to] <= m.prev

Acked(m) ==
  /\ m.ok => Counted(m.from, m.to, sv[m.from].sent.prev + sv[m.from].sent.num)
  /\ ~m.ok /\ m.term <= sv[m.from].term => sv[m.from].match[m.to] < sv[m.from].sent.prev

MatchGood ==
  /\ \A s \in Server : Tracked(s)
  /\ Alone
  /\ \A m \in net : m \in AppendRequest => Behind(m)
  /\ \A m \in net : m \in Response /\ m.kind = "append" => Acked(m)

\* Logs only grow, but for what AppendEntries makes of them.
Moves(p) ==
  /\ sv[p].term <= sv'[p].term
  /\ Begins(sv[p].log, sv'[p].log) \/ \E m : Takes(p, m)
  /\ sv[p].st = "leader" /\ sv'[p].st = "leader" =>
       sv'[p].term = sv[p].term /\ Begins(sv[p].log, sv'[p].log)

LEMMA MovesIs ==
  ASSUME BaseInv, Effect
  PROVE  \A p \in Server : Moves(p)
  <1>0. \A p \in Server : sv[p] \in ServerRec /\ sv[p].log \in Seq(Entry) /\ sv[p].term \in Nat
    BY DEF BaseInv, RaftTypeOK, ServerRec
  <1>1. \A n \in Nat : n <= n
    BY SMTT(100)
  <1>2. \A p \in Server : Begins(sv[p].log, sv[p].log) /\ sv[p].term <= sv[p].term
    BY <1>0, <1>1, BeginsAll
  <1>3. CASE Still
    <2> SUFFICES ASSUME NEW p \in Server PROVE Moves(p)
      OBVIOUS
    <2>1. sv[p].term <= sv'[p].term /\ LeadFrame(p) /\ LogFrame(p)
      BY <1>3 DEF Still, Frame, TermFrame
    <2>2. Begins(sv[p].log, sv'[p].log) \/ \E m : Takes(p, m)
      BY <1>2, <2>1 DEF LogFrame
    <2>3. sv'[p].st = "leader" => sv'[p].term = sv[p].term /\ Begins(sv[p].log, sv'[p].log)
      BY <1>2, <2>1 DEF LeadFrame
    <2> QED BY <2>1, <2>2, <2>3 DEF Moves
  <1>4. ASSUME NEW s \in Server, NEW x, sv' = [sv EXCEPT ![s] = x], x.term = sv[s].term,
               x.log = sv[s].log \/ Grown(sv[s], x.log)
        PROVE  \A p \in Server : Moves(p)
    <2>1. sv'[s] = x /\ \A p \in Server : p # s => sv'[p] = sv[p]
      BY <1>4 DEF BaseInv, RaftTypeOK
    <2>2. Begins(sv[s].log, x.log)
      BY <1>0, <1>2, <1>4, GrownBegins
    <2> QED BY <1>2, <1>4, <2>1, <2>2 DEF Moves
  <1>5. ASSUME NEW s, NEW x, Leads(s, x) \/ Allocates(s, x) PROVE \A p \in Server : Moves(p)
    <2>1. /\ s \in Server /\ sv' = [sv EXCEPT ![s] = x] /\ x.term = sv[s].term
          /\ x.log = sv[s].log \/ Grown(sv[s], x.log)
      BY <1>5 DEF Leads, Allocates
    <2> QED BY <2>1, <1>4
  <1>6. ASSUME NEW s, NEW p, NEW x, NEW m, Calls(s, p, x, m) PROVE \A q \in Server : Moves(q)
    <2>1. /\ s \in Server /\ sv' = [sv EXCEPT ![s] = x] /\ x.term = sv[s].term
          /\ x.log = sv[s].log
      BY <1>6 DEF Calls
    <2> QED BY <2>1, <1>4
  <1> QED BY <1>3, <1>5, <1>6, StillIs

LEMMA CountedKept ==
  ASSUME BaseInv, BaseInv', ElectionSafety, NEW E, LogGood(E),
         NEW s \in Server, sv[s].st = "leader", sv'[s].st = "leader", Moves(s),
         NEW p \in Server, Moves(p), NEW n \in Nat, Counted(s, p, n),
         \A m \in net : m \in AppendRequest /\ m.from = s /\ m.to = p /\ m.term = sv[s].term
                          => n <= m.prev
  PROVE  Counted(s, p, n)'
  <1> SUFFICES ASSUME n > 0
               PROVE  /\ sv'[s].term <= sv'[p].term
                      /\ sv'[p].term = sv'[s].term => Agreed(sv'[p].log, sv'[s].log, n)
    BY DEF Counted
  <1>0. /\ sv[s].term \in Nat /\ sv[p].term \in Nat /\ sv'[p].term \in Nat
        /\ sv[s].log \in Seq(Entry) /\ sv[p].log \in Seq(Entry)
        /\ sv'[s].log \in Seq(Entry) /\ sv'[p].log \in Seq(Entry)
    BY DEF BaseInv, RaftTypeOK, ServerRec
  <1>1. /\ sv[s].term <= sv[p].term /\ sv[p].term <= sv'[p].term /\ sv'[s].term = sv[s].term
        /\ sv[p].term = sv[s].term => Agreed(sv[p].log, sv[s].log, n)
        /\ Begins(sv[s].log, sv'[s].log)
    BY DEF Counted, Moves
  <1>2. sv'[s].term <= sv'[p].term /\ (sv'[p].term = sv'[s].term => sv[p].term = sv[s].term)
    BY SMTT(100), <1>0, <1>1
  <1>3. ASSUME sv'[p].term = sv'[s].term PROVE Agreed(sv'[p].log, sv'[s].log, n)
    <2> DEFINE a == sv[p].log
               b == sv[s].log
               c == sv'[p].log
               d == sv'[s].log
    <2>1. a \in Seq(Entry) /\ b \in Seq(Entry) /\ c \in Seq(Entry) /\ d \in Seq(Entry)
      BY <1>0
    <2>2. Agreed(a, b, n) /\ Begins(b, d)
      BY <1>1, <1>2, <1>3
    <2>3. Begins(a, c) => Agreed(c, a, n)
      BY SMTT(100), <2>1, <2>2 DEF Begins, Agreed
    <2>4. Agreed(b, d, n)
      BY SMTT(100), <2>1, <2>2 DEF Begins, Agreed
    <2>5. ASSUME NEW m, Takes(p, m) PROVE Agreed(c, b, n)
      <3>1. /\ m \in net /\ m \in AppendRequest /\ m.to = p /\ m.term = sv[s].term
            /\ LogFrom(m, a, c)
        BY <1>1, <1>3, <2>5 DEF Takes
      <3>2. /\ <<m.term, m.from>> \in won /\ <<m.term, s>> \in won /\ E[m.term] = b
            /\ Slice(m, b) /\ Sound(a, E) /\ Sound(b, E) /\ E \in [Nat -> Seq(Entry)]
        BY <3>1 DEF LogGood, SoundCalls, SoundCall, LeadersLog, SoundLogs, Won
      <3>3. m.from = s
        BY <3>2, OneWinner DEF ElectionSafety
      <3>4. n \in 0..m.prev
        <4>1. n <= m.prev /\ m.prev \in Nat
          BY <3>1, <3>3 DEF AppendRequest
        <4> QED BY SMTT(100), <4>1
      <3> HIDE DEF a, b, c
      <3> QED BY <2>1, <2>2, <3>1, <3>2, <3>4, LogFromIs
    <2>6. Agreed(c, b, n)
      <3>1. CASE Begins(a, c)
        <4> HIDE DEF a, b, c
        <4> QED BY <2>1, <2>2, <2>3, <3>1, AgreedIs
      <3> QED BY <2>5, <3>1 DEF Moves
    <2> HIDE DEF a, b, c, d
    <2>7. Agreed(c, d, n)
      BY <2>1, <2>4, <2>6, AgreedIs
    <2> QED BY <2>7 DEF c, d
  <1> QED BY <1>2, <1>3

-----------------------------------------------------------------------------
\* What a leader keeps of its followers' logs, and a response of the call it answers.
IndexFrame(s) ==
  sv'[s].st = "leader" =>
    /\ sv[s].st = "leader" /\ sv'[s].match = sv[s].match /\ sv[s].known \subseteq sv'[s].known
    /\ \A p \in sv[s].known : sv'[s].next[p] = sv[s].next[p]

AckFrame(n) ==
  n \in Response /\ n.kind = "append" =>
    \/ n \in net /\ sv'[n.from].sent = sv[n.from].sent
    \/ Acked(n)'

MatchStart(E) ==
  /\ BaseInv /\ BaseInv' /\ ElectionSafety /\ LogGood(E) /\ MatchGood
  /\ \A p \in Server : Moves(p)

LEMMA TrackedKept ==
  ASSUME NEW E, MatchStart(E), NEW s \in Server, IndexFrame(s)
  PROVE  Tracked(s)'
  <1> SUFFICES ASSUME sv'[s].st = "leader", NEW p \in Server
               PROVE  /\ p \notin sv'[s].known => sv'[s].match[p] = 0
                      /\ sv'[s].match[p] < sv'[s].next[p]
                      /\ Counted(s, p, sv[s].match[p])'
    BY DEF Tracked
  <1>0. BaseInv /\ BaseInv' /\ ElectionSafety /\ LogGood(E) /\ MatchGood /\ Moves(s) /\ Moves(p)
    BY DEF MatchStart
  <1>1. /\ sv[s].st = "leader" /\ sv'[s].match = sv[s].match /\ sv[s].known \subseteq sv'[s].known
        /\ \A q \in sv[s].known : sv'[s].next[q] = sv[s].next[q]
    BY DEF IndexFrame
  <1>a. sv[s] \in ServerRec /\ sv'[s] \in ServerRec /\ Indexed(sv'[s])
    BY <1>0 DEF BaseInv, RaftTypeOK, CallsOK
  <1>b. sv[s].match[p] \in Nat
    BY <1>a DEF ServerRec
  <1> PICK n \in Nat : n = sv[s].match[p]
    BY <1>b
  <1>2. /\ p \notin sv[s].known => n = 0
        /\ n < sv[s].next[p] /\ Counted(s, p, n)
    BY <1>0, <1>1 DEF MatchGood, Tracked
  <1>3. sv'[s].next[p] \in 1..Len(sv'[s].log) + 1 /\ sv'[s].log \in Seq(Entry)
    BY <1>a DEF ServerRec, Indexed
  <1>4. 0 < sv'[s].next[p]
    BY SMTT(100), <1>3
  <1>5. ASSUME NEW m \in net, m \in AppendRequest, m.from = s, m.to = p, m.term = sv[s].term
        PROVE  n <= m.prev
    BY <1>0, <1>1, <1>5 DEF MatchGood, Behind
  <1>6. Counted(s, p, n)'
    BY <1>0, <1>1, <1>2, <1>5, CountedKept
  <1>7. n < sv'[s].next[p]
    BY <1>1, <1>2, <1>4
  <1>8. Counted(s, p, sv[s].match[p])'
    BY <1>1, <1>6 DEF Counted
  <1> QED BY <1>1, <1>2, <1>7, <1>8

LEMMA AckKept ==
  ASSUME NEW E, MatchStart(E), NEW n \in net, n \in net', n \in Response, n.kind = "append",
         IndexFrame(n.from), sv'[n.from].sent = sv[n.from].sent
  PROVE  Acked(n)'
  <1> DEFINE s == n.from
             p == n.to
  <1>0. BaseInv /\ BaseInv' /\ ElectionSafety /\ LogGood(E) /\ MatchGood
    BY DEF MatchStart
  <1>1. s \in Server /\ p \in Server /\ n.live /\ ~n.req /\ Moves(s) /\ Moves(p)
    BY DEF MatchStart, Response
  <1>2. sv'[s].st = "leader" /\ sv[s].st = "leader" /\ sv'[s].match = sv[s].match
    BY <1>0, <1>1 DEF BaseInv, CallsOK, LiveAppend, Pending, IndexFrame
  <1>3. Acked(n)
    BY <1>0 DEF MatchGood
  <1>4. sv'[s].term = sv[s].term
    BY <1>1, <1>2 DEF Moves
  <1>5. sv[s].sent.prev + sv[s].sent.num \in Nat
    <2>1. sv[s].sent.prev \in Nat /\ sv[s].sent.num \in Nat
      BY <1>0, <1>1 DEF BaseInv, RaftTypeOK, ServerRec
    <2> QED BY SMTT(100), <2>1
  <1> PICK c \in Nat : c = sv[s].sent.prev + sv[s].sent.num
    BY <1>5
  <1>6. ASSUME NEW m \in net, m \in AppendRequest, m.from = s, m.to = p PROVE FALSE
    <2>1. m.req /\ m.kind = "append"
      BY <1>6 DEF AppendRequest
    <2>2. m = n
      BY <1>0, <1>6, <2>1 DEF MatchGood, Alone, AloneIn
    <2> QED BY <1>1, <2>1, <2>2
  <1>7. ASSUME n.ok PROVE Counted(s, p, c)'
    <2>1. Counted(s, p, c)
      BY <1>3, <1>7 DEF Acked
    <2> HIDE DEF s, p
    <2> QED BY <1>0, <1>1, <1>2, <1>6, <2>1, CountedKept
  <1>8. n.ok => Counted(s, p, sv[s].sent.prev + sv[s].sent.num)'
    BY <1>7 DEF Counted
  <1> QED BY <1>2, <1>3, <1>4, <1>8 DEF Acked

LEMMA BehindKept ==
  ASSUME NEW E, MatchStart(E), NEW m \in net', NEW k \in net, k \in AppendRequest,
         m = k \/ m = Late(k), IndexFrame(m.from)
  PROVE  Behind(m)'
  <1> SUFFICES ASSUME sv'[m.from].st = "leader", m.term = sv'[m.from].term
               PROVE  sv'[m.from].match[m.to] <= m.prev
    BY DEF Behind
  <1>0. MatchGood /\ \A p \in Server : Moves(p)
    BY DEF MatchStart
  <1>1. /\ m.from = k.from /\ m.to = k.to /\ m.term = k.term /\ m.prev = k.prev
        /\ m.from \in Server
    <2>1. k \in Message /\ k.req /\ k.from \in Server
      BY DEF Message, AppendRequest
    <2> QED BY SMTT(100), <2>1, LateIs
  <1>2. /\ sv[k.from].st = "leader" /\ sv'[k.from].match = sv[k.from].match
        /\ sv'[k.from].term = sv[k.from].term
    BY <1>0, <1>1 DEF IndexFrame, Moves
  <1>3. Behind(k)
    BY <1>0 DEF MatchGood
  <1> QED BY <1>1, <1>2, <1>3 DEF Behind

LEMMA MatchKept ==
  ASSUME NEW E, MatchStart(E), \A s \in Server : IndexFrame(s), RequestsFrom, Alone',
         \A n \in net' : AckFrame(n)
  PROVE  MatchGood'
  <1>0. BaseInv /\ BaseInv' /\ MatchGood /\ \A p \in Server : Moves(p)
    BY DEF MatchStart
  <1>1. \A s \in Server : Tracked(s)'
    BY TrackedKept
  <1>2. ASSUME NEW m \in net', m \in AppendRequest PROVE Behind(m)'
    <2>1. PICK k \in net : k \in AppendRequest /\ (m = k \/ m = Late(k))
      BY <1>2 DEF RequestsFrom
    <2>2. m.from \in Server
      BY <1>2 DEF AppendRequest
    <2> QED BY <2>1, <2>2, BehindKept
  <1>3. ASSUME NEW m \in net', m \in Response, m.kind = "append" PROVE Acked(m)'
    <2>1. m.from \in Server
      BY <1>3 DEF Response
    <2> QED BY <1>3, <2>1, AckKept DEF AckFrame
  <1> QED BY <1>1, <1>2, <1>3 DEF MatchGood

LEMMA NetAlone ==
  ASSUME BaseInv, Alone, NEW G, NEW R, NEW t, NetStep(G, R), Replies(G, R, t)
  PROVE  Alone'
  <1> SUFFICES AloneIn(net')
    BY DEF Alone
  <1> SUFFICES ASSUME NEW k \in net', NEW n \in net', k.kind = "append", n.kind = "append", k.req,
                      k.from = n.from, k.to = n.to
               PROVE  k = n
    BY DEF AloneIn
  <1>0. net \subseteq Message
    BY DEF BaseInv, RaftTypeOK
  <1>1. ASSUME NEW j \in R
        PROVE  /\ ~j.req
               /\ \E m \in G : m \in net /\ m.req /\ m.kind = j.kind /\ m.from = j.from /\ m.to = j.to
    <2>1. PICK m \in G : Answers(m, R, t)
      BY DEF Replies
    <2>2. PICK ok \in BOOLEAN : R = Reply(m, t, ok)
      BY <2>1 DEF Answers
    <2>3. m \in net /\ m.req /\ m \in Message /\ t \in Nat
      BY <1>0, <2>1 DEF Answers
    <2>4. ~j.req /\ j.kind = m.kind /\ j.from = m.from /\ j.to = m.to
      BY SMTT(100), <2>2, <2>3, ReplyIs
    <2> QED BY <2>3, <2>4
  <1>2. ASSUME NEW j \in net', j \notin R
        PROVE  \E i \in net \ G : /\ i.kind = j.kind /\ i.req = j.req /\ i.from = j.from /\ i.to = j.to
                                  /\ i = j \/ (i.req /\ j = Late(i) /\ i \notin net')
    <2>1. CASE j \in net \ G
      BY <2>1
    <2>2. CASE j \notin net \ G
      <3>1. PICK i \in net \ G : i.req /\ j = Late(i) /\ i \notin net'
        BY <1>2, <2>2 DEF NetStep
      <3> QED BY <1>0, <3>1, LateIs
    <2> QED BY <2>1, <2>2
  <1>3. PICK i \in net \ G : /\ i.kind = "append" /\ i.req /\ i.from = k.from /\ i.to = k.to
                             /\ i = k \/ (k = Late(i) /\ i \notin net')
    BY <1>1, <1>2
  <1>4. CASE n \in R
    <2>1. PICK m \in G : m \in net /\ m.req /\ m.kind = "append" /\ m.from = n.from /\ m.to = n.to
      BY <1>1, <1>4
    <2>2. m = i
      BY <1>3, <2>1 DEF Alone, AloneIn
    <2> QED BY <1>3, <2>1, <2>2
  <1>5. CASE n \notin R
    <2>1. PICK j \in net \ G : /\ j.kind = "append" /\ j.from = n.from /\ j.to = n.to
                               /\ j = n \/ (n = Late(j) /\ j \notin net')
      BY <1>2, <1>5
    <2>2. i = j
      BY <1>3, <2>1 DEF Alone, AloneIn
    <2> QED BY <1>3, <2>1, <2>2
  <1> QED BY <1>4, <1>5


LEMMA NetAcks ==
  ASSUME BaseInv, NEW G, NEW R, NetStep(G, R), NEW n \in net', n \in Response
  PROVE  n \in net \/ n \in R
  <1>1. ~n.req
    BY DEF Response
  <1>2. ASSUME NEW k \in net, k.req, n = Late(k) PROVE FALSE
    <2>1. k \in Message
      BY DEF BaseInv, RaftTypeOK
    <2> QED BY <1>1, <1>2, <2>1, LateIs
  <1> QED BY <1>2 DEF NetStep

\* The responses in R say what they should.
AcksTrue(R) == \A n \in R : n \in Response /\ n.kind = "append" => Acked(n)'

LEMMA NetMatch ==
  ASSUME NEW E, MatchStart(E), NEW G, NEW R, NEW t, NetStep(G, R), Replies(G, R, t), AcksTrue(R),
         NoRequests(R),
         \A s \in Server : IndexFrame(s),
         \A n \in net' : n.live => sv'[n.from].sent = sv[n.from].sent
  PROVE  MatchGood'
  <1>0. BaseInv /\ MatchGood
    BY DEF MatchStart
  <1>1. RequestsFrom
    BY <1>0, NetRequests
  <1>2. Alone'
    BY <1>0, NetAlone DEF MatchGood
  <1>3. ASSUME NEW n \in net', n \in Response, n.kind = "append"
        PROVE  (n \in net /\ sv'[n.from].sent = sv[n.from].sent) \/ Acked(n)'
    <2>1. n.live
      BY <1>3 DEF Response
    <2> QED BY <1>0, <1>3, <2>1, NetAcks DEF AcksTrue
  <1> QED BY <1>1, <1>2, <1>3, MatchKept DEF AckFrame

LEMMA RetireMatch ==
  ASSUME NEW E, MatchStart(E), NEW s, NEW x, NEW G, NEW R, NEW t, Retires(s, x, G, R),
         Replies(G, R, t), AcksTrue(R), NoRequests(R)
  PROVE  MatchGood'
  <1>1. /\ s \in Server /\ sv' = [sv EXCEPT ![s] = x] /\ x.st # "leader" /\ NetStep(G, R)
        /\ \A n \in net' : n.live => n.from # s
    BY DEF Retires, Quiet
  <1>2. sv \in [Server -> ServerRec] /\ BaseInv' /\ net' \subseteq Message
    BY DEF MatchStart, BaseInv, RaftTypeOK
  <1>3. sv'[s] = x /\ \A p \in Server : p # s => sv'[p] = sv[p]
    BY <1>1, <1>2
  <1>4. \A p \in Server : IndexFrame(p)
    BY <1>1, <1>3 DEF IndexFrame
  <1>5. \A n \in net' : n.from \in Server
    BY <1>2 DEF Message, VoteRequest, AppendRequest, Response
  <1> QED BY <1>1, <1>3, <1>4, <1>5, NetMatch

LEMMA IdleMatch ==
  ASSUME NEW E, MatchStart(E), NEW G, NEW R, NEW t, Idles(G, R), Replies(G, R, t), AcksTrue(R),
         NoRequests(R)
  PROVE  MatchGood'
  <1>1. \A p \in Server : IndexFrame(p) /\ sv'[p].sent = sv[p].sent
    BY DEF Idles, Steady, IndexFrame
  <1>2. \A n \in net' : n.from \in Server
    BY DEF MatchStart, BaseInv, RaftTypeOK, Message, VoteRequest, AppendRequest, Response
  <1> QED BY <1>1, <1>2, NetMatch DEF Idles

\* One server keeps its indices and only messages that no leader waits for come or go.
LEMMA CandidateMatch ==
  ASSUME NEW E, MatchStart(E), NEW s \in Server, NEW x, sv' = [sv EXCEPT ![s] = x],
         sv[s].st # "leader", x.st # "leader",
         \A n \in net' : n.kind = "append" => n \in net
  PROVE  MatchGood'
  <1>1. sv \in [Server -> ServerRec] /\ BaseInv /\ BaseInv' /\ MatchGood
    BY DEF MatchStart, BaseInv, RaftTypeOK
  <1>2. sv'[s] = x /\ \A p \in Server : p # s => sv'[p] = sv[p]
    BY <1>1
  <1>3. \A p \in Server : IndexFrame(p)
    BY <1>2 DEF IndexFrame
  <1>4. \A n \in net' : n \in AppendRequest => n \in net
    BY DEF AppendRequest
  <1>5. RequestsFrom
    BY <1>4 DEF RequestsFrom
  <1>6. Alone'
    <2>1. Alone
      BY <1>1 DEF MatchGood
    <2>2. AloneIn(net')
      BY <2>1 DEF Alone, AloneIn
    <2> QED BY <2>2 DEF Alone
  <1>7. ASSUME NEW n \in net', n \in Response, n.kind = "append"
        PROVE  n \in net /\ sv'[n.from].sent = sv[n.from].sent
    <2>1. n \in net /\ n.live /\ n.from \in Server
      BY <1>7 DEF Response
    <2>2. n.from # s
      BY <1>1, <1>7, <2>1 DEF BaseInv, CallsOK, LiveAppend, Pending
    <2> QED BY <1>2, <2>1, <2>2
  <1> QED BY <1>3, <1>5, <1>6, <1>7, MatchKept DEF AckFrame

LEMMA AllocateMatch ==
  ASSUME NEW E, MatchStart(E), NEW s, NEW x, Allocates(s, x)
  PROVE  MatchGood'
  <1>1. /\ s \in Server /\ sv' = [sv EXCEPT ![s] = x] /\ net' = net /\ sv[s].st = "leader"
        /\ x.known = sv[s].known /\ x.sent = sv[s].sent /\ x.next = sv[s].next
        /\ x.match = sv[s].match
    BY DEF Allocates
  <1>2. sv \in [Server -> ServerRec] /\ MatchGood
    BY DEF MatchStart, BaseInv, RaftTypeOK
  <1>3. \A p \in Server : IndexFrame(p) /\ sv'[p].sent = sv[p].sent
    BY <1>1, <1>2 DEF IndexFrame
  <1>4. RequestsFrom
    BY <1>1 DEF RequestsFrom
  <1>5. Alone'
    <2>1. Alone
      BY <1>2 DEF MatchGood
    <2> QED BY <1>1, <2>1 DEF Alone
  <1>6. \A n \in net' : n \in Response => n.from \in Server
    BY DEF Response
  <1> QED BY <1>1, <1>3, <1>4, <1>5, <1>6, MatchKept DEF AckFrame


LEMMA LeadMatch ==
  ASSUME NEW E, MatchStart(E), NEW s, NEW x, Leads(s, x)
  PROVE  MatchGood'
  <1>1. /\ s \in Server /\ sv' = [sv EXCEPT ![s] = x]
        /\ x.match = [p \in Server |-> 0]
        /\ \A p \in Server : x.next[p] = Len(sv[s].log) + 1
        /\ NetStep({}, {}) /\ \A n \in net' : n.live => n.from # s
    BY DEF Leads, Quiet
  <1>2. /\ sv \in [Server -> ServerRec] /\ MatchGood /\ BaseInv
        /\ sv[s].log \in Seq(Entry)
    BY <1>1 DEF MatchStart, BaseInv, RaftTypeOK, ServerRec
  <1>3. sv'[s] = x /\ \A p \in Server : p # s => sv'[p] = sv[p]
    BY <1>1, <1>2
  <1>4. \A p \in Server : p # s => IndexFrame(p) /\ sv'[p].sent = sv[p].sent
    BY <1>3 DEF IndexFrame
  <1>5. Tracked(s)'
    <2>1. 0 < Len(sv[s].log) + 1 /\ ~(0 > 0)
      BY SMTT(100), <1>2
    <2>2. \A p \in Server : /\ sv'[s].match[p] = 0 /\ 0 < sv'[s].next[p]
                            /\ ~(sv'[s].match[p] > 0)
      BY SMTT(100), <1>1, <1>3, <2>1
    <2> QED BY <2>2 DEF Tracked, Counted
  <1>6. \A p \in Server : Tracked(p)'
    BY <1>4, <1>5, TrackedKept
  <1>7. Alone'
    <2>1. Replies({}, {}, 0)
      BY DEF Replies
    <2> QED BY <1>1, <1>2, <2>1, NetAlone DEF MatchGood
  <1>8. RequestsFrom
    <2>1. NoRequests({})
      BY DEF NoRequests
    <2> QED BY <1>1, <1>2, <2>1, NetRequests
  <1>9. ASSUME NEW m \in net', m \in AppendRequest PROVE Behind(m)'
    <2>0. m.from \in Server /\ m.to \in Server /\ m.prev \in Nat
      BY <1>9 DEF AppendRequest
    <2>1. CASE m.from = s
      <3>1. sv'[m.from].match[m.to] = 0
        BY SMTT(100), <1>1, <1>3, <2>0, <2>1
      <3>2. sv'[m.from].match[m.to] <= m.prev
        BY SMTT(100), <2>0, <3>1
      <3> QED BY <3>2 DEF Behind
    <2>2. CASE m.from # s
      <3>1. PICK k \in net : k \in AppendRequest /\ (m = k \/ m = Late(k))
        BY <1>8, <1>9 DEF RequestsFrom
      <3> QED BY <1>4, <2>0, <2>2, <3>1, BehindKept
    <2> QED BY <2>1, <2>2
  <1>10. ASSUME NEW n \in net', n \in Response, n.kind = "append" PROVE Acked(n)'
    <2>1. n.live /\ n.from \in Server
      BY <1>10 DEF Response
    <2>2. PICK R : R = {}
      OBVIOUS
    <2>3. n \in net
      <3>1. NetStep({}, R)
        BY <1>1, <2>2
      <3>2. n \in net \/ n \in R
        BY <1>2, <1>10, <3>1, NetAcks
      <3> QED BY <2>2, <3>2
    <2> QED BY <1>1, <1>4, <1>10, <2>1, <2>3, AckKept
  <1> QED BY <1>6, <1>7, <1>9, <1>10 DEF MatchGood

LEMMA CallMatch ==
  ASSUME NEW E, MatchStart(E), NEW s, NEW p, NEW x, NEW m, Calls(s, p, x, m)
  PROVE  MatchGood'
  <1>1. /\ s \in Server /\ sv' = [sv EXCEPT ![s] = x] /\ sv[s].st = "leader" /\ p \in sv[s].known
        /\ x.st = "leader" /\ x.known = sv[s].known /\ x.next = sv[s].next /\ x.match = sv[s].match
        /\ m \in AppendRequest /\ m.from = s /\ m.to = p /\ m.prev = sv[s].next[p] - 1
    BY DEF Calls
  <1>2. \A n \in net' \ {m} :
          /\ n \in net \/ \E k \in net : k.live /\ k.req /\ n = Late(k) /\ k \notin net'
          /\ n.kind = "append" /\ n.from = s => ~n.live /\ ~(n.req /\ n.to = p)
    BY DEF Calls
  <1>3. /\ sv \in [Server -> ServerRec] /\ MatchGood /\ BaseInv /\ net \subseteq Message
        /\ net' \subseteq Message
    BY DEF MatchStart, BaseInv, RaftTypeOK
  <1>4. sv'[s] = x /\ \A q \in Server : q # s => sv'[q] = sv[q]
    BY <1>1, <1>3
  <1>5. \A q \in Server : IndexFrame(q)
    BY <1>1, <1>4 DEF IndexFrame
  <1>6. ASSUME NEW n \in net', n # m
        PROVE  \E k \in net : /\ k.kind = n.kind /\ k.req = n.req /\ k.from = n.from /\ k.to = n.to
                              /\ n = k \/ (k.req /\ n = Late(k) /\ k \notin net')
    <2>1. CASE n \in net
      BY <2>1
    <2>2. CASE n \notin net
      <3>1. PICK k \in net : k.req /\ n = Late(k) /\ k \notin net'
        BY <1>2, <1>6, <2>2
      <3> QED BY <1>3, <3>1, LateIs
    <2> QED BY <2>1, <2>2
  <1>7. AloneIn(net')
    <2> SUFFICES ASSUME NEW k \in net', NEW n \in net', k.kind = "append", n.kind = "append", k.req,
                        k.from = n.from, k.to = n.to, k # n
                 PROVE  FALSE
      BY DEF AloneIn
    <2>1. CASE k # m /\ n # m
      <3>1. PICK i \in net : /\ i.kind = "append" /\ i.req /\ i.from = k.from /\ i.to = k.to
                             /\ k = i \/ (k = Late(i) /\ i \notin net')
        BY <1>6, <2>1
      <3>2. PICK j \in net : /\ j.kind = "append" /\ j.from = n.from /\ j.to = n.to
                             /\ n = j \/ (n = Late(j) /\ j \notin net')
        BY <1>6, <2>1
      <3>3. i = j
        BY <1>3, <3>1, <3>2 DEF MatchGood, Alone, AloneIn
      <3> QED BY <3>1, <3>2, <3>3
    <2>2. CASE k = m
      <3>1. n \in Message /\ ~n.live /\ ~n.req
        BY <1>1, <1>2, <1>3, <2>2
      <3>2. n \notin Response /\ n \notin AppendRequest /\ n \notin VoteRequest
        BY <3>1 DEF Response, AppendRequest, VoteRequest
      <3> QED BY <3>1, <3>2 DEF Message
    <2>3. CASE n = m
      BY <1>1, <1>2, <2>3
    <2> QED BY <2>1, <2>2, <2>3
  <1>8. ASSUME NEW n \in net', n \in AppendRequest PROVE Behind(n)'
    <2>1. CASE n = m
      <3>1. p \in Server
        BY <1>1 DEF AppendRequest
      <3>2. sv[s].match[p] < sv[s].next[p] /\ sv[s].match[p] \in Nat /\ sv[s].next[p] \in Int
        BY <1>1, <1>3, <3>1 DEF MatchGood, Tracked, ServerRec
      <3>3. sv[s].match[p] <= sv[s].next[p] - 1
        BY SMTT(100), <3>2
      <3> QED BY SMTT(100), <1>1, <1>4, <2>1, <3>3 DEF Behind
    <2>2. CASE n # m
      <3>1. n.from \in Server /\ n.kind = "append" /\ n.req
        BY <1>8 DEF AppendRequest
      <3>2. PICK k \in net : k.kind = "append" /\ k.req /\ (n = k \/ n = Late(k))
        BY <1>6, <2>2, <3>1
      <3>3. k \in AppendRequest
        BY <1>3, <3>2 DEF Message, VoteRequest, Response
      <3> QED BY <1>5, <3>1, <3>2, <3>3, BehindKept
    <2> QED BY <2>1, <2>2
  <1>9. ASSUME NEW n \in net', n \in Response, n.kind = "append" PROVE Acked(n)'
    <2>1. n.live /\ n.from \in Server /\ ~n.req
      BY <1>9 DEF Response
    <2>2. n # m
      BY <1>1, <2>1 DEF AppendRequest
    <2>3. n.from # s /\ n \in net
      BY <1>2, <1>6, <1>9, <2>1, <2>2
    <2> QED BY <1>4, <1>5, <1>9, <2>1, <2>3, AckKept
  <1>10. \A q \in Server : Tracked(q)'
    BY <1>5, TrackedKept
  <1>11. Alone'
    BY <1>7 DEF Alone
  <1> QED BY <1>8, <1>9, <1>10, <1>11 DEF MatchGood


LEMMA AnswerMatch ==
  ASSUME NEW E, MatchStart(E), NEW m, NEW x, Answered(m, x)
  PROVE  MatchGood'
  <1> DEFINE s == m.from
             p == m.to
             r == sv[s]
  <1>1. /\ m \in net /\ m \in Response /\ m.kind = "append" /\ Pending(m, r) /\ m.term <= r.term
        /\ s \in Server /\ p \in Server /\ sv' = [sv EXCEPT ![s] = x] /\ net' = net \ {m}
        /\ x.st = r.st /\ x.term = r.term /\ x.known = r.known
    BY DEF Answered
  <1>2. /\ \A q \in Server \ {p} : x.next[q] = r.next[q] /\ x.match[q] = r.match[q]
        /\ m.ok => x.next[p] = r.next[p] + r.sent.num /\ x.match[p] = r.sent.prev + r.sent.num
        /\ ~m.ok => x.next[p] = r.next[p] - 1 /\ x.match[p] = r.match[p]
    BY DEF Answered
  <1>3. /\ sv \in [Server -> ServerRec] /\ BaseInv /\ BaseInv' /\ ElectionSafety /\ LogGood(E) /\ MatchGood
        /\ \A q \in Server : Moves(q)
    BY DEF MatchStart, BaseInv, RaftTypeOK
  <1>4. /\ sv'[s] = x /\ \A q \in Server : q # s => sv'[q] = sv[q]
        /\ r.st = "leader" /\ p \in r.known /\ r.sent.prev = r.next[p] - 1 /\ ~m.req /\ m.live
    BY <1>1, <1>3 DEF Pending, Response
  <1>5. \A q \in Server : q # s => IndexFrame(q) /\ sv'[q].sent = sv[q].sent
    BY <1>4 DEF IndexFrame
  <1>6. ASSUME NEW k \in net, k \in AppendRequest, k.from = s, k.to = p PROVE FALSE
    <2>1. k.req /\ k.kind = "append"
      BY <1>6 DEF AppendRequest
    <2>2. k = m
      BY <1>1, <1>3, <1>6, <2>1 DEF MatchGood, Alone, AloneIn
    <2> QED BY <1>4, <2>1, <2>2
  <1>7. /\ r.sent.prev \in Nat /\ r.sent.num \in Nat /\ r.next[p] \in Int /\ r.match[p] \in Nat
        /\ x.match \in [Server -> Nat]
    <2>1. r \in ServerRec /\ x \in ServerRec
      BY <1>1, <1>3 DEF Answered
    <2> QED BY <1>1, <2>1 DEF ServerRec
  <1>8. Acked(m) /\ Tracked(s) /\ (r.match[p] < r.next[p])
    BY <1>1, <1>3, <1>4 DEF MatchGood, Tracked
  <1>9. x.match[p] < x.next[p] /\ Counted(s, p, x.match[p])
    <2>1. CASE m.ok
      <3>1. Counted(s, p, r.sent.prev + r.sent.num)
        BY <1>8, <2>1 DEF Acked
      <3>2. r.sent.prev + r.sent.num < r.next[p] + r.sent.num
        BY SMTT(100), <1>4, <1>7
      <3> QED BY <1>2, <2>1, <3>1, <3>2
    <2>2. CASE ~m.ok
      <3>1. r.match[p] < r.sent.prev
        BY <1>1, <1>8, <2>2 DEF Acked
      <3>2. Counted(s, p, r.match[p])
        BY <1>1, <1>4, <1>8 DEF Tracked
      <3> QED BY <1>2, <1>4, <2>2, <3>1, <3>2
    <2> QED BY <2>1, <2>2
  <1>10. ASSUME NEW q \in Server
         PROVE  /\ q \notin x.known => x.match[q] = 0
                /\ x.match[q] < x.next[q]
                /\ Counted(s, q, sv[s].match[q])'
    <2>1. /\ q \notin x.known => x.match[q] = 0
          /\ x.match[q] < x.next[q] /\ Counted(s, q, x.match[q])
      <3>1. CASE q = p
        BY <1>1, <1>4, <1>9, <3>1
      <3>2. CASE q # p
        BY SMTT(100), <1>1, <1>2, <1>4, <1>8, <3>2 DEF Tracked
      <3> QED BY <3>1, <3>2
    <2>2. x.match[q] \in Nat
      BY <1>7
    <2>3. PICK n \in Nat : n = x.match[q]
      BY <2>2
    <2>4. ASSUME NEW k \in net, k \in AppendRequest, k.from = s, k.to = q, k.term = sv[s].term
          PROVE  n <= k.prev
      <3>1. q # p
        BY <1>6, <2>4
      <3>2. r.match[q] <= k.prev
        BY <1>3, <1>4, <2>4 DEF MatchGood, Behind
      <3> QED BY <1>2, <2>3, <3>1, <3>2
    <2>5. Counted(s, q, n)'
      <3>1. Counted(s, q, n) /\ sv[s].st = "leader" /\ sv'[s].st = "leader" /\ s \in Server
        BY <1>1, <1>4, <2>1, <2>3
      <3> HIDE DEF s
      <3> QED BY <1>3, <2>4, <3>1, CountedKept
    <2>6. Counted(s, q, sv[s].match[q])'
      BY <1>4, <2>3, <2>5 DEF Counted
    <2> QED BY <2>1, <2>6
  <1>11. Tracked(s)'
    BY <1>4, <1>10 DEF Tracked
  <1>12. \A q \in Server : Tracked(q)'
    BY <1>5, <1>11, TrackedKept
  <1>13. Alone'
    <2>1. AloneIn(net')
      BY <1>1, <1>3 DEF MatchGood, Alone, AloneIn
    <2> QED BY <2>1 DEF Alone
  <1>14. ASSUME NEW k \in net', k \in AppendRequest PROVE Behind(k)'
    <2>1. k \in net /\ k.from \in Server /\ k.to \in Server
      BY <1>1, <1>14 DEF AppendRequest
    <2>2. CASE k.from = s
      <3>1. k.to # p
        BY <1>6, <1>14, <2>1, <2>2
      <3>2. sv'[k.from].match[k.to] = sv[k.from].match[k.to] /\ sv'[k.from].term = sv[k.from].term
        BY SMTT(100), <1>1, <1>2, <1>4, <2>1, <2>2, <3>1
      <3>3. Behind(k) /\ sv[k.from].st = "leader"
        BY <1>3, <1>4, <1>14, <2>1, <2>2 DEF MatchGood
      <3> QED BY <3>2, <3>3 DEF Behind
    <2>3. CASE k.from # s
      BY <1>5, <1>14, <2>1, <2>3, BehindKept
    <2> QED BY <2>2, <2>3
  <1>15. ASSUME NEW n \in net', n \in Response, n.kind = "append" PROVE Acked(n)'
    <2>1. n \in net /\ n # m /\ n.live /\ n.from \in Server
      BY <1>1, <1>15 DEF Response
    <2>2. n.from # s
      BY <1>1, <1>3, <1>4, <1>15, <2>1 DEF BaseInv, CallsOK, LiveAppend
    <2> QED BY <1>5, <1>15, <2>1, <2>2, AckKept
  <1> QED BY <1>12, <1>13, <1>14, <1>15 DEF MatchGood


\* A server that takes what it is sent stores it, and one that refuses it does not have
\* the entry before it.
LEMMA TakenAcks ==
  ASSUME NEW E, MatchStart(E), NEW m, NEW x, NEW ok, LogTaken(m, x, ok)
  PROVE  AcksTrue(Reply(m, x.term, ok))
  <1> SUFFICES ASSUME NEW n \in Reply(m, x.term, ok) PROVE Acked(n)'
    BY DEF AcksTrue
  <1> DEFINE s == m.from
             p == m.to
             e == sv[s].log
             old == sv[p].log
  <1>0. BaseInv /\ BaseInv' /\ LogGood(E) /\ MatchGood
    BY DEF MatchStart
  <1>1. /\ m \in net /\ m \in AppendRequest /\ ok \in BOOLEAN /\ sv' = [sv EXCEPT ![p] = x]
        /\ x.term = m.term /\ sv[p].term <= x.term
        /\ ok => Fits(m, old) /\ x.log = SubSeq(old, 1, m.prev) \o m.entries
        /\ ~ok => m.prev > 0 /\ ~Fits(m, old)
    BY DEF LogTaken, Retires
  <1>2. /\ s \in Server /\ p \in Server /\ s # p /\ m \in Message /\ m.term \in Nat /\ m.prev \in Nat
        /\ m.entries \in Seq(Entry) /\ m.req /\ m.kind = "append"
    BY <1>0, <1>1 DEF BaseInv, RaftTypeOK, AppendRequest
  <1>3. /\ m.live /\ n.from = s /\ n.to = p /\ n.term = m.term /\ n.ok = ok
    <2>1. x.term \in Nat /\ ok \in BOOLEAN
      BY <1>1, <1>2
    <2>2. m.live /\ n.from = m.from /\ n.to = m.to /\ n.term = x.term /\ n.ok = ok
      BY SMTT(100), <1>2, <2>1, ReplyIs
    <2> QED BY <1>1, <2>2
  <1>4. /\ sv'[s] = sv[s] /\ sv'[p] = x /\ e \in Seq(Entry) /\ old \in Seq(Entry)
        /\ sv[s].match[p] \in Nat /\ sv[p].term \in Nat
    <2>1. sv \in [Server -> ServerRec]
      BY <1>0 DEF BaseInv, RaftTypeOK
    <2>2. sv'[s] = sv[s] /\ sv'[p] = x /\ sv[s] \in ServerRec /\ sv[p] \in ServerRec
      BY <1>1, <1>2, <2>1
    <2> QED BY <1>2, <2>2 DEF ServerRec
  <1>5. /\ sv[s].st = "leader" /\ m.term = sv[s].term /\ sv[s].sent.prev = m.prev
        /\ sv[s].sent.num = Len(m.entries)
    <2>1. Pending(m, sv[s])
      BY <1>0, <1>1, <1>2, <1>3 DEF BaseInv, CallsOK, LiveAppend
    <2> QED BY <1>2, <2>1 DEF Pending
  <1>6. /\ E \in [Nat -> Seq(Entry)] /\ E[m.term] = e /\ Slice(m, e) /\ Sound(e, E) /\ Sound(old, E)
    BY <1>0, <1>1, <1>2, <1>5 DEF LogGood, SoundCalls, SoundCall, LeadersLog, SoundLogs
  <1>7. ASSUME ok PROVE Counted(s, p, sv[s].sent.prev + sv[s].sent.num)'
    <2>1. Agreed(old, e, m.prev)
      <3> HIDE DEF e, old
      <3> QED BY <1>1, <1>4, <1>6, <1>7, FitsAgrees
    <2>2. Agreed(x.log, e, m.prev + Len(m.entries))
      <3>1. /\ Len(m.entries) \in 0..Len(m.entries)
            /\ SubSeq(m.entries, 1, Len(m.entries)) = m.entries
        BY SMTT(100), <1>2
      <3>2. Agreed(SubSeq(old, 1, m.prev) \o SubSeq(m.entries, 1, Len(m.entries)), e,
                   m.prev + Len(m.entries))
        <4> HIDE DEF e, old
        <4> QED BY <1>1, <1>4, <1>6, <2>1, <3>1, TakenAgrees
      <3> QED BY <1>1, <1>7, <3>1, <3>2
    <2>3. m.term <= m.term
      BY SMTT(100), <1>2
    <2> QED BY <1>1, <1>4, <1>5, <2>2, <2>3 DEF Counted
  <1>8. ASSUME ~ok PROVE sv[s].match[p] < m.prev
    <2>0. Behind(m) /\ Tracked(s)
      BY <1>0, <1>1, <1>2 DEF MatchGood
    <2>1. sv[s].match[p] <= m.prev /\ Counted(s, p, sv[s].match[p])
      BY <1>2, <1>5, <2>0 DEF Behind, Tracked
    <2> SUFFICES ASSUME sv[s].match[p] = m.prev PROVE FALSE
      BY SMTT(100), <1>2, <1>4, <2>1
    <2>2. sv[s].term <= sv[p].term /\ (sv[p].term = sv[s].term => Agreed(old, e, m.prev))
      BY <1>1, <1>8, <2>1 DEF Counted
    <2>3. sv[p].term = sv[s].term
      BY SMTT(100), <1>1, <1>2, <1>4, <1>5, <2>2
    <2>4. Agreed(old, e, m.prev) /\ m.prev > 0
      BY <1>1, <1>8, <2>2, <2>3
    <2>5. m.prev <= Len(old) /\ old[m.prev] = e[m.prev]
      <3>1. ASSUME NEW l \in Seq(Entry), NEW f \in Seq(Entry), NEW i \in Nat, i > 0, Agreed(l, f, i)
            PROVE  i <= Len(l) /\ l[i] = f[i]
        BY SMTT(100), <3>1 DEF Agreed
      <3> HIDE DEF e, old
      <3> QED BY <1>2, <1>4, <2>4, <3>1
    <2>6. Fits(m, old)
      BY <1>6, <2>4, <2>5 DEF Fits, Slice
    <2> QED BY <1>1, <1>8, <2>6
  <1> QED BY <1>3, <1>4, <1>5, <1>7, <1>8 DEF Acked

LEMMA UnmovedAcks ==
  ASSUME NEW E, MatchStart(E), NEW m \in net, m.req, m.kind = "append", Idles({m}, Reply(m, sv[m.to].term, FALSE)),
         m.term < sv[m.to].term
  PROVE  AcksTrue(Reply(m, sv[m.to].term, FALSE))
  <1> SUFFICES ASSUME NEW n \in Reply(m, sv[m.to].term, FALSE) PROVE Acked(n)'
    BY DEF AcksTrue
  <1>0. BaseInv
    BY DEF MatchStart
  <1>1. m \in Message /\ m.from \in Server /\ m.to \in Server /\ m.term \in Nat
    BY <1>0, RequestIs DEF BaseInv, RaftTypeOK
  <1>2. sv[m.to].term \in Nat
    BY <1>0, <1>1 DEF BaseInv, RaftTypeOK, ServerRec
  <1>3. m.live /\ n.from = m.from /\ n.term = sv[m.to].term /\ n.ok = FALSE
    BY SMTT(100) DEF Reply
  <1>4. sv[m.from].term = m.term /\ sv'[m.from].term = sv[m.from].term
    <2>1. Pending(m, sv[m.from])
      BY <1>0, <1>3 DEF BaseInv, CallsOK, LiveAppend
    <2>2. sv[m.from].term = m.term
      BY <2>1 DEF Pending
    <2> QED BY <1>1, <2>2 DEF Idles, Steady
  <1>5. ~(n.term <= sv'[n.from].term)
    BY SMTT(100), <1>1, <1>2, <1>3, <1>4
  <1> QED BY <1>3, <1>5 DEF Acked


LEMMA MatchStep ==
  ASSUME BaseInv, BaseInv', ElectionSafety, Effect, NEW E, LogGood(E), MatchGood
  PROVE  MatchGood'
  <1>0. MatchStart(E)
    BY MovesIs DEF MatchStart
  <1>1. PICK N : N = {}
    OBVIOUS
  <1>2. AcksTrue(N) /\ NoRequests(N) /\ \A G : Replies(G, N, 0)
    BY <1>1 DEF AcksTrue, NoRequests, Replies
  <1>3. ASSUME NEW s, NEW x, NEW G, Retires(s, x, G, {}) PROVE MatchGood'
    <2>1. Retires(s, x, G, N)
      BY <1>1, <1>3
    <2> QED BY <1>0, <1>2, <2>1, RetireMatch
  <1>4. ASSUME NEW G, Idles(G, {}) PROVE MatchGood'
    <2>1. Idles(G, N)
      BY <1>1, <1>4
    <2> QED BY <1>0, <1>2, <2>1, IdleMatch
  <1>5. ASSUME NEW m \in net, m.req, NEW t \in Nat, NEW ok \in BOOLEAN, 
               m.kind = "append" /\ ~ok /\ t <= m.term => m.prev > 0
        PROVE  /\ Replies({m}, Reply(m, t, ok), t) /\ NoRequests(Reply(m, t, ok))
               /\ m.kind # "append" => AcksTrue(Reply(m, t, ok))
    <2>1. Replies({m}, Reply(m, t, ok), t)
      BY <1>5 DEF Replies, Answers
    <2>2. \A n \in Reply(m, t, ok) : n \in Response /\ n.kind = m.kind
      <3>1. m \in Message
        BY DEF BaseInv, RaftTypeOK
      <3> QED BY SMTT(100), <1>5, <3>1, ReplyIs
    <2>3. \A n \in Response : n \notin AppendRequest
      BY DEF Response, AppendRequest
    <2> QED BY <2>1, <2>2, <2>3 DEF NoRequests, AcksTrue
  <1>6. ASSUME NEW m, Unmoved(m) PROVE MatchGood'
    <2>1. CASE Idles({m}, {})
      BY <1>4, <2>1
    <2>2. CASE Idles({m}, Reply(m, sv[m.to].term, FALSE)) /\ (m.kind = "append" => m.term < sv[m.to].term)
      <3>1. m \in net /\ m.req /\ m.term \in Nat /\ m.to \in Server
        BY <1>6, RequestIs DEF Unmoved
      <3>2. sv[m.to].term \in Nat
        BY <3>1 DEF BaseInv, RaftTypeOK, ServerRec
      <3>3. m.kind = "append" => ~(sv[m.to].term <= m.term)
        BY SMTT(100), <2>2, <3>1, <3>2
      <3>4. /\ Replies({m}, Reply(m, sv[m.to].term, FALSE), sv[m.to].term)
            /\ NoRequests(Reply(m, sv[m.to].term, FALSE))
            /\ m.kind # "append" => AcksTrue(Reply(m, sv[m.to].term, FALSE))
        BY <1>5, <3>1, <3>2, <3>3
      <3>5. AcksTrue(Reply(m, sv[m.to].term, FALSE))
        BY <1>0, <2>2, <3>1, <3>4, UnmovedAcks
      <3> QED BY <1>0, <2>2, <3>4, <3>5, IdleMatch
    <2> QED BY <1>6, <2>1, <2>2 DEF Unmoved
  <1>7. ASSUME NEW s, NEW x, Campaigns(s, x) PROVE MatchGood'
    <2>1. /\ s \in Server /\ sv' = [sv EXCEPT ![s] = x] /\ sv[s].st = "candidate"
          /\ x.st = "candidate"
      BY <1>7 DEF Campaigns
    <2>2. \A n \in net' : n.kind = "append" => n \in net
      BY <1>7 DEF Campaigns, VoteRequest
    <2> QED BY <1>0, <2>1, <2>2, CandidateMatch
  <1>8. ASSUME NEW m, NEW x, Counts(m, x) PROVE MatchGood'
    <2>1. /\ m.from \in Server /\ sv' = [sv EXCEPT ![m.from] = x] /\ net' = net \ {m}
          /\ sv[m.from].st = "candidate" /\ x.st = "candidate"
      BY <1>8 DEF Counts, Campaigning
    <2>2. sv[m.from].st # "leader" /\ x.st # "leader"
      BY <2>1
    <2> QED BY <1>0, <2>1, <2>2, CandidateMatch
  <1>9. ASSUME NEW m, NEW x, VoteRefused(m, x) \/ VoteGranted(m, x) PROVE MatchGood'
    <2>1. PICK ok \in BOOLEAN : Retires(m.to, x, {m}, Reply(m, x.term, ok))
      BY <1>9 DEF VoteRefused, VoteGranted
    <2>2. m \in net /\ m.req /\ m.kind # "append" /\ x.term \in Nat
      BY <1>9 DEF VoteRefused, VoteGranted, VoteRequest, Retires, ServerRec
    <2>3. /\ Replies({m}, Reply(m, x.term, ok), x.term) /\ NoRequests(Reply(m, x.term, ok))
          /\ AcksTrue(Reply(m, x.term, ok))
      BY <1>5, <2>2
    <2> QED BY <1>0, <2>1, <2>3, RetireMatch
  <1>10. ASSUME NEW m, NEW x, NEW ok, LogTaken(m, x, ok) PROVE MatchGood'
    <2>1. Retires(m.to, x, {m}, Reply(m, x.term, ok)) /\ ok \in BOOLEAN /\ (~ok => m.prev > 0)
      BY <1>10 DEF LogTaken
    <2>2. m \in net /\ m.req /\ x.term \in Nat
      BY <1>10 DEF LogTaken, AppendRequest, Retires, ServerRec
    <2>3. Replies({m}, Reply(m, x.term, ok), x.term) /\ NoRequests(Reply(m, x.term, ok))
      BY <1>5, <2>1, <2>2
    <2>4. AcksTrue(Reply(m, x.term, ok))
      BY <1>0, <1>10, TakenAcks
    <2> QED BY <1>0, <2>1, <2>3, <2>4, RetireMatch
  <1>11. CASE \E s, x, G : Resigns(s, x, G)
    BY <1>3, <1>11 DEF Resigns
  <1>12. CASE \E m, x : LogBroken(m, x)
    BY <1>3, <1>12 DEF LogBroken
  <1>13. CASE \E s, x : Campaigns(s, x) \/ Leads(s, x) \/ Allocates(s, x)
    BY <1>0, <1>7, <1>13, LeadMatch, AllocateMatch
  <1>14. CASE \E s, p, x, m : Calls(s, p, x, m)
    BY <1>0, <1>14, CallMatch
  <1>15. CASE \E m, x : Answered(m, x)
    BY <1>0, <1>15, AnswerMatch
  <1> QED BY <1>4, <1>6, <1>8, <1>9, <1>10, <1>11, <1>12, <1>13, <1>14, <1>15 DEF Effect

-----------------------------------------------------------------------------
\* At first the logs are empty and nobody leads.
LEMMA LogInit ==
  ASSUME RaftInit
  PROVE  (\E E : LogGood(E)) /\ MatchGood
  <1> DEFINE E == [t \in Nat |-> <<>>]
  <1>1. ASSUME NEW s \in Server PROVE sv[s].log = <<>> /\ sv[s].st = "follower"
    BY DEF RaftInit, Booted
  <1>2. net = {} /\ won = {}
    BY DEF RaftInit
  <1>3. /\ E \in [Nat -> Seq(Entry)] /\ \A t \in Nat : E[t] = <<>>
        /\ \A F : Sound(<<>>, F)
    BY SMTT(100) DEF Sound, LogOK, NodesOnce
  <1> HIDE DEF E
  <1>4. SoundLogs(E)
    BY <1>1, <1>3 DEF SoundLogs
  <1>5. LeadersLog(E) /\ SoundCalls(E) /\ WonOnce
    BY <1>1, <1>2, <1>3 DEF LeadersLog, SoundCalls, WonOnce, Won
  <1>6. MatchGood
    BY <1>1, <1>2 DEF MatchGood, Tracked, Alone, AloneIn
  <1> QED BY <1>4, <1>5, <1>6 DEF LogGood

LEMMA LogImplies ==
  ASSUME BaseInv, NEW E, LogGood(E)
  PROVE  LogMatching /\ NodeIDsOnce
  <1>1. \A s \in Server : sv[s].log \in Seq(Entry) /\ Sound(sv[s].log, E)
    BY DEF BaseInv, RaftTypeOK, ServerRec, LogGood, SoundLogs
  <1>2. ASSUME NEW g \in Seq(Entry), NEW h \in Seq(Entry), Sound(g, E), Sound(h, E),
               NEW i \in 1..Min2(Len(g), Len(h)), g[i].term = h[i].term
        PROVE  SubSeq(g, 1, i) = SubSeq(h, 1, i)
    <2>1. i \in 1..Len(g) /\ i \in 1..Len(h) /\ i \in Nat
      BY SMTT(100) DEF Min2
    <2>2. E[g[i].term] \in Seq(Entry)
      <3>1. g[i] \in Entry
        BY <2>1, ElementIs
      <3>2. g[i].term \in Nat
        BY <3>1 DEF Entry
      <3> QED BY <3>2 DEF LogGood, SoundLogs
    <2>3. PICK e \in Seq(Entry) : Agreed(g, e, i) /\ Agreed(h, e, i)
      BY <1>2, <2>1, <2>2 DEF Sound, LogOK
    <2>4. Agreed(e, h, i)
      BY <2>1, <2>3, AgreedIs
    <2>5. Agreed(g, h, i)
      BY <2>1, <2>3, <2>4, AgreedIs
    <2> QED BY <2>1, <2>5, AgreedIs
  <1>3. LogMatching
    BY <1>1, <1>2 DEF LogMatching, LastIndex
  <1>4. NodeIDsOnce
    BY <1>1 DEF NodeIDsOnce, LastIndex, Sound, NodesOnce
  <1> QED BY <1>3, <1>4

LEMMA MatchImplies ==
  ASSUME BaseInv, MatchGood
  PROVE  MatchIsStored
  <1> SUFFICES ASSUME NEW s \in Server, NEW p \in Server, sv[s].st = "leader",
                      sv[p].term = sv[s].term
               PROVE  /\ sv[s].match[p] <= Len(sv[p].log)
                      /\ SubSeq(sv[p].log, 1, sv[s].match[p]) = SubSeq(sv[s].log, 1, sv[s].match[p])
    BY DEF MatchIsStored, LastIndex
  <1>1. /\ sv[s].log \in Seq(Entry) /\ sv[p].log \in Seq(Entry) /\ sv[s].match[p] \in Nat
    BY DEF BaseInv, RaftTypeOK, ServerRec
  <1>2. Counted(s, p, sv[s].match[p])
    BY DEF MatchGood, Tracked
  <1>3. sv[s].match[p] > 0 => Agreed(sv[p].log, sv[s].log, sv[s].match[p])
    BY <1>2 DEF Counted
  <1>4. \A g, h \in Seq(Entry) : Agreed(g, h, 0)
    BY SMTT(100) DEF Agreed
  <1>5. sv[s].match[p] = 0 \/ sv[s].match[p] > 0
    BY SMTT(100), <1>1
  <1>6. Agreed(sv[p].log, sv[s].log, sv[s].match[p])
    BY <1>1, <1>3, <1>4, <1>5
  <1> QED BY <1>1, <1>6, AgreedIs DEF Agreed
=============================================================================
