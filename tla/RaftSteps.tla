------------------------------ MODULE RaftSteps ------------------------------
(***************************************************************************)
(* What every step of RaftCore comes to, for any cluster and any clients,  *)
(* any crashes, failed writes, lost and late messages: the types and the   *)
(* calls that every state keeps, and one Effect out of a few on servers    *)
(* and messages, which is all that the later arguments know of an action.  *)
(***************************************************************************)
EXTENDS RaftCore, TLAPS

USE ZenonT(100)

-----------------------------------------------------------------------------
\* The type of every variable the arguments read.
States == {"follower", "candidate", "leader", "down"}
Entry == [term : Nat, node : Server \cup Client]
ServerRec ==
  [st : States, term : Nat, voted : Server \cup {Nobody}, log : Seq(Entry), commit : Nat,
   votes : Nat, sent : [prev : Nat, num : Nat], known : SUBSET Server, discovering : BOOLEAN,
   next : [Server -> Int], match : [Server -> Nat]]

VoteRequest ==
  [kind : {"vote"}, req : {TRUE}, live : BOOLEAN, from : Server, to : Server, term : Nat,
   index : Nat, last : Nat]
AppendRequest ==
  [kind : {"append"}, req : {TRUE}, live : BOOLEAN, from : Server, to : Server, term : Nat,
   prev : Nat, prevterm : Nat, entries : Seq(Entry), commit : Nat]
Response ==
  [kind : BothCalls, req : {FALSE}, live : {TRUE}, from : Server, to : Server, term : Nat,
   ok : BOOLEAN]
Message == VoteRequest \cup AppendRequest \cup Response

-----------------------------------------------------------------------------
\* What the operators on a server's state leave alone.
LEMMA SwitchedIs ==
  ASSUME NEW r \in ServerRec, NEW new \in States
  PROVE  /\ Switched(r, new) \in ServerRec /\ Switched(r, new).st = new
         /\ Switched(r, new).term = r.term /\ Switched(r, new).voted = r.voted
         /\ Switched(r, new).log = r.log /\ Switched(r, new).known = r.known
         /\ Switched(r, new).commit = r.commit
         /\ r.st = new => Switched(r, new) = r
         /\ r.st # new => /\ Switched(r, new).votes = 0
                          /\ Switched(r, new).match = [p \in Server |-> 0]
         /\ r.st # new /\ new = "leader" =>
              Switched(r, new).next = [p \in Server |-> Len(r.log) + 1]
  <1> DEFINE n == IF new = "leader" THEN [p \in Server |-> LastIndex(r) + 1] ELSE NoIndices
  <1>1. /\ n \in [Server -> Int] /\ NoIndices \in [Server -> Nat]
        /\ Nothing \in [prev : Nat, num : Nat] /\ r.log \in Seq(Entry)
    BY SMTT(100) DEF LastIndex, NoIndices, Nothing, ServerRec
  <1>2. CASE r.st = new
    BY <1>2 DEF Switched
  <1>3. CASE r.st # new
    <2>1. Switched(r, new) = [r EXCEPT !.st = new, !.votes = 0, !.sent = Nothing,
                                       !.match = NoIndices, !.next = n]
      BY <1>3 DEF Switched
    <2> HIDE DEF n
    <2>2. [r EXCEPT !.st = new, !.votes = 0, !.sent = Nothing, !.match = NoIndices, !.next = n]
            \in ServerRec
      BY <1>1 DEF ServerRec
    <2>3. /\ Switched(r, new).st = new /\ Switched(r, new).term = r.term
          /\ Switched(r, new).voted = r.voted /\ Switched(r, new).log = r.log
          /\ Switched(r, new).known = r.known /\ Switched(r, new).commit = r.commit
          /\ Switched(r, new).votes = 0 /\ Switched(r, new).match = NoIndices
          /\ Switched(r, new).next = n
      BY <2>1 DEF ServerRec
    <2> QED BY <1>3, <2>1, <2>2, <2>3 DEF n, NoIndices, LastIndex
  <1> QED BY <1>2, <1>3

LEMMA DeadIs ==
  ASSUME NEW r \in ServerRec
  PROVE  /\ Dead(r) \in ServerRec /\ Dead(r).st = "down"
         /\ Dead(r).term = r.term /\ Dead(r).voted = r.voted /\ Dead(r).log = r.log
         /\ Dead(r).known = {} /\ Dead(r).votes = 0
  <1>1. /\ NoIndices \in [Server -> Nat] /\ NoIndices \in [Server -> Int]
        /\ Nothing \in [prev : Nat, num : Nat]
    BY SMTT(100) DEF NoIndices, Nothing
  <1> QED BY <1>1 DEF Dead, Booted, ServerRec, States

LEMMA AddedIs ==
  ASSUME NEW r \in ServerRec, NEW ps \in SUBSET Server
  PROVE  /\ addServers(r, ps) \in ServerRec
         /\ addServers(r, ps).st = r.st /\ addServers(r, ps).term = r.term
         /\ addServers(r, ps).voted = r.voted /\ addServers(r, ps).log = r.log
         /\ addServers(r, ps).votes = r.votes /\ addServers(r, ps).sent = r.sent
         /\ addServers(r, ps).match = r.match /\ addServers(r, ps).commit = r.commit
         /\ addServers(r, ps).known = r.known \cup ps
         /\ \A p \in Server : addServers(r, ps).next[p] =
              IF p \in ps /\ r.st = "leader" THEN Len(r.log) + 1 ELSE r.next[p]
  <1> DEFINE n == [p \in Server |-> IF p \in ps /\ r.st = "leader" THEN LastIndex(r) + 1 ELSE r.next[p]]
  <1>1. n \in [Server -> Int]
    <2>1. r.log \in Seq(Entry) /\ r.next \in [Server -> Int]
      BY DEF ServerRec
    <2>2. Len(r.log) + 1 \in Int
      BY SMTT(100), <2>1
    <2> QED BY <2>1, <2>2 DEF LastIndex
  <1>2. addServers(r, ps) = [r EXCEPT !.known = r.known \cup ps, !.next = n]
    BY DEF addServers, ServerRec
  <1>3. n = [p \in Server |-> IF p \in ps /\ r.st = "leader" THEN Len(r.log) + 1 ELSE r.next[p]]
    BY DEF LastIndex
  <1> HIDE DEF n
  <1>4. [r EXCEPT !.known = r.known \cup ps, !.next = n] \in ServerRec
    <2>1. r.known \cup ps \in SUBSET Server
      BY DEF ServerRec
    <2> HIDE DEF addServers
    <2> QED BY <1>1, <2>1 DEF ServerRec
  <1>5. /\ addServers(r, ps).st = r.st /\ addServers(r, ps).term = r.term
        /\ addServers(r, ps).voted = r.voted /\ addServers(r, ps).log = r.log
        /\ addServers(r, ps).votes = r.votes /\ addServers(r, ps).sent = r.sent
        /\ addServers(r, ps).match = r.match /\ addServers(r, ps).commit = r.commit
        /\ addServers(r, ps).known = r.known \cup ps /\ addServers(r, ps).next = n
    BY <1>2 DEF ServerRec
  <1>6. addServers(r, ps) \in ServerRec
    BY <1>2, <1>4
  <1>7. \A p \in Server : addServers(r, ps).next[p] =
          IF p \in ps /\ r.st = "leader" THEN Len(r.log) + 1 ELSE r.next[p]
    BY <1>3, <1>5
  <1> QED BY <1>5, <1>6, <1>7

-----------------------------------------------------------------------------
\* A request whose call was cancelled, and what cancelling leaves.
Late(m) == [m EXCEPT !.live = FALSE]

LEMMA LateIs ==
  ASSUME NEW m \in Message, m.req
  PROVE  /\ Late(m) \in Message /\ ~Late(m).live /\ Late(m).req = m.req
         /\ Late(m).kind = m.kind /\ Late(m).from = m.from /\ Late(m).to = m.to
         /\ Late(m).term = m.term
         /\ m \in AppendRequest => /\ Late(m) \in AppendRequest /\ Late(m).prev = m.prev
                                   /\ Late(m).prevterm = m.prevterm /\ Late(m).entries = m.entries
  <1>1. CASE m \in VoteRequest
    <2>1. Late(m) \in VoteRequest
      BY <1>1 DEF Late, VoteRequest
    <2>2. m \notin AppendRequest
      BY <1>1 DEF VoteRequest, AppendRequest
    <2> QED BY <1>1, <2>1, <2>2 DEF Late, Message, VoteRequest
  <1>2. CASE m \in AppendRequest
    <2>1. Late(m) \in AppendRequest
      BY <1>2 DEF Late, AppendRequest
    <2> QED BY <1>2, <2>1 DEF Late, Message, AppendRequest
  <1>3. m \notin Response
    BY DEF Response
  <1> QED BY <1>1, <1>2, <1>3 DEF Message

LEMMA CancelLeaves ==
  ASSUME NEW ms \in SUBSET Message, NEW kinds, NEW s, NEW rest \in Cancelled(ms, kinds, s)
  PROVE  /\ \A n \in rest : \/ n \in ms
                            \/ \E k \in ms \ rest : /\ k.live /\ k.req /\ n = Late(k)
                                                    /\ k.from = s /\ k.kind \in kinds
         /\ \A n \in rest : n.live => ~(n.from = s /\ n.kind \in kinds)
  <1> DEFINE mine == {m \in ms : m.live /\ m.from = s /\ m.kind \in kinds}
             late == {[m EXCEPT !.live = FALSE] : m \in {n \in mine : n.req}}
  <1>1. PICK x \in SUBSET late : rest = (ms \ mine) \cup x
    BY DEF Cancelled
  <1>2. \A n \in late : \E k \in mine : k.req /\ n = Late(k)
    BY DEF Late
  <1>3. \A n \in late : ~n.live
    BY <1>2, LateIs
  <1>4. \A k \in mine : k \in ms \ rest /\ k.live /\ k.from = s /\ k.kind \in kinds
    BY <1>1, <1>3
  <1> QED BY <1>1, <1>2, <1>3, <1>4

-----------------------------------------------------------------------------
\* The calls of a server.  A candidate that has voted for itself waits for votes; a leader
\* has one call of AppendEntries at most, and keeps aside what it carried.
Campaigning(s) == sv[s].st = "candidate" /\ sv[s].votes > 0
LiveVote(m) == m.kind = "vote" /\ m.live
LiveAppend(m) == m.kind = "append" /\ m.live

RaftTypeOK ==
  /\ sv \in [Server -> ServerRec] /\ net \subseteq Message /\ won \subseteq Nat \X Server
  /\ \A s \in Server : s \notin sv[s].known
  /\ \A m \in net : m.from # m.to
  /\ \A m \in net : m \in AppendRequest /\ m.prev = 0 => m.prevterm = 0

\* The indices of a leader stay in its log.
Indexed(r) == r.st = "leader" => \A p \in Server : r.next[p] \in 1..Len(r.log) + 1

\* What the caller knows of its call m of AppendEntries.
Pending(m, r) ==
  /\ r.st = "leader" /\ m.to \in r.known
  /\ r.sent.prev = r.next[m.to] - 1 /\ r.sent.prev + r.sent.num <= Len(r.log)
  /\ m.req => m.term = r.term /\ m.prev = r.sent.prev /\ Len(m.entries) = r.sent.num
  /\ ~m.req /\ ~m.ok /\ m.term <= r.term => r.sent.prev > 0

CallsOK ==
  /\ \A m \in net : LiveVote(m) => Campaigning(m.from)
  /\ \A m \in net : LiveAppend(m) => Pending(m, sv[m.from])
  /\ \A m, n \in net : LiveAppend(m) /\ LiveAppend(n) /\ m.from = n.from => m = n
  /\ \A s \in Server : Indexed(sv[s])

BaseInv == RaftTypeOK /\ CallsOK

LEMMA BaseInit == RaftInit => BaseInv
  <1> SUFFICES ASSUME RaftInit PROVE BaseInv
    OBVIOUS
  <1> DEFINE b == Booted(0, Nobody, <<>>)
  <1>1. /\ b \in ServerRec /\ b.st = "follower"
    <2>1. /\ NoIndices \in [Server -> Nat] /\ NoIndices \in [Server -> Int]
          /\ Nothing \in [prev : Nat, num : Nat] /\ <<>> \in Seq(Entry)
      BY SMTT(100) DEF NoIndices, Nothing
    <2> QED BY <2>1 DEF Booted, ServerRec, States
  <1> HIDE DEF b
  <1>2. ASSUME NEW s \in Server
        PROVE  /\ sv[s] \in ServerRec /\ s \notin sv[s].known /\ Indexed(sv[s])
    <2> DEFINE x == [b EXCEPT !.known = Server \ {s}, !.discovering = FALSE]
    <2>1. x \in ServerRec
      BY <1>1 DEF ServerRec
    <2>2. x.st = "follower" /\ x.known = Server \ {s}
      BY <1>1 DEF ServerRec
    <2>3. sv[s] = x
      BY DEF RaftInit, b
    <2> HIDE DEF x
    <2> QED BY <2>1, <2>2, <2>3 DEF Indexed
  <1>3. sv \in [Server -> ServerRec]
    BY <1>2 DEF RaftInit
  <1> QED BY <1>2, <1>3 DEF RaftInit, BaseInv, RaftTypeOK, CallsOK

-----------------------------------------------------------------------------
\* The steps but those that make calls: the messages but those in G, one at most, stay or
\* are late, and R is the answer to the one in G, of term t.
NetStep(G, R) ==
  \A n \in net' : \/ n \in net \ G
                  \/ \E k \in net \ G : k.live /\ k.req /\ n = Late(k) /\ k \notin net'
                  \/ n \in R

Answers(m, R, t) ==
  /\ m \in net /\ m.req /\ t \in Nat
  /\ \E ok \in BOOLEAN : /\ R = Reply(m, t, ok)
                         /\ m.kind = "append" /\ ~ok /\ t <= m.term => m.prev > 0

Replies(G, R, t) == R = {} \/ \E m \in G : Answers(m, R, t)

\* What the calls of q depend on.
Steady(q) ==
  /\ Campaigning(q) => Campaigning(q)'
  /\ sv'[q].st = sv[q].st /\ sv'[q].term = sv[q].term /\ sv'[q].sent = sv[q].sent
  /\ Len(sv[q].log) <= Len(sv'[q].log) /\ sv[q].known \subseteq sv'[q].known
  /\ \A p \in sv[q].known : sv'[q].next[p] = sv[q].next[p]

LEMMA ReplyIs ==
  ASSUME NEW m \in Message, NEW t \in Nat, NEW ok \in BOOLEAN, NEW n \in Reply(m, t, ok)
  PROVE  /\ n \in Response /\ n \in Message /\ m.live /\ n.live /\ ~n.req
         /\ n.kind = m.kind /\ n.from = m.from /\ n.to = m.to /\ n.term = t /\ n.ok = ok
         /\ \A k \in Reply(m, t, ok) : k = n
  <1>1. /\ m.live /\ n = [kind |-> m.kind, req |-> FALSE, live |-> TRUE, from |-> m.from,
                          to |-> m.to, term |-> t, ok |-> ok]
        /\ \A k \in Reply(m, t, ok) : k = n
    BY DEF Reply
  <1>2. m.kind \in BothCalls /\ m.from \in Server /\ m.to \in Server
    BY DEF Message, VoteRequest, AppendRequest, Response, BothCalls
  <1> QED BY <1>1, <1>2 DEF Response, Message

LEMMA BaseKept ==
  ASSUME BaseInv, sv' \in [Server -> ServerRec], won' \subseteq Nat \X Server,
         \A q \in Server : q \notin sv'[q].known /\ Indexed(sv'[q]),
         NEW G, NEW R, NEW t, NetStep(G, R), Replies(G, R, t),
         \A n \in net' : n.live => Steady(n.from)
  PROVE  BaseInv'
  <1>0. /\ net \subseteq Message /\ sv \in [Server -> ServerRec]
        /\ \A n \in net : n.from # n.to
        /\ \A n \in net : n \in AppendRequest /\ n.prev = 0 => n.prevterm = 0
        /\ \A n \in net : LiveVote(n) => Campaigning(n.from)
        /\ \A n \in net : LiveAppend(n) => Pending(n, sv[n.from])
        /\ \A k, n \in net : LiveAppend(k) /\ LiveAppend(n) /\ k.from = n.from => k = n
    BY DEF BaseInv, RaftTypeOK, CallsOK
  <1>a. PICK m : R # {} => m \in G /\ Answers(m, R, t)
    BY DEF Replies
  <1>1. ASSUME NEW n \in R
        PROVE  /\ n \in Message /\ m \in net \cap G /\ m.req /\ m.live /\ ~n.req /\ n.term = t
               /\ n.kind = m.kind /\ n.from = m.from /\ n.to = m.to /\ n.live
               /\ m.kind = "append" /\ ~n.ok /\ t <= m.term => m.prev > 0
               /\ \A k \in R : k = n
    <2>1. PICK ok \in BOOLEAN : /\ m \in net /\ m \in G /\ m.req /\ t \in Nat
                                /\ R = Reply(m, t, ok)
                                /\ m.kind = "append" /\ ~ok /\ t <= m.term => m.prev > 0
      BY <1>1, <1>a DEF Answers
    <2>2. m \in Message /\ n \in Reply(m, t, ok)
      BY <1>0, <1>1, <2>1
    <2>3. /\ n \in Message /\ m.live /\ n.live /\ ~n.req /\ n.ok = ok /\ n.term = t
          /\ n.kind = m.kind /\ n.from = m.from /\ n.to = m.to
          /\ \A k \in Reply(m, t, ok) : k = n
      BY SMTT(100), <2>1, <2>2, ReplyIs
    <2> QED BY <2>1, <2>3
  <1>2. \A n \in net' : n \in Message /\ n.from # n.to /\ n.from \in Server
    <2>1. \A k \in Message : k.from \in Server
      BY DEF Message, VoteRequest, AppendRequest, Response
    <2>2. \A k \in net : k.req => Late(k) \in Message /\ Late(k).from # Late(k).to
      BY SMTT(100), <1>0, LateIs
    <2>3. \A n \in R : n \in Message /\ n.from # n.to
      BY <1>0, <1>1
    <2>4. \A n \in net' : n \in Message /\ n.from # n.to
      BY <1>0, <2>2, <2>3 DEF NetStep
    <2> QED BY <2>1, <2>4
  <1>b. \A n \in net' : n \in AppendRequest /\ n.prev = 0 => n.prevterm = 0
    <2>1. ASSUME NEW n \in net', n \in AppendRequest, n.prev = 0, n \notin net PROVE n.prevterm = 0
      <3>1. n \notin R
        BY <1>1, <2>1 DEF AppendRequest
      <3>2. PICK k \in net : k.req /\ n = Late(k)
        BY <2>1, <3>1 DEF NetStep
      <3>3. k \in VoteRequest \/ k \in AppendRequest
        BY <1>0, <3>2 DEF Message, Response
      <3>4. k \notin VoteRequest
        <4>1. n.kind = k.kind /\ n.kind = "append"
          BY <1>0, <2>1, <3>2, LateIs DEF AppendRequest
        <4> QED BY <4>1 DEF VoteRequest
      <3> QED BY <1>0, <2>1, <3>2, <3>3, <3>4, LateIs
    <2> QED BY <1>0, <2>1
  <1>3. \A n \in net' : n.live => n \in net \ G \/ n \in R
    BY <1>0, LateIs DEF NetStep
  <1>4. ASSUME NEW n \in net', LiveVote(n) PROVE Campaigning(n.from)'
    <2>1. Steady(n.from) /\ (n \in net \/ n \in R)
      BY <1>3, <1>4 DEF LiveVote
    <2>2. Campaigning(n.from)
      BY <1>0, <1>1, <1>4, <2>1 DEF LiveVote
    <2> QED BY <2>1, <2>2 DEF Steady
  <1>5. ASSUME NEW n \in net', LiveAppend(n) PROVE Pending(n, sv[n.from])'
    <2>1. Pending(n, sv[n.from])
      <3>1. CASE n \in net
        BY <1>0, <1>5, <3>1
      <3>2. CASE n \in R
        <4>1. Pending(m, sv[n.from])
          BY <1>0, <1>1, <1>5, <3>2 DEF LiveAppend
        <4> QED BY <1>1, <1>5, <3>2, <4>1 DEF Pending, LiveAppend
      <3> QED BY <1>3, <1>5, <3>1, <3>2 DEF LiveAppend
    <2>2. Steady(n.from) /\ n.from \in Server
      BY <1>2, <1>5 DEF LiveAppend
    <2>3. /\ sv[n.from].log \in Seq(Entry) /\ sv'[n.from].log \in Seq(Entry)
          /\ sv[n.from].sent \in [prev : Nat, num : Nat]
      BY <1>0, <2>2 DEF ServerRec
    <2>4. \A a, b, c : a \in Nat /\ b \in Seq(Entry) /\ c \in Seq(Entry)
            /\ a <= Len(b) /\ Len(b) <= Len(c) => a <= Len(c)
      BY SMTT(100)
    <2>5. sv[n.from].sent.prev + sv[n.from].sent.num \in Nat
      BY SMTT(100), <2>3
    <2>6. sv'[n.from].sent.prev + sv'[n.from].sent.num <= Len(sv'[n.from].log)
      BY <2>1, <2>2, <2>3, <2>4, <2>5 DEF Pending, Steady
    <2> QED BY <2>1, <2>2, <2>6 DEF Pending, Steady
  <1>6. ASSUME NEW k \in net', NEW n \in net', LiveAppend(k), LiveAppend(n), k.from = n.from
        PROVE  k = n
    BY <1>0, <1>1, <1>3, <1>6 DEF LiveAppend
  <1> QED BY <1>2, <1>b, <1>4, <1>5, <1>6 DEF BaseInv, RaftTypeOK, CallsOK

LEMMA NetFrom ==
  ASSUME BaseInv, NEW G, NEW R, NEW t, NetStep(G, R), Replies(G, R, t)
  PROVE  \A n \in net' : n.from \in Server
  <1>1. \A k \in Message : k.from \in Server
    BY DEF Message, VoteRequest, AppendRequest, Response
  <1>2. net \subseteq Message
    BY DEF BaseInv, RaftTypeOK
  <1>3. ASSUME NEW k \in R PROVE k.from \in Server
    <2>1. PICK m \in G : Answers(m, R, t)
      BY <1>3 DEF Replies
    <2>2. PICK ok \in BOOLEAN : R = Reply(m, t, ok)
      BY <2>1 DEF Answers
    <2>3. m \in Message /\ t \in Nat
      BY <1>2, <2>1 DEF Answers
    <2> QED BY <1>1, <2>2, <2>3, ReplyIs
  <1>4. \A k \in net : k.req => Late(k).from \in Server
    BY <1>1, <1>2, LateIs
  <1> QED BY <1>1, <1>2, <1>3, <1>4 DEF NetStep

-----------------------------------------------------------------------------
\* A server that resigns: no calls of its own are left.
Quiet(s, G, R) == NetStep(G, R) /\ \A n \in net' : n.live => n.from # s

Retires(s, x, G, R) ==
  /\ s \in Server /\ x \in ServerRec /\ sv' = [sv EXCEPT ![s] = x]
  /\ x.st # "leader" /\ ~(x.st = "candidate" /\ x.votes > 0)
  /\ s \notin x.known /\ sv[s].term <= x.term
  /\ Quiet(s, G, R)

LEMMA QuietBase ==
  ASSUME BaseInv, NEW s \in Server, NEW x \in ServerRec, sv' = [sv EXCEPT ![s] = x],
         s \notin x.known, Indexed(x), won' \subseteq Nat \X Server,
         NEW G, NEW R, NEW t, Quiet(s, G, R), Replies(G, R, t)
  PROVE  BaseInv'
  <1>1. sv \in [Server -> ServerRec] /\ \A q \in Server : q \notin sv[q].known /\ Indexed(sv[q])
    BY DEF BaseInv, RaftTypeOK, CallsOK
  <1>2. \A q \in Server : sv'[q] = IF q = s THEN x ELSE sv[q]
    BY <1>1
  <1>3. sv' \in [Server -> ServerRec]
    BY <1>1
  <1>4. \A q \in Server : q \notin sv'[q].known /\ Indexed(sv'[q])
    BY <1>1, <1>2 DEF Indexed
  <1>5. ASSUME NEW n \in net', n.live PROVE Steady(n.from)
    <2>1. n.from # s /\ n.from \in Server
      BY <1>5, NetFrom DEF Quiet
    <2>2. sv'[n.from] = sv[n.from]
      BY <1>2, <2>1
    <2>3. sv[n.from].log \in Seq(Entry)
      BY <1>1, <2>1 DEF ServerRec
    <2>4. Len(sv[n.from].log) <= Len(sv'[n.from].log)
      BY SMTT(100), <2>2, <2>3
    <2> QED BY <2>2, <2>4 DEF Steady, Campaigning
  <1> QED BY <1>3, <1>4, <1>5, BaseKept DEF Quiet

LEMMA RetireBase ==
  ASSUME BaseInv, NEW s, NEW x, NEW G, NEW R, NEW t, Retires(s, x, G, R), Replies(G, R, t),
         won' \subseteq Nat \X Server
  PROVE  BaseInv'
  BY QuietBase DEF Retires, Indexed

\* A step that leaves every server's calls, term, vote and log alone.
Idles(G, R) ==
  /\ sv' \in [Server -> ServerRec] /\ won' = won /\ NetStep(G, R)
  /\ \A q \in Server :
       /\ Steady(q) /\ q \notin sv'[q].known /\ Indexed(sv'[q])
       /\ sv'[q].votes = sv[q].votes /\ sv'[q].voted = sv[q].voted
       /\ sv'[q].log = sv[q].log /\ sv'[q].match = sv[q].match

LEMMA IdleBase ==
  ASSUME BaseInv, NEW G, NEW R, NEW t, Idles(G, R), Replies(G, R, t)
  PROVE  BaseInv'
  <1>1. won' \subseteq Nat \X Server
    BY DEF Idles, BaseInv, RaftTypeOK
  <1>2. \A n \in net' : n.from \in Server
    BY NetFrom DEF Idles
  <1> QED BY <1>1, <1>2, BaseKept DEF Idles

-----------------------------------------------------------------------------
\* What is left of the calls of a server that leaves its state.
LEMMA AlreadyQuiet ==
  ASSUME BaseInv, NEW s, ~Campaigning(s), sv[s].st # "leader"
  PROVE  \A n \in net : n.live => n.from # s
  <1>1. \A n \in Message : n.kind \in {"vote", "append"}
    BY DEF Message, VoteRequest, AppendRequest, Response, BothCalls
  <1> QED BY <1>1 DEF BaseInv, RaftTypeOK, CallsOK, LiveVote, LiveAppend, Pending

LEMMA CancelQuiet ==
  ASSUME BaseInv, NEW s, NEW G, NEW R, \A n \in R : n.from # s,
         NEW rest \in Cancelled(net \ G, BothCalls, s), net' = rest \cup R
  PROVE  Quiet(s, G, R)
  <1>1. \A n \in Message : n.kind \in BothCalls
    BY DEF Message, VoteRequest, AppendRequest, Response, BothCalls
  <1>2. net \ G \in SUBSET Message
    BY DEF BaseInv, RaftTypeOK
  <1>3. /\ \A n \in rest : \/ n \in net \ G
                           \/ \E k \in (net \ G) \ rest : k.live /\ k.req /\ n = Late(k) /\ k.from = s
        /\ \A n \in rest : n.live => ~(n.from = s /\ n.kind \in BothCalls)
    <2> DEFINE ms == net \ G
    <2>1. ms \in SUBSET Message /\ rest \in Cancelled(ms, BothCalls, s)
      BY <1>2
    <2> HIDE DEF ms
    <2>2. /\ \A n \in rest : n \in ms \/ \E k \in ms \ rest : /\ k.live /\ k.req /\ n = Late(k)
                                                              /\ k.from = s
          /\ \A n \in rest : n.live => ~(n.from = s /\ n.kind \in BothCalls)
      BY SMTT(100), <2>1, CancelLeaves
    <2> QED BY <2>2 DEF ms
  <1>4. \A k \in net : k.req => Late(k).kind \in BothCalls
    BY <1>1, LateIs DEF BaseInv, RaftTypeOK
  <1>5. NetStep(G, R)
    BY <1>3 DEF NetStep
  <1> QED BY <1>1, <1>2, <1>3, <1>4, <1>5 DEF Quiet

LEMMA CancelByQuiet ==
  ASSUME BaseInv, NEW s, NEW G, NEW R, \A n \in R : n.from # s,
         NEW r, r.st = sv[s].st,
         NEW rest \in CancelledBy(net \ G, r, s, "follower"), net' = rest \cup R
  PROVE  Quiet(s, G, R)
  <1>1. CASE r.st = "follower"
    <2>1. rest = net \ G
      BY <1>1 DEF CancelledBy
    <2>2. \A n \in net : n.live => n.from # s
      BY <1>1, AlreadyQuiet DEF Campaigning
    <2> QED BY <2>1, <2>2 DEF Quiet, NetStep
  <1>2. CASE r.st # "follower"
    BY <1>2, CancelQuiet DEF CancelledBy
  <1> QED BY <1>1, <1>2

LEMMA StaysQuiet ==
  ASSUME BaseInv, NEW s, ~Campaigning(s), sv[s].st # "leader", net' = net
  PROVE  Quiet(s, {}, {})
  BY AlreadyQuiet DEF Quiet, NetStep

\* What a failed handler leaves: the state it had stored before the write that failed.
Resigned(x, r) ==
  /\ x \in ServerRec /\ x.st \in {"follower", "down"}
  /\ x.term = r.term /\ x.voted = r.voted /\ x.log = r.log /\ x.known \subseteq r.known

LEMMA ResignedIs ==
  ASSUME NEW r \in ServerRec
  PROVE  Resigned(Switched(r, "follower"), r) /\ Resigned(Dead(r), r)
  BY SwitchedIs, DeadIs DEF Resigned, States

LEMMA FailedIs ==
  ASSUME NEW s, NEW path \in Seq(ServerRec), FailsIn(s, path)
  PROVE  \E k \in 1..Len(path) - 1 : \E x :
           /\ path[k] \in ServerRec /\ Resigned(x, path[k]) /\ sv' = [sv EXCEPT ![s] = x]
  <1>1. \A k \in 1..Len(path) - 1 : path[k] \in ServerRec
    BY SMTT(100)
  <1>2. PICK k \in 1..Len(path) - 1 :
          \/ sv' = [sv EXCEPT ![s] = Switched(path[k], "follower")]
          \/ sv' = [sv EXCEPT ![s] = Dead(path[k])]
    BY DEF FailsIn
  <1> QED BY <1>1, <1>2, ResignedIs

-----------------------------------------------------------------------------
\* What a step comes to.  A server that resigns, with or without having won.
VoteKept(s, x) == x.term = sv[s].term => x.voted \in {sv[s].voted, s}

Wins(s) ==
  /\ Campaigning(s) /\ sv[s].votes >= QuorumSize
  /\ won' = won \cup {<<sv[s].term, s>>}

Resigns(s, x, G) ==
  /\ Retires(s, x, G, {}) /\ VoteKept(s, x) /\ x.log = sv[s].log
  /\ won' = won \/ (Wins(s) /\ x.term = sv[s].term)

\* A server that fails in a handler resigns, whatever it has done to its term, if its vote
\* in the term it had is as it was or its own.
Stored(s, q) ==
  /\ q \in ServerRec /\ s \notin q.known /\ sv[s].term <= q.term /\ VoteKept(s, q)
  /\ q.log = sv[s].log

LEMMA FailureResigns ==
  ASSUME NEW s \in Server, NEW path \in Seq(ServerRec), FailsIn(s, path),
         \A k \in 1..Len(path) - 1 : Stored(s, path[k]),
         NEW G, Quiet(s, G, {}),
         won' = won \/ (Wins(s) /\ \A k \in 1..Len(path) - 1 : path[k].term = sv[s].term)
  PROVE  \E x : Resigns(s, x, G)
  <1>0. \E k \in 1..Len(path) - 1 : \E x :
          /\ path[k] \in ServerRec /\ Resigned(x, path[k]) /\ sv' = [sv EXCEPT ![s] = x]
    BY FailedIs
  <1>1. PICK k \in 1..Len(path) - 1, x \in ServerRec :
           path[k] \in ServerRec /\ Resigned(x, path[k]) /\ sv' = [sv EXCEPT ![s] = x]
    BY <1>0 DEF Resigned
  <1>2. Stored(s, path[k])
    BY <1>1
  <1>3. Retires(s, x, G, {})
    BY <1>1, <1>2 DEF Retires, Resigned, Stored
  <1>4. VoteKept(s, x) /\ x.log = sv[s].log
    BY <1>1, <1>2 DEF Stored, Resigned, VoteKept
  <1> QED BY <1>1, <1>3, <1>4 DEF Resigns, Resigned

LEMMA SelfStored ==
  ASSUME BaseInv, NEW s \in Server
  PROVE  Stored(s, sv[s]) /\ sv[s] \in ServerRec
  <1>1. sv[s] \in ServerRec /\ s \notin sv[s].known
    BY DEF BaseInv, RaftTypeOK
  <1>2. sv[s].term \in Nat
    BY <1>1 DEF ServerRec
  <1>3. sv[s].term <= sv[s].term
    BY SMTT(100), <1>2
  <1> QED BY <1>1, <1>3 DEF Stored, VoteKept

LEMMA FollowerTimesOut ==
  ASSUME BaseInv, NEW s \in Server, updateFollower(s)
  PROVE  \E x : Resigns(s, x, {})
  <1>1. Stored(s, sv[s]) /\ sv[s] \in ServerRec
    BY SelfStored
  <1> DEFINE x == Switched(sv[s], "candidate")
  <1>2. /\ x \in ServerRec /\ x.st = "candidate" /\ x.votes = 0 /\ x.term = sv[s].term
        /\ x.voted = sv[s].voted /\ x.log = sv[s].log /\ x.known = sv[s].known
    BY <1>1, SwitchedIs DEF updateFollower, States
  <1>3. sv' = [sv EXCEPT ![s] = x] /\ net' = net /\ won' = won /\ sv[s].st = "follower"
    BY DEF updateFollower
  <1>4. Quiet(s, {}, {})
    BY <1>3, StaysQuiet DEF Campaigning
  <1> HIDE DEF x
  <1>5. ~(0 > 0)
    BY SMTT(100)
  <1> QED BY <1>1, <1>2, <1>3, <1>4, <1>5 DEF Resigns, Retires, VoteKept, Stored

LEMMA CrashResigns ==
  ASSUME BaseInv, NEW s \in Server, Crash(s)
  PROVE  \E x : Resigns(s, x, {})
  <1>1. Stored(s, sv[s]) /\ sv[s] \in ServerRec
    BY SelfStored
  <1>2. Resigned(Dead(sv[s]), sv[s])
    BY <1>1, ResignedIs
  <1>3. /\ net' \in Cancelled(net \ {}, BothCalls, s) /\ won' = won
        /\ sv' = [sv EXCEPT ![s] = Dead(sv[s])]
    BY DEF Crash
  <1>4. Quiet(s, {}, {})
    BY <1>3, CancelQuiet
  <1> QED BY <1>1, <1>2, <1>3, <1>4 DEF Resigns, Retires, Resigned, Stored, VoteKept

LEMMA RestartResigns ==
  ASSUME BaseInv, NEW s \in Server, Restart(s)
  PROVE  \E x : Resigns(s, x, {})
  <1>1. Stored(s, sv[s]) /\ sv[s] \in ServerRec
    BY SelfStored
  <1> DEFINE x == [sv[s] EXCEPT !.st = "follower"]
  <1>2. x \in ServerRec
    BY <1>1 DEF ServerRec, States
  <1>3. /\ x.st = "follower" /\ x.term = sv[s].term /\ x.voted = sv[s].voted
        /\ x.log = sv[s].log /\ x.known = sv[s].known
    BY <1>1 DEF ServerRec
  <1>4. sv' = [sv EXCEPT ![s] = x] /\ net' = net /\ won' = won /\ sv[s].st = "down"
    BY DEF Restart
  <1>5. Quiet(s, {}, {})
    BY <1>4, StaysQuiet DEF Campaigning
  <1> HIDE DEF x
  <1> QED BY <1>1, <1>2, <1>3, <1>4, <1>5 DEF Resigns, Retires, VoteKept, Stored

\* A candidate that has voted for itself in a new term and made its calls.
Campaigns(s, x) ==
  /\ s \in Server /\ x \in ServerRec /\ sv' = [sv EXCEPT ![s] = x] /\ won' = won
  /\ sv[s].st = "candidate" /\ ~Campaigning(s)
  /\ x.st = "candidate" /\ x.votes = 1 /\ x.term = sv[s].term + 1 /\ x.voted = s
  /\ x.log = sv[s].log /\ x.known = sv[s].known
  /\ \A n \in net' : \/ n \in net
                     \/ /\ n \in VoteRequest /\ n.live /\ n.from = s /\ n.to \in x.known
                        /\ n.term = x.term
  /\ \A k, n \in net' : /\ k.live /\ n.live /\ k.from = s /\ n.from = s /\ k.to = n.to
                        => k = n

LEMMA CampaignStep ==
  ASSUME BaseInv, NEW s \in Server, StartCampaign(s)
  PROVE  \/ \E x : Resigns(s, x, {})
         \/ \E x : Campaigns(s, x)
  <1> DEFINE r == sv[s]
             voted == [r EXCEPT !.voted = s]
             raised == [voted EXCEPT !.term = @ + 1]
             x == [raised EXCEPT !.votes = 1]
  <1>1. /\ Stored(s, r) /\ r \in ServerRec /\ s \notin r.known
        /\ r.st = "candidate" /\ r.votes = 0 /\ won' = won
    BY SelfStored DEF StartCampaign, BaseInv, RaftTypeOK
  <1>2. ~Campaigning(s) /\ r.term + 1 \in Nat /\ r.term <= r.term + 1 /\ r.term # r.term + 1
    <2>1. ~(0 > 0) /\ \A n \in Nat : n + 1 \in Nat /\ n <= n + 1 /\ n # n + 1
      BY SMTT(100)
    <2>2. r.term \in Nat
      BY <1>1 DEF ServerRec
    <2> QED BY <1>1, <2>1, <2>2 DEF Campaigning
  <1>3. voted \in ServerRec
    BY <1>1 DEF ServerRec
  <1>4. /\ voted.term = r.term /\ voted.voted = s /\ voted.log = r.log /\ voted.known = r.known
        /\ voted.st = r.st
    BY <1>1 DEF ServerRec
  <1>5. raised = [voted EXCEPT !.term = r.term + 1]
    BY <1>3, <1>4 DEF ServerRec
  <1>6. raised \in ServerRec
    BY <1>2, <1>3, <1>5 DEF ServerRec
  <1>7. /\ raised.term = r.term + 1 /\ raised.voted = s /\ raised.log = r.log
        /\ raised.known = r.known /\ raised.st = r.st
    BY <1>3, <1>4, <1>5 DEF ServerRec
  <1>8. x \in ServerRec
    BY <1>6 DEF ServerRec
  <1>9. /\ x.term = r.term + 1 /\ x.voted = s /\ x.log = r.log /\ x.known = r.known
        /\ x.st = r.st /\ x.votes = 1
    BY <1>6, <1>7 DEF ServerRec
  <1>10. \/ /\ sv' = [sv EXCEPT ![s] = x]
            /\ net' = Sent(net, RequestVotes(raised, s))
         \/ FailsIn(s, <<r, voted, raised>>) /\ net' = net
    BY DEF StartCampaign
  <1> HIDE DEF x, raised, voted
  <1>11. CASE FailsIn(s, <<r, voted, raised>>) /\ net' = net
    <2> DEFINE path == <<r, voted, raised>>
    <2>1. path \in Seq(ServerRec)
      BY SMTT(100), <1>1, <1>3, <1>6
    <2>2. Stored(s, voted)
      BY <1>1, <1>3, <1>4 DEF Stored, VoteKept
    <2>3. \A k \in 1..Len(path) - 1 : path[k] \in {r, voted}
      BY SMTT(100)
    <2>4. Quiet(s, {}, {})
      BY <1>1, <1>2, <1>11, StaysQuiet
    <2>5. FailsIn(s, path)
      BY <1>11
    <2> HIDE DEF path
    <2>6. \A k \in 1..Len(path) - 1 : Stored(s, path[k])
      BY <1>1, <2>2, <2>3
    <2> QED BY <1>1, <2>1, <2>4, <2>5, <2>6, FailureResigns
  <1>12. CASE sv' = [sv EXCEPT ![s] = x] /\ net' = Sent(net, RequestVotes(raised, s))
    <2>1. ASSUME NEW n \in RequestVotes(raised, s)
          PROVE  /\ n \in VoteRequest /\ n.live /\ n.from = s /\ n.to \in x.known /\ n.term = x.term
                 /\ \A k \in RequestVotes(raised, s) : k.to = n.to => k = n
      <3> DEFINE i == LastIndex(raised)
                 l == EntryAt(raised, LastIndex(raised)).term
                 req(p) == [kind |-> "vote", req |-> TRUE, live |-> TRUE, from |-> s, to |-> p,
                            term |-> raised.term, index |-> i, last |-> l]
      <3>1. i \in Nat /\ l \in Nat
        <4>1. raised.log \in Seq(Entry)
          BY <1>6 DEF ServerRec
        <4>2. i \in Nat /\ (i # 0 => raised.log[i] \in Entry)
          BY SMTT(100), <4>1 DEF LastIndex
        <4> HIDE DEF i
        <4>3. EntryAt(raised, i) = Zero \/ EntryAt(raised, i) \in Entry
          BY <4>2 DEF EntryAt
        <4>4. Zero.term \in Nat
          BY SMTT(100) DEF Zero
        <4>5. EntryAt(raised, i).term \in Nat
          BY <4>3, <4>4 DEF Entry
        <4> QED BY <4>2, <4>5 DEF i
      <3>2. RequestVotes(raised, s) = {req(p) : p \in raised.known}
        BY DEF RequestVotes
      <3> HIDE DEF i, l
      <3>3. PICK p \in raised.known : n = req(p)
        BY <2>1, <3>2
      <3>4. p \in Server /\ raised.term \in Nat
        BY <1>6 DEF ServerRec
      <3>5. n \in VoteRequest
        BY <3>1, <3>3, <3>4 DEF VoteRequest
      <3>6. n.live /\ n.from = s /\ n.to = p /\ n.term = raised.term
        BY <3>3
      <3>7. ASSUME NEW k \in RequestVotes(raised, s), k.to = n.to PROVE k = n
        <4>1. PICK q \in raised.known : k = req(q)
          BY <3>2
        <4>2. k.to = q
          BY <4>1
        <4> QED BY <3>3, <3>6, <3>7, <4>1, <4>2
      <3> QED BY <1>7, <1>9, <3>5, <3>6, <3>7
    <2>2. \A n \in net' : n \in net \/ n \in RequestVotes(raised, s)
      BY <1>12 DEF Sent
    <2>3. \A n \in net : n.live => n.from # s
      BY <1>1, <1>2, AlreadyQuiet
    <2>4. \A n \in net' : \/ n \in net
                          \/ /\ n \in VoteRequest /\ n.live /\ n.from = s /\ n.to \in x.known
                             /\ n.term = x.term
      BY <2>1, <2>2
    <2>5. ASSUME NEW k \in net', NEW n \in net', k.live, n.live, k.from = s, n.from = s, k.to = n.to
          PROVE  k = n
      BY <2>1, <2>2, <2>3, <2>5
    <2>6. Campaigns(s, x)
      BY <1>1, <1>2, <1>8, <1>9, <1>12, <2>4, <2>5 DEF Campaigns
    <2> QED BY <2>6
  <1> QED BY <1>10, <1>11, <1>12

\* A log with an entry more, for a node that has none.
Grown(r, l) ==
  \E v \in Server \cup Client : /\ v \notin TakenIn(r)
                               /\ l = Append(r.log, [term |-> r.term, node |-> v])

LEMMA AppendedIs ==
  ASSUME NEW r \in ServerRec, NEW v \in Server \cup Client
  PROVE  LET x == Appended(r, [term |-> r.term, node |-> v])
         IN /\ x \in ServerRec /\ x.log = Append(r.log, [term |-> r.term, node |-> v])
            /\ Len(x.log) = Len(r.log) + 1
            /\ x.st = r.st /\ x.term = r.term /\ x.voted = r.voted /\ x.known = r.known
            /\ x.votes = r.votes /\ x.sent = r.sent /\ x.next = r.next /\ x.match = r.match
  <1> DEFINE e == [term |-> r.term, node |-> v]
             l == Append(r.log, e)
  <1>1. e \in Entry /\ r.log \in Seq(Entry)
    BY DEF ServerRec, Entry
  <1> HIDE DEF e
  <1>2. l \in Seq(Entry) /\ Len(l) = Len(r.log) + 1
    BY SMTT(100), <1>1
  <1>3. Appended(r, e) = [r EXCEPT !.log = l]
    BY DEF Appended, ServerRec
  <1> HIDE DEF l
  <1>4. [r EXCEPT !.log = l] \in ServerRec
    BY <1>2 DEF ServerRec
  <1>5. [r EXCEPT !.log = l].log = l
    BY DEF ServerRec
  <1>6. /\ [r EXCEPT !.log = l].st = r.st /\ [r EXCEPT !.log = l].term = r.term
        /\ [r EXCEPT !.log = l].voted = r.voted /\ [r EXCEPT !.log = l].known = r.known
        /\ [r EXCEPT !.log = l].votes = r.votes /\ [r EXCEPT !.log = l].sent = r.sent
        /\ [r EXCEPT !.log = l].next = r.next /\ [r EXCEPT !.log = l].match = r.match
    BY DEF ServerRec
  <1> QED BY <1>2, <1>3, <1>4, <1>5, <1>6 DEF e, l

\* A candidate that has won and leads.
Leads(s, x) ==
  /\ s \in Server /\ x \in ServerRec /\ sv' = [sv EXCEPT ![s] = x] /\ Wins(s)
  /\ x.st = "leader" /\ x.term = sv[s].term /\ x.voted = sv[s].voted
  /\ x.log = sv[s].log \/ Grown(sv[s], x.log)
  /\ x.known = sv[s].known /\ x.match = [p \in Server |-> 0]
  /\ \A p \in Server : x.next[p] = Len(sv[s].log) + 1
  /\ Quiet(s, {}, {})

LEMMA FinishStep ==
  ASSUME BaseInv, NEW s \in Server, FinishCampaign(s)
  PROVE  \/ \E x : Resigns(s, x, {})
         \/ \E x : Leads(s, x)
  <1> DEFINE r == sv[s]
             lead == Switched(r, "leader")
             path == OwnEntry(lead, s)
  <1>1. /\ Stored(s, r) /\ r \in ServerRec /\ s \notin r.known
        /\ r.st = "candidate" /\ r.votes > 0 /\ Campaigning(s)
    BY SelfStored DEF FinishCampaign, BaseInv, RaftTypeOK, Campaigning
  <1>2. Quiet(s, {}, {})
    <2>1. net' \in Cancelled(net \ {}, BothCalls, s)
      BY DEF FinishCampaign
    <2> QED BY <2>1, CancelQuiet
  <1>3. CASE r.votes >= QuorumSize
    <2>1. /\ won' = won \cup {<<r.term, s>>}
          /\ sv' = [sv EXCEPT ![s] = Final(path)] \/ FailsIn(s, path)
      BY <1>3 DEF FinishCampaign
    <2>2. Wins(s)
      BY <1>1, <1>3, <2>1 DEF Wins
    <2>3. /\ lead \in ServerRec /\ lead.st = "leader" /\ lead.term = r.term
          /\ lead.voted = r.voted /\ lead.log = r.log /\ lead.known = r.known
          /\ lead.match = [p \in Server |-> 0] /\ lead.next = [p \in Server |-> Len(r.log) + 1]
      BY <1>1, SwitchedIs DEF States
    <2> DEFINE e == [term |-> r.term, node |-> s]
               own == Appended(lead, e)
    <2>4. path = IF s \in TakenIn(lead) THEN <<lead>> ELSE <<lead, own>>
      BY <2>3 DEF OwnEntry
    <2>5. /\ own \in ServerRec /\ own.st = "leader" /\ own.term = r.term
          /\ own.voted = r.voted /\ own.log = Append(r.log, e) /\ own.known = r.known
          /\ own.match = lead.match /\ own.next = lead.next
      <3>1. own = Appended(lead, [term |-> lead.term, node |-> s])
        BY <2>3
      <3> HIDE DEF own, lead
      <3>2. /\ own \in ServerRec /\ own.st = lead.st /\ own.term = lead.term
            /\ own.voted = lead.voted /\ own.log = Append(lead.log, [term |-> lead.term, node |-> s])
            /\ own.known = lead.known /\ own.match = lead.match /\ own.next = lead.next
        BY <2>3, <3>1, AppendedIs
      <3> QED BY <2>3, <3>2
    <2>6. TakenIn(lead) = TakenIn(r)
      BY <2>3 DEF TakenIn, LastIndex
    <2> HIDE DEF path, own, lead
    <2>7. CASE sv' = [sv EXCEPT ![s] = Final(path)]
      <3>1. Final(path) = IF s \in TakenIn(r) THEN lead ELSE own
        BY SMTT(100), <2>4, <2>6 DEF Final
      <3>2. \A p \in Server : lead.next[p] = Len(r.log) + 1
        BY <2>3
      <3>3. s \notin TakenIn(r) => Grown(r, own.log)
        BY <2>5 DEF Grown
      <3>4. s \in TakenIn(r) => Leads(s, lead)
        BY <1>2, <2>2, <2>3, <2>7, <3>1, <3>2 DEF Leads
      <3>5. s \notin TakenIn(r) => Leads(s, own)
        BY <1>2, <2>2, <2>3, <2>5, <2>7, <3>1, <3>2, <3>3 DEF Leads
      <3> QED BY <3>4, <3>5
    <2>8. CASE FailsIn(s, path)
      <3>1. path \in Seq(ServerRec) /\ \A k \in 1..Len(path) - 1 : path[k] = lead
        BY SMTT(100), <2>3, <2>4, <2>5
      <3>2. Stored(s, lead)
        BY <1>1, <2>3 DEF Stored, VoteKept
      <3> QED BY <1>2, <2>2, <2>3, <2>8, <3>1, <3>2, FailureResigns
    <2> QED BY <2>1, <2>7, <2>8
  <1>4. CASE ~(r.votes >= QuorumSize)
    <2>1. sv' = [sv EXCEPT ![s] = Switched(r, "follower")] /\ won' = won
      BY <1>4 DEF FinishCampaign
    <2>2. Resigned(Switched(r, "follower"), r)
      BY <1>1, ResignedIs
    <2> QED BY <1>1, <1>2, <2>1, <2>2 DEF Resigns, Retires, Resigned, Stored, VoteKept
  <1> QED BY <1>3, <1>4

\* A leader that stores an entry more.
Allocates(s, x) ==
  /\ s \in Server /\ x \in ServerRec /\ sv' = [sv EXCEPT ![s] = x] /\ won' = won /\ net' = net
  /\ sv[s].st = "leader" /\ Grown(sv[s], x.log) /\ Len(x.log) = Len(sv[s].log) + 1
  /\ x.st = "leader" /\ x.term = sv[s].term /\ x.voted = sv[s].voted /\ x.known = sv[s].known
  /\ x.votes = sv[s].votes /\ x.sent = sv[s].sent /\ x.next = sv[s].next
  /\ x.match = sv[s].match

LEMMA AllocateStep ==
  ASSUME BaseInv, NEW s \in Server, NEW c \in Client, AllocateNewNode(s, c)
  PROVE  \/ \E x : Resigns(s, x, {})
         \/ \E x : Allocates(s, x)
  <1> DEFINE r == sv[s]
             x == Appended(r, [term |-> r.term, node |-> c])
  <1>1. /\ Stored(s, r) /\ r \in ServerRec /\ r.st = "leader" /\ c \notin TakenIn(r)
        /\ won' = won
    BY SelfStored DEF AllocateNewNode
  <1>2. \/ sv' = [sv EXCEPT ![s] = x] /\ net' = net
        \/ FailsIn(s, <<r, r>>) /\ net' \in Cancelled(net \ {}, BothCalls, s)
    BY DEF AllocateNewNode
  <1>3. CASE sv' = [sv EXCEPT ![s] = x] /\ net' = net
    <2>1. /\ x \in ServerRec /\ x.log = Append(r.log, [term |-> r.term, node |-> c])
          /\ Len(x.log) = Len(r.log) + 1
          /\ x.st = r.st /\ x.term = r.term /\ x.voted = r.voted /\ x.known = r.known
          /\ x.votes = r.votes /\ x.sent = r.sent /\ x.next = r.next /\ x.match = r.match
      BY <1>1, AppendedIs
    <2> HIDE DEF x
    <2>2. Grown(r, x.log)
      BY <1>1, <2>1 DEF Grown
    <2> QED BY <1>1, <1>3, <2>1, <2>2 DEF Allocates
  <1>4. CASE FailsIn(s, <<r, r>>) /\ net' \in Cancelled(net \ {}, BothCalls, s)
    <2>1. /\ <<r, r>> \in Seq(ServerRec)
          /\ \A k \in 1..Len(<<r, r>>) - 1 : <<r, r>>[k] = r
      BY SMTT(100), <1>1
    <2>2. Quiet(s, {}, {})
      BY <1>4, CancelQuiet
    <2> QED BY <1>1, <1>4, <2>1, <2>2, FailureResigns
  <1> QED BY <1>2, <1>3, <1>4

\* A newer term in an answer: the caller resigns.
LEMMA NewerTermStep ==
  ASSUME BaseInv, NEW m \in net, NEW s \in Server, m.term > sv[s].term,
         NewerTermInResponse(m, s), won' = won
  PROVE  \E x : Resigns(s, x, {m})
  <1> DEFINE r == [sv[s] EXCEPT !.sent = Nothing]
             raised == [r EXCEPT !.term = m.term]
  <1>1. Stored(s, sv[s]) /\ sv[s] \in ServerRec
    BY SelfStored
  <1>2. m.term \in Nat /\ Nothing \in [prev : Nat, num : Nat]
    <2>1. m \in Message /\ 0 \in Nat
      BY SMTT(100) DEF BaseInv, RaftTypeOK
    <2> QED BY <2>1 DEF Message, VoteRequest, AppendRequest, Response, Nothing
  <1>3. r \in ServerRec
    BY <1>1, <1>2 DEF ServerRec
  <1>4. /\ r.term = sv[s].term /\ r.voted = sv[s].voted /\ r.log = sv[s].log
        /\ r.known = sv[s].known
    BY <1>1 DEF ServerRec
  <1>5. /\ sv' = [sv EXCEPT ![s] = Switched(raised, "follower")] \/ FailsIn(s, <<r, raised>>)
        /\ net' \in Cancelled(net \ {m}, BothCalls, s)
    BY DEF NewerTermInResponse
  <1>6. Quiet(s, {m}, {})
    BY <1>5, CancelQuiet
  <1> HIDE DEF r
  <1>7. raised \in ServerRec
    BY <1>2, <1>3 DEF ServerRec
  <1>8. raised.term = m.term /\ raised.voted = r.voted /\ raised.log = r.log /\ raised.known = r.known
    BY <1>3 DEF ServerRec
  <1> HIDE DEF raised
  <1>9. CASE sv' = [sv EXCEPT ![s] = Switched(raised, "follower")]
    <2>1. Resigned(Switched(raised, "follower"), raised)
      BY <1>7, ResignedIs
    <2>2. sv[s].term \in Nat
      BY <1>1 DEF ServerRec
    <2>3. sv[s].term <= m.term /\ sv[s].term # m.term
      BY SMTT(100), <1>2, <2>2
    <2> QED BY <1>1, <1>4, <1>6, <1>8, <1>9, <2>1, <2>3
            DEF Resigns, Retires, Resigned, Stored, VoteKept
  <1>10. CASE FailsIn(s, <<r, raised>>)
    <2>1. /\ <<r, raised>> \in Seq(ServerRec)
          /\ \A k \in 1..Len(<<r, raised>>) - 1 : <<r, raised>>[k] = r
      BY SMTT(100), <1>3, <1>7
    <2>2. Stored(s, r)
      BY <1>1, <1>3, <1>4 DEF Stored, VoteKept
    <2> QED BY <1>6, <1>10, <2>1, <2>2, FailureResigns
  <1> QED BY <1>5, <1>9, <1>10

-----------------------------------------------------------------------------
\* Steps that leave the servers' calls, terms, votes and logs alone.
LEMMA SameIsSteady ==
  ASSUME BaseInv, NEW q \in Server, sv'[q] = sv[q]
  PROVE  /\ Steady(q) /\ q \notin sv'[q].known /\ Indexed(sv'[q])
         /\ sv'[q].votes = sv[q].votes /\ sv'[q].voted = sv[q].voted
         /\ sv'[q].log = sv[q].log /\ sv'[q].match = sv[q].match
  <1>1. sv[q] \in ServerRec /\ q \notin sv[q].known /\ Indexed(sv[q])
    BY DEF BaseInv, RaftTypeOK, CallsOK
  <1>2. sv[q].log \in Seq(Entry)
    BY <1>1 DEF ServerRec
  <1>3. Len(sv[q].log) <= Len(sv[q].log)
    BY SMTT(100), <1>2
  <1> QED BY <1>1, <1>3 DEF Steady, Campaigning

LEMMA SameIdles ==
  ASSUME BaseInv, sv' = sv, won' = won, NEW G, NEW R, NetStep(G, R)
  PROVE  Idles(G, R)
  <1>1. sv \in [Server -> ServerRec]
    BY DEF BaseInv, RaftTypeOK
  <1> QED BY <1>1, SameIsSteady DEF Idles

\* A server that adds others to those it knows.
AddsTo(x, r, ps) ==
  /\ x.st = r.st /\ x.term = r.term /\ x.sent = r.sent /\ x.votes = r.votes
  /\ x.voted = r.voted /\ x.log = r.log /\ x.match = r.match
  /\ x.known = addServers(r, ps).known /\ x.next = addServers(r, ps).next

LEMMA AddedIsSteady ==
  ASSUME BaseInv, NEW q \in Server, NEW ps \in SUBSET Server, q \notin ps,
         \A p \in ps : p \notin sv[q].known, AddsTo(sv'[q], sv[q], ps)
  PROVE  /\ Steady(q) /\ q \notin sv'[q].known /\ Indexed(sv'[q])
         /\ sv'[q].votes = sv[q].votes /\ sv'[q].voted = sv[q].voted
         /\ sv'[q].log = sv[q].log /\ sv'[q].match = sv[q].match
  <1>1. sv[q] \in ServerRec /\ q \notin sv[q].known /\ Indexed(sv[q])
    BY DEF BaseInv, RaftTypeOK, CallsOK
  <1>2. sv[q].log \in Seq(Entry) /\ sv[q].next \in [Server -> Int] /\ sv[q].known \subseteq Server
    BY <1>1 DEF ServerRec
  <1>3. Len(sv[q].log) <= Len(sv[q].log) /\ Len(sv[q].log) + 1 \in 1..Len(sv[q].log) + 1
    BY SMTT(100), <1>2
  <1>4. /\ addServers(sv[q], ps).known = sv[q].known \cup ps
        /\ \A p \in Server : addServers(sv[q], ps).next[p] =
             IF p \in ps /\ sv[q].st = "leader" THEN Len(sv[q].log) + 1 ELSE sv[q].next[p]
    BY <1>1, AddedIs
  <1> DEFINE x == sv'[q]
  <1>5. /\ x.known = sv[q].known \cup ps
        /\ \A p \in Server : x.next[p] =
             IF p \in ps /\ sv[q].st = "leader" THEN Len(sv[q].log) + 1 ELSE sv[q].next[p]
        /\ x.st = sv[q].st /\ x.log = sv[q].log
    BY <1>4 DEF AddsTo
  <1>6. Indexed(x)
    BY <1>1, <1>3, <1>5 DEF Indexed
  <1>7. \A p \in sv[q].known : x.next[p] = sv[q].next[p]
    BY <1>2, <1>5
  <1> QED BY <1>1, <1>3, <1>5, <1>6, <1>7 DEF Steady, Campaigning, AddsTo

LEMMA DiscoveryIdles ==
  ASSUME BaseInv, NEW s \in Server, NEW Q \in SUBSET (Server \ {s}), BroadcastDiscovery(s, Q)
  PROVE  Idles({}, {})
  <1>1. sv \in [Server -> ServerRec]
    BY DEF BaseInv, RaftTypeOK
  <1>2. /\ net' = net /\ won' = won
        /\ sv' = [q \in Server |->
             CASE q = s -> [sv[s] EXCEPT !.discovering = ~isClusterDiscovered(sv[s])]
               [] q \in Q -> handleDiscovery(q, s)
               [] OTHER -> sv[q]]
    BY DEF BroadcastDiscovery
  <1>3. ASSUME NEW q \in Server
        PROVE  /\ sv'[q] \in ServerRec
               /\ Steady(q) /\ q \notin sv'[q].known /\ Indexed(sv'[q])
               /\ sv'[q].votes = sv[q].votes /\ sv'[q].voted = sv[q].voted
               /\ sv'[q].log = sv[q].log /\ sv'[q].match = sv[q].match
    <2>0. sv[q] \in ServerRec
      BY <1>1
    <2>1. CASE q = s
      <3> DEFINE d == ~isClusterDiscovered(sv[s])
                 x == [sv[q] EXCEPT !.discovering = d]
      <3>1. d \in BOOLEAN
        BY DEF isClusterDiscovered
      <3>2. sv'[q] = x
        BY <1>2, <2>1
      <3> HIDE DEF d
      <3>3. x \in ServerRec
        BY <2>0, <3>1 DEF ServerRec
      <3>4. /\ x.st = sv[q].st /\ x.term = sv[q].term /\ x.sent = sv[q].sent
            /\ x.votes = sv[q].votes /\ x.voted = sv[q].voted /\ x.log = sv[q].log
            /\ x.match = sv[q].match /\ x.known = sv[q].known /\ x.next = sv[q].next
        BY <2>0 DEF ServerRec
      <3> HIDE DEF x
      <3>5. Indexed(sv[q]) /\ q \notin sv[q].known
        BY DEF BaseInv, RaftTypeOK, CallsOK
      <3>6. sv[q].log \in Seq(Entry)
        BY <2>0 DEF ServerRec
      <3>7. Len(sv[q].log) <= Len(sv[q].log)
        BY SMTT(100), <3>6
      <3> QED BY <3>2, <3>3, <3>4, <3>5, <3>7 DEF Steady, Campaigning, Indexed
    <2>2. CASE q # s /\ q \in Q
      <3> DEFINE listed == {s} \cup sv[s].known
                 new == listed \ (sv[q].known \cup {q})
                 a == addServers(sv[q], new)
                 d == a.discovering \/ Cardinality(listed) < Cardinality(Server)
                 x == [a EXCEPT !.discovering = d]
      <3>1. new \in SUBSET Server /\ q \notin new /\ \A p \in new : p \notin sv[q].known
        BY <1>1 DEF ServerRec
      <3>2. /\ a \in ServerRec /\ a.st = sv[q].st /\ a.term = sv[q].term /\ a.sent = sv[q].sent
            /\ a.votes = sv[q].votes /\ a.voted = sv[q].voted /\ a.log = sv[q].log
            /\ a.match = sv[q].match
        BY SMTT(100), <2>0, <3>1, AddedIs
      <3>3. sv'[q] = [a EXCEPT !.discovering = @ \/ Cardinality(listed) < Cardinality(Server)]
        BY <1>2, <2>2 DEF handleDiscovery
      <3> HIDE DEF a, new
      <3>4. sv'[q] = x
        BY <3>2, <3>3 DEF ServerRec
      <3>5. d \in BOOLEAN
        OBVIOUS
      <3> HIDE DEF d
      <3>6. x \in ServerRec
        BY <3>2, <3>5 DEF ServerRec
      <3>7. /\ x.st = a.st /\ x.term = a.term /\ x.sent = a.sent /\ x.votes = a.votes
            /\ x.voted = a.voted /\ x.log = a.log /\ x.match = a.match /\ x.known = a.known
            /\ x.next = a.next
        BY <3>2 DEF ServerRec
      <3> HIDE DEF x
      <3>8. AddsTo(sv'[q], sv[q], new)
        BY <3>2, <3>4, <3>7 DEF AddsTo, a
      <3> QED BY <3>1, <3>4, <3>6, <3>8, AddedIsSteady
    <2>3. CASE q # s /\ q \notin Q
      <3>1. sv'[q] = sv[q]
        BY <1>2, <2>3
      <3> QED BY <2>0, <3>1, SameIsSteady
    <2> QED BY <2>1, <2>2, <2>3
  <1>4. sv' \in [Server -> ServerRec]
    BY <1>2, <1>3
  <1>5. NetStep({}, {})
    BY <1>2 DEF NetStep
  <1> QED BY <1>2, <1>3, <1>4, <1>5 DEF Idles

-----------------------------------------------------------------------------
\* A leader that calls p with m, a piece of its log.
Piece(m, r) ==
  /\ m.prev <= Len(r.log) /\ m.prevterm = EntryAt(r, m.prev).term
  /\ m.prev + Len(m.entries) <= Len(r.log)
  /\ \A i \in 1..Len(m.entries) : m.entries[i] = r.log[m.prev + i]

Calls(s, p, x, m) ==
  /\ s \in Server /\ x \in ServerRec /\ sv' = [sv EXCEPT ![s] = x] /\ won' = won
  /\ sv[s].st = "leader" /\ p \in sv[s].known
  /\ x.st = "leader" /\ x.term = sv[s].term /\ x.voted = sv[s].voted /\ x.log = sv[s].log
  /\ x.known = sv[s].known /\ x.votes = sv[s].votes /\ x.next = sv[s].next
  /\ x.match = sv[s].match /\ x.sent = [prev |-> m.prev, num |-> Len(m.entries)]
  /\ m \in AppendRequest /\ m.live /\ m.from = s /\ m.to = p /\ m.term = sv[s].term
  /\ m.prev = sv[s].next[p] - 1 /\ Piece(m, sv[s])
  /\ \A n \in net' \ {m} :
       /\ n \in net \/ \E k \in net : /\ k.live /\ k.req /\ n = Late(k) /\ k.from = s
                                      /\ k \notin net'
       /\ n.kind = "append" /\ n.from = s => ~n.live /\ ~(n.req /\ n.to = p)

LEMMA CallStep ==
  ASSUME BaseInv, NEW s \in Server, NEW p \in Server, updateLeader(s, p)
  PROVE  \E x, m : Calls(s, p, x, m)
  <1> DEFINE r == sv[s]
             prev == r.next[p] - 1
             last == Min2(prev + MaxEntries, LastIndex(r))
             entries == SubSeq(r.log, prev + 1, last)
             pt == EntryAt(r, prev).term
             m == [kind |-> "append", req |-> TRUE, live |-> TRUE, from |-> s, to |-> p,
                   term |-> r.term, prev |-> prev, prevterm |-> pt,
                   entries |-> entries, commit |-> r.commit]
             kept == [prev |-> prev, num |-> Len(entries)]
             y == [r EXCEPT !.sent = kept]
             x == propagateCommitIndex(y)
  <1>1. /\ r \in ServerRec /\ Indexed(r) /\ r.st = "leader" /\ p \in r.known
        /\ sv' = [sv EXCEPT ![s] = x] /\ won' = won
        /\ \E rest \in Cancelled(net, {"append"}, s) : net' = Sent(rest, {m})
    BY DEF BaseInv, RaftTypeOK, CallsOK, updateLeader
  <1>2. /\ r.log \in Seq(Entry) /\ r.next[p] \in 1..Len(r.log) + 1 /\ r.term \in Nat /\ r.commit \in Nat
    BY <1>1 DEF ServerRec, Indexed
  <1>3. prev \in 0..Len(r.log) /\ last \in prev..Len(r.log) /\ prev \in Nat
    <2>1. MaxEntries \in Nat \ {0}
      BY RaftAssumption
    <2>2. \A n, e, l : n \in 1..l + 1 /\ e \in Nat \ {0} /\ l \in Nat =>
            /\ n - 1 \in 0..l /\ n - 1 \in Nat
            /\ (IF n - 1 + e < l THEN n - 1 + e ELSE l) \in n - 1..l
      BY SMTT(100)
    <2>3. Len(r.log) \in Nat
      BY SMTT(100), <1>2
    <2> QED BY <1>2, <2>1, <2>2, <2>3 DEF Min2, LastIndex
  <1> HIDE DEF last
  <1>4. pt \in Nat
    <2>1. prev # 0 => r.log[prev] \in Entry
      <3>1. \A l \in Seq(Entry) : \A i \in 0..Len(l) : i # 0 => l[i] \in Entry
        BY SMTT(100)
      <3> QED BY <1>2, <1>3, <3>1
    <2>2. Zero.term \in Nat
      BY SMTT(100) DEF Zero
    <2> QED BY <2>1, <2>2 DEF EntryAt, Entry
  <1> HIDE DEF prev
  <1>5. /\ entries \in Seq(Entry) /\ Len(entries) = last - prev /\ Len(entries) \in Nat
        /\ \A i \in 1..Len(entries) : entries[i] = r.log[prev + i]
    BY SMTT(100), <1>2, <1>3
  <1>6. prev <= Len(r.log) /\ prev + Len(entries) <= Len(r.log)
    BY SMTT(100), <1>2, <1>3, <1>5
  <1> HIDE DEF pt, entries
  <1>7. m \in AppendRequest
    BY <1>2, <1>3, <1>4, <1>5 DEF AppendRequest
  <1>8. /\ m.live /\ m.from = s /\ m.to = p /\ m.term = r.term /\ m.prev = prev /\ m.prevterm = pt
        /\ m.entries = entries /\ m.kind = "append" /\ m.req
    OBVIOUS
  <1>9. PICK rest \in Cancelled(net, {"append"}, s) : net' = Sent(rest, {m})
    BY <1>1
  <1> HIDE DEF m
  <1>10. kept \in [prev : Nat, num : Nat] /\ kept = [prev |-> m.prev, num |-> Len(m.entries)]
    BY <1>3, <1>5, <1>8
  <1> HIDE DEF kept
  <1>11. y \in ServerRec
    BY <1>1, <1>10 DEF ServerRec
  <1>12. /\ y.st = r.st /\ y.term = r.term /\ y.voted = r.voted /\ y.log = r.log
         /\ y.known = r.known /\ y.votes = r.votes /\ y.next = r.next /\ y.match = r.match
         /\ y.sent = kept
    BY <1>1 DEF ServerRec
  <1> HIDE DEF y
  <1>13. /\ x \in ServerRec
         /\ x.st = y.st /\ x.term = y.term /\ x.voted = y.voted /\ x.log = y.log
         /\ x.known = y.known /\ x.votes = y.votes /\ x.next = y.next /\ x.match = y.match
         /\ x.sent = y.sent
    <2> DEFINE c == y.commit + 1
               z == [y EXCEPT !.commit = c]
    <2>1. x = y \/ x = z
      BY <1>11 DEF propagateCommitIndex, ServerRec
    <2>2. y.commit \in Nat
      BY <1>11 DEF ServerRec
    <2>3. c \in Nat
      BY SMTT(100), <2>2
    <2> HIDE DEF c
    <2>4. z \in ServerRec
      BY <1>11, <2>3 DEF ServerRec
    <2>5. /\ z.st = y.st /\ z.term = y.term /\ z.voted = y.voted /\ z.log = y.log
          /\ z.known = y.known /\ z.votes = y.votes /\ z.next = y.next /\ z.match = y.match
          /\ z.sent = y.sent
      BY <1>11 DEF ServerRec
    <2> HIDE DEF x, z
    <2> QED BY <1>11, <2>1, <2>4, <2>5
  <1> HIDE DEF x
  <1>14. Piece(m, r)
    BY <1>5, <1>6, <1>8 DEF Piece, pt
  <1>15. ASSUME NEW n \in net' \ {m}
         PROVE  /\ n \in net \/ \E k \in net : /\ k.live /\ k.req /\ n = Late(k) /\ k.from = s
                                               /\ k \notin net'
                /\ n.kind = "append" /\ n.from = s => ~n.live /\ ~(n.req /\ n.to = p)
    <2>1. n \in rest /\ ~(n.req /\ n.kind = m.kind /\ n.from = m.from /\ n.to = m.to)
      BY <1>9, <1>15 DEF Sent
    <2>2. net \in SUBSET Message
      BY DEF BaseInv, RaftTypeOK
    <2>3. /\ n \in net \/ \E k \in net \ rest : k.live /\ k.req /\ n = Late(k) /\ k.from = s
          /\ n.live => ~(n.from = s /\ n.kind \in {"append"})
      BY SMTT(100), <1>9, <2>1, <2>2, CancelLeaves
    <2>4. ASSUME NEW k \in net \ rest, k.live, k.req, n = Late(k) PROVE k \notin net'
      <3>1. k # m
        BY <2>1, <2>2, <2>4, LateIs
      <3> QED BY <1>9, <2>4, <3>1 DEF Sent
    <2> QED BY <1>8, <2>1, <2>3, <2>4
  <1>16. m.prev = r.next[p] - 1
    BY <1>8 DEF prev
  <1>17. Calls(s, p, x, m)
    BY <1>1, <1>7, <1>8, <1>10, <1>12, <1>13, <1>14, <1>15, <1>16 DEF Calls
  <1> QED BY <1>17

\* An answer a caller takes: it is live, and the caller is as it was when it called.
LEMMA AnswerIsOwn ==
  ASSUME BaseInv, NEW m \in net, ~m.req
  PROVE  /\ m \in Response /\ m.live /\ m.from \in Server /\ m.to \in Server
         /\ m.kind = "vote" => Campaigning(m.from)
         /\ m.kind = "append" => Pending(m, sv[m.from])
  <1>1. m \in Response
    BY DEF BaseInv, RaftTypeOK, Message, VoteRequest, AppendRequest
  <1> QED BY <1>1 DEF BaseInv, CallsOK, Response, LiveVote, LiveAppend

\* A candidate that counts one vote more.
Counts(m, x) ==
  /\ m \in net /\ m \in Response /\ m.kind = "vote" /\ m.ok /\ m.from \in Server /\ Campaigning(m.from)
  /\ x \in ServerRec /\ sv' = [sv EXCEPT ![m.from] = x] /\ won' = won /\ net' = net \ {m}
  /\ x.votes = sv[m.from].votes + 1
  /\ x.st = sv[m.from].st /\ x.term = sv[m.from].term /\ x.voted = sv[m.from].voted
  /\ x.log = sv[m.from].log /\ x.known = sv[m.from].known /\ x.sent = sv[m.from].sent
  /\ x.next = sv[m.from].next /\ x.match = sv[m.from].match

LEMMA VoteResponseStep ==
  ASSUME BaseInv, NEW m \in net, HandleRequestVoteResponse(m)
  PROVE  \/ \E x : Resigns(m.from, x, {m})
         \/ \E x : Counts(m, x)
         \/ Idles({m}, {})
  <1> DEFINE s == m.from
             v == sv[s].votes + 1
             x == [sv[s] EXCEPT !.votes = v]
  <1>1. m.kind = "vote" /\ ~m.req /\ won' = won
    BY DEF HandleRequestVoteResponse
  <1>2. m \in Response /\ s \in Server /\ Campaigning(s) /\ sv[s] \in ServerRec
    BY <1>1, AnswerIsOwn DEF BaseInv, RaftTypeOK
  <1>3. CASE m.term > sv[s].term
    BY <1>1, <1>2, <1>3, NewerTermStep DEF HandleRequestVoteResponse
  <1>4. CASE ~(m.term > sv[s].term) /\ ~m.ok
    <2>1. sv' = sv /\ net' = net \ {m}
      BY <1>4 DEF HandleRequestVoteResponse
    <2>2. NetStep({m}, {})
      BY <2>1 DEF NetStep
    <2> QED BY <1>1, <2>1, <2>2, SameIdles
  <1>5. CASE ~(m.term > sv[s].term) /\ m.ok
    <2>1. sv' = [sv EXCEPT ![s].votes = @ + 1] /\ net' = net \ {m}
      BY <1>5 DEF HandleRequestVoteResponse
    <2>2. sv \in [Server -> ServerRec] /\ sv[s].votes \in Nat
      BY <1>2 DEF BaseInv, RaftTypeOK, ServerRec
    <2>3. sv' = [sv EXCEPT ![s] = x]
      BY <1>2, <2>1, <2>2 DEF ServerRec
    <2>4. v \in Nat
      BY SMTT(100), <2>2
    <2> HIDE DEF v
    <2>5. x \in ServerRec
      BY <1>2, <2>4 DEF ServerRec
    <2>6. /\ x.votes = v /\ x.st = sv[s].st /\ x.term = sv[s].term /\ x.voted = sv[s].voted
          /\ x.log = sv[s].log /\ x.known = sv[s].known /\ x.sent = sv[s].sent
          /\ x.next = sv[s].next /\ x.match = sv[s].match
      BY <1>2 DEF ServerRec
    <2> HIDE DEF x
    <2> QED BY <1>1, <1>2, <1>5, <2>1, <2>3, <2>5, <2>6 DEF Counts, v
  <1> QED BY <1>3, <1>4, <1>5

\* A leader that takes the answer of the server it has called.
Answered(m, x) ==
  /\ m \in net /\ m \in Response /\ m.kind = "append" /\ Pending(m, sv[m.from])
  /\ m.term <= sv[m.from].term /\ m.from \in Server /\ m.to \in Server
  /\ x \in ServerRec /\ sv' = [sv EXCEPT ![m.from] = x] /\ won' = won /\ net' = net \ {m}
  /\ x.votes = sv[m.from].votes
  /\ x.st = sv[m.from].st /\ x.term = sv[m.from].term /\ x.voted = sv[m.from].voted
  /\ x.log = sv[m.from].log /\ x.known = sv[m.from].known
  /\ \A p \in Server \ {m.to} : x.next[p] = sv[m.from].next[p] /\ x.match[p] = sv[m.from].match[p]
  /\ m.ok => LET r == sv[m.from] IN /\ x.next[m.to] = r.next[m.to] + r.sent.num
                                    /\ x.match[m.to] = r.sent.prev + r.sent.num
  /\ ~m.ok => LET r == sv[m.from] IN /\ x.next[m.to] = r.next[m.to] - 1
                                     /\ x.match[m.to] = r.match[m.to]

LEMMA AppendResponseStep ==
  ASSUME BaseInv, NEW m \in net, HandleAppendEntriesResponse(m)
  PROVE  \/ \E x : Resigns(m.from, x, {m})
         \/ \E x : Answered(m, x)
  <1> DEFINE s == m.from
             r == sv[s]
             p == m.to
             n == IF m.ok THEN [r.next EXCEPT ![p] = @ + r.sent.num]
                  ELSE [r.next EXCEPT ![p] = @ - 1]
             t == IF m.ok THEN [r.match EXCEPT ![p] = r.sent.prev + r.sent.num] ELSE r.match
             x == [r EXCEPT !.next = n, !.match = t, !.sent = Nothing]
  <1>1. m.kind = "append" /\ ~m.req /\ won' = won
    BY DEF HandleAppendEntriesResponse
  <1>2. /\ m \in Response /\ s \in Server /\ p \in Server /\ Pending(m, r) /\ r \in ServerRec
    BY <1>1, AnswerIsOwn DEF BaseInv, RaftTypeOK
  <1>3. CASE m.term > r.term
    BY <1>1, <1>2, <1>3, NewerTermStep DEF HandleAppendEntriesResponse
  <1>4. CASE ~(m.term > r.term)
    <2>1. net' = net \ {m}
      BY <1>4 DEF HandleAppendEntriesResponse
    <2>2. /\ r.next \in [Server -> Int] /\ r.match \in [Server -> Nat]
          /\ r.sent \in [prev : Nat, num : Nat] /\ m.term \in Nat /\ r.term \in Nat
      BY <1>2 DEF ServerRec, Response
    <2>3. /\ r.next[p] + r.sent.num \in Int /\ r.next[p] - 1 \in Int
          /\ r.sent.prev + r.sent.num \in Nat /\ Nothing \in [prev : Nat, num : Nat]
      BY SMTT(100), <1>2, <2>2 DEF Nothing
    <2>4. sv' = [sv EXCEPT ![s] = x]
      <3>1. CASE m.ok
        <4>1. AppendAccepted(r, p) = x
          BY <1>2, <2>2, <3>1 DEF AppendAccepted, ServerRec
        <4>2. sv' = [sv EXCEPT ![s] = AppendAccepted(r, p)]
          BY <1>4, <3>1 DEF HandleAppendEntriesResponse
        <4> QED BY <4>1, <4>2
      <3>2. CASE ~m.ok
        <4>1. AppendRefused(r, p) = x
          BY <1>2, <2>2, <3>2 DEF AppendRefused, ServerRec
        <4>2. sv' = [sv EXCEPT ![s] = AppendRefused(r, p)]
          BY <1>4, <3>2 DEF HandleAppendEntriesResponse
        <4> QED BY <4>1, <4>2
      <3> QED BY <3>1, <3>2
    <2>5. n \in [Server -> Int] /\ t \in [Server -> Nat]
      BY <2>2, <2>3
    <2>6. /\ \A q \in Server \ {p} : n[q] = r.next[q] /\ t[q] = r.match[q]
          /\ m.ok => n[p] = r.next[p] + r.sent.num /\ t[p] = r.sent.prev + r.sent.num
          /\ ~m.ok => n[p] = r.next[p] - 1 /\ t[p] = r.match[p]
      BY <1>2, <2>2
    <2> HIDE DEF n, t
    <2>7. x \in ServerRec
      BY <1>2, <2>3, <2>5 DEF ServerRec
    <2>8. /\ x.next = n /\ x.match = t /\ x.votes = r.votes /\ x.st = r.st /\ x.term = r.term
          /\ x.voted = r.voted /\ x.log = r.log /\ x.known = r.known
      BY <1>2 DEF ServerRec
    <2>9. m.term <= r.term
      BY SMTT(100), <1>4, <2>2
    <2>10. /\ \A q \in Server \ {p} : x.next[q] = r.next[q] /\ x.match[q] = r.match[q]
           /\ m.ok => x.next[p] = r.next[p] + r.sent.num /\ x.match[p] = r.sent.prev + r.sent.num
           /\ ~m.ok => x.next[p] = r.next[p] - 1 /\ x.match[p] = r.match[p]
      BY <2>6, <2>8
    <2> HIDE DEF x
    <2>11. Answered(m, x)
      BY <1>1, <1>2, <2>1, <2>4, <2>7, <2>8, <2>9, <2>10 DEF Answered
    <2> QED BY <2>11
  <1> QED BY <1>3, <1>4

-----------------------------------------------------------------------------
\* The writes that store a newer term: the term, then the vote.
TermStage(q, r) ==
  /\ q \in ServerRec /\ q.log = r.log /\ q.known = r.known /\ q.st = r.st
  /\ r.term <= q.term /\ (q.term = r.term => q.voted = r.voted)

LEMMA NewTermIs ==
  ASSUME NEW r \in ServerRec, NEW t \in Nat
  PROVE  LET path == NewTerm(r, t)
             q == Final(path)
         IN /\ path \in Seq(ServerRec) /\ Len(path) >= 1
            /\ \A k \in 1..Len(path) : TermStage(path[k], r)
            /\ TermStage(q, r) /\ q.votes = r.votes /\ q.match = r.match /\ q.next = r.next
            /\ q.commit = r.commit /\ q.sent = r.sent
            /\ t > r.term => q.term = t /\ q.voted = Nobody
            /\ ~(t > r.term) => path = <<r>> /\ q = r
  <1> DEFINE raised == [r EXCEPT !.term = t]
             reset == [raised EXCEPT !.voted = Nobody]
  <1>1. r.term \in Nat
    BY DEF ServerRec
  <1>2. TermStage(r, r)
    <2>1. r.term <= r.term
      BY SMTT(100), <1>1
    <2> QED BY <2>1 DEF TermStage
  <1>3. CASE t > r.term
    <2>0. r.term <= t /\ t # r.term
      BY SMTT(100), <1>1, <1>3
    <2>1. raised \in ServerRec
      BY DEF ServerRec
    <2>2. /\ raised.term = t /\ raised.log = r.log /\ raised.known = r.known /\ raised.st = r.st
          /\ raised.votes = r.votes /\ raised.match = r.match /\ raised.next = r.next
          /\ raised.commit = r.commit /\ raised.sent = r.sent
      BY DEF ServerRec
    <2>3. NewTerm(r, t) = <<r, raised, reset>>
      BY <1>3 DEF NewTerm
    <2> HIDE DEF raised
    <2>4. reset \in ServerRec
      BY <2>1 DEF ServerRec
    <2>5. /\ reset.term = raised.term /\ reset.log = raised.log /\ reset.known = raised.known
          /\ reset.st = raised.st /\ reset.votes = raised.votes /\ reset.match = raised.match
          /\ reset.next = raised.next /\ reset.commit = raised.commit /\ reset.sent = raised.sent
          /\ reset.voted = Nobody
      BY <2>1 DEF ServerRec
    <2> HIDE DEF reset
    <2>6. TermStage(raised, r) /\ TermStage(reset, r)
      BY <2>0, <2>1, <2>2, <2>4, <2>5 DEF TermStage
    <2>7. /\ <<r, raised, reset>> \in Seq(ServerRec) /\ Len(<<r, raised, reset>>) >= 1
          /\ \A k \in 1..Len(<<r, raised, reset>>) : <<r, raised, reset>>[k] \in {r, raised, reset}
          /\ Final(<<r, raised, reset>>) = reset
      BY SMTT(100), <2>1, <2>4 DEF Final
    <2>8. \A k \in 1..Len(<<r, raised, reset>>) : TermStage(<<r, raised, reset>>[k], r)
      BY <1>2, <2>6, <2>7
    <2> QED BY <1>3, <2>2, <2>3, <2>5, <2>6, <2>7, <2>8
  <1>4. CASE ~(t > r.term)
    <2>1. NewTerm(r, t) = <<r>>
      BY <1>4 DEF NewTerm
    <2>2. /\ <<r>> \in Seq(ServerRec) /\ Len(<<r>>) >= 1 /\ Final(<<r>>) = r
          /\ \A k \in 1..Len(<<r>>) : <<r>>[k] = r
      BY SMTT(100) DEF Final
    <2> QED BY <1>2, <1>4, <2>1, <2>2
  <1> QED BY <1>3, <1>4

\* A server that refuses a request of a newer term, and one that votes.
VoteRefused(m, x) ==
  /\ m \in net /\ m \in VoteRequest /\ Retires(m.to, x, {m}, Reply(m, x.term, FALSE))
  /\ VoteKept(m.to, x) /\ x.log = sv[m.to].log /\ won' = won

VoteGranted(m, x) ==
  /\ m \in net /\ m \in VoteRequest /\ Retires(m.to, x, {m}, Reply(m, x.term, TRUE))
  /\ x.term = m.term /\ x.voted = m.from /\ x.log = sv[m.to].log /\ won' = won
  /\ sv[m.to].term = x.term => sv[m.to].voted \in {Nobody, m.from}

\* An old request is answered with the term the server has, or not at all.
Unmoved(m) ==
  /\ m \in net /\ m.req
  /\ \/ Idles({m}, {})
     \/ Idles({m}, Reply(m, sv[m.to].term, FALSE)) /\ (m.kind = "append" => m.term < sv[m.to].term)

LEMMA RequestIs ==
  ASSUME BaseInv, NEW m \in net, m.req
  PROVE  /\ m \in VoteRequest \cup AppendRequest /\ m.from \in Server /\ m.to \in Server
         /\ m.from # m.to /\ m.term \in Nat
         /\ m.kind = "vote" => m \in VoteRequest
         /\ m.kind = "append" => m \in AppendRequest
         /\ \A t, ok : \A n \in Reply(m, t, ok) : n.from # m.to
  <1>1. m \in VoteRequest \cup AppendRequest /\ m.from # m.to
    BY DEF BaseInv, RaftTypeOK, Message, Response
  <1>2. ASSUME NEW t, NEW ok, NEW n \in Reply(m, t, ok) PROVE n.from = m.from
    BY SMTT(100), <1>2 DEF Reply
  <1>3. m.from \in Server /\ m.to \in Server /\ m.term \in Nat
    BY <1>1 DEF VoteRequest, AppendRequest
  <1>4. m \in VoteRequest => m.kind = "vote"
    BY DEF VoteRequest
  <1>5. m \in AppendRequest => m.kind = "append"
    BY DEF AppendRequest
  <1> QED BY SMTT(100), <1>1, <1>2, <1>3, <1>4, <1>5

LEMMA VoteRequestStep ==
  ASSUME BaseInv, NEW m \in net, HandleRequestVote(m)
  PROVE  \/ \E x : Resigns(m.to, x, {m})
         \/ \E x : VoteRefused(m, x)
         \/ \E x : VoteGranted(m, x)
         \/ Unmoved(m)
  <1> DEFINE s == m.to
             r == sv[s]
             f == IF m.term > r.term THEN Switched(r, "follower") ELSE r
             path == NewTerm(f, m.term)
             now == Final(path)
             grant == Grants(now, m)
             voter == [Switched(now, "follower") EXCEPT !.voted = m.from]
             all == IF grant THEN Append(path, voter) ELSE path
  <1>1. /\ m.kind = "vote" /\ m.req /\ won' = won
    BY DEF HandleRequestVote
  <1>2. /\ m \in VoteRequest /\ m.from \in Server /\ s \in Server /\ m.from # s /\ m.term \in Nat
        /\ \A t, ok : \A n \in Reply(m, t, ok) : n.from # s
    BY <1>1, RequestIs
  <1>3. Stored(s, r) /\ r \in ServerRec /\ r.term \in Nat
    BY <1>2, SelfStored DEF ServerRec
  <1>4. /\ f \in ServerRec /\ f.term = r.term /\ f.voted = r.voted /\ f.log = r.log
        /\ f.known = r.known
        /\ m.term > r.term => f.st = "follower"
        /\ ~(m.term > r.term) => f = r
    BY <1>3, SwitchedIs DEF States
  <1> HIDE DEF f
  <1>5. /\ path \in Seq(ServerRec) /\ Len(path) >= 1
        /\ \A k \in 1..Len(path) : TermStage(path[k], f)
        /\ TermStage(now, f)
        /\ m.term > f.term => now.term = m.term /\ now.voted = Nobody
        /\ ~(m.term > f.term) => path = <<f>> /\ now = f
    BY <1>2, <1>4, NewTermIs
  <1>6. \/ m.from \in r.known
             /\ sv' = [sv EXCEPT ![s] = Final(all)]
             /\ \E rest \in CancelledBy(net \ {m}, r, s, Final(all).st) :
                  net' = rest \cup Reply(m, now.term, grant)
        \/ m.from \in r.known
             /\ FailsIn(s, all) /\ net' \in Cancelled(net \ {m}, BothCalls, s)
        \/ net' = net \ {m} /\ sv' = sv
    BY DEF HandleRequestVote, f
  <1> HIDE DEF path, now, grant
  <1>7. \A q : TermStage(q, f) => Stored(s, q)
    BY <1>3, <1>4 DEF TermStage, Stored, VoteKept
  <1>8. now \in ServerRec
    BY <1>5 DEF TermStage
  <1>9. /\ voter \in ServerRec /\ voter.st = "follower" /\ voter.term = now.term
        /\ voter.voted = m.from /\ voter.log = now.log /\ voter.known = now.known
    <2> DEFINE w == Switched(now, "follower")
    <2>1. /\ w \in ServerRec /\ w.st = "follower" /\ w.term = now.term /\ w.log = now.log
          /\ w.known = now.known
      BY <1>8, SwitchedIs DEF States
    <2> HIDE DEF w
    <2>2. [w EXCEPT !.voted = m.from] \in ServerRec
      BY <1>2, <2>1 DEF ServerRec
    <2>3. /\ [w EXCEPT !.voted = m.from].st = w.st /\ [w EXCEPT !.voted = m.from].term = w.term
          /\ [w EXCEPT !.voted = m.from].voted = m.from
          /\ [w EXCEPT !.voted = m.from].log = w.log
          /\ [w EXCEPT !.voted = m.from].known = w.known
      BY <2>1 DEF ServerRec
    <2> QED BY <2>1, <2>2, <2>3 DEF w
  <1> HIDE DEF voter
  <1>10. /\ all \in Seq(ServerRec)
         /\ grant => Final(all) = voter
         /\ ~grant => Final(all) = now
         /\ \A k \in 1..Len(all) - 1 : k \in 1..Len(path) /\ all[k] = path[k]
    <2>1. CASE grant
      <3>1. /\ Append(path, voter) \in Seq(ServerRec)
            /\ Append(path, voter)[Len(Append(path, voter))] = voter
            /\ \A k \in 1..Len(Append(path, voter)) - 1 :
                 k \in 1..Len(path) /\ Append(path, voter)[k] = path[k]
        BY SMTT(100), <1>5, <1>9
      <3> QED BY <2>1, <3>1 DEF Final
    <2>2. CASE ~grant
      <3>1. \A k \in 1..Len(path) - 1 : k \in 1..Len(path)
        BY SMTT(100), <1>5
      <3> QED BY <1>5, <2>2, <3>1 DEF now
    <2> QED BY <2>1, <2>2
  <1> HIDE DEF all
  <1>11. CASE FailsIn(s, all) /\ net' \in Cancelled(net \ {m}, BothCalls, s)
    <2>1. Quiet(s, {m}, {})
      BY <1>11, CancelQuiet
    <2>2. \A k \in 1..Len(all) - 1 : Stored(s, all[k])
      BY <1>5, <1>7, <1>10
    <2> QED BY <1>1, <1>2, <1>10, <1>11, <2>1, <2>2, FailureResigns
  <1>12. CASE net' = net \ {m} /\ sv' = sv
    <2>1. NetStep({m}, {})
      BY <1>12 DEF NetStep
    <2> QED BY <1>1, <1>12, <2>1, SameIdles DEF Unmoved
  <1>13. ASSUME sv' = [sv EXCEPT ![s] = Final(all)],
                NEW rest \in CancelledBy(net \ {m}, r, s, Final(all).st),
                net' = rest \cup Reply(m, now.term, grant)
         PROVE  \/ \E x : VoteRefused(m, x)
                \/ \E x : VoteGranted(m, x)
                \/ Unmoved(m)
    <2>1. CASE grant
      <3>1. grant = TRUE
        BY <2>1 DEF grant, Grants
      <3>2. Quiet(s, {m}, Reply(m, now.term, TRUE))
        BY <1>2, <1>9, <1>10, <1>13, <2>1, <3>1, CancelByQuiet
      <3>3. now.term = m.term /\ now.voted \in {Nobody, m.from}
        BY <2>1 DEF grant, Grants
      <3>4. Retires(s, voter, {m}, Reply(m, voter.term, TRUE))
        BY <1>2, <1>3, <1>5, <1>7, <1>9, <1>10, <1>13, <2>1, <3>2 DEF Retires, Stored
      <3>5. r.term = voter.term => r.voted \in {Nobody, m.from}
        BY <1>4, <1>5, <1>9, <3>3 DEF TermStage
      <3>6. voter.log = r.log
        BY <1>4, <1>5, <1>9 DEF TermStage
      <3> QED BY <1>1, <1>2, <1>9, <3>3, <3>4, <3>5, <3>6 DEF VoteGranted
    <2>2. CASE ~grant /\ m.term > r.term
      <3>1. grant = FALSE
        BY <2>2 DEF grant, Grants
      <3>2. now.st = "follower" /\ Stored(s, now)
        BY <1>4, <1>5, <1>7, <2>2 DEF TermStage
      <3>3. Quiet(s, {m}, Reply(m, now.term, FALSE))
        BY <1>2, <1>10, <1>13, <2>2, <3>1, <3>2, CancelByQuiet
      <3>4. Retires(s, now, {m}, Reply(m, now.term, FALSE))
        BY <1>2, <1>10, <1>13, <2>2, <3>2, <3>3 DEF Retires, Stored
      <3> QED BY <1>1, <1>2, <3>2, <3>4 DEF VoteRefused, Stored
    <2>3. CASE ~grant /\ ~(m.term > r.term)
      <3>1. grant = FALSE
        BY <2>3 DEF grant, Grants
      <3>2. now = r
        BY <1>4, <1>5, <2>3
      <3>3. rest = net \ {m}
        BY <1>10, <1>13, <2>3, <3>2 DEF CancelledBy
      <3>4. sv' = sv
        <4>1. sv \in [Server -> ServerRec]
          BY DEF BaseInv, RaftTypeOK
        <4> QED BY <1>10, <1>13, <2>3, <3>2, <4>1
      <3>5. NetStep({m}, Reply(m, r.term, FALSE))
        BY <1>13, <3>1, <3>2, <3>3 DEF NetStep
      <3> QED BY <1>1, <3>4, <3>5, SameIdles DEF Unmoved
    <2> QED BY <2>1, <2>2, <2>3
  <1> QED BY <1>6, <1>11, <1>12, <1>13

-----------------------------------------------------------------------------
\* What AppendEntries makes of a log: it is cut before the previous entry if that is another
\* one, or has the request's entries after it.
Fits(m, old) == m.prev <= Len(old) /\ (m.prev > 0 => old[m.prev].term = m.prevterm)

LogFrom(m, old, l) ==
  \/ l = old
  \/ /\ m.prev \in 1..Len(old) /\ old[m.prev].term # m.prevterm
     /\ l = SubSeq(old, 1, m.prev - 1)
  \/ /\ Fits(m, old)
     /\ \E i \in 0..Len(m.entries) : l = SubSeq(old, 1, m.prev) \o SubSeq(m.entries, 1, i)

LogStage(q, r, m) ==
  /\ q \in ServerRec /\ q.term = r.term /\ q.voted = r.voted /\ q.known = r.known /\ q.st = r.st
  /\ LogFrom(m, r.log, q.log)

LEMMA WithLog ==
  ASSUME NEW r \in ServerRec, NEW m, NEW l \in Seq(Entry), LogFrom(m, r.log, l)
  PROVE  LogStage([r EXCEPT !.log = l], r, m) /\ [r EXCEPT !.log = l].log = l
  <1>1. [r EXCEPT !.log = l] \in ServerRec
    BY DEF ServerRec
  <1>2. /\ [r EXCEPT !.log = l].log = l /\ [r EXCEPT !.log = l].term = r.term
        /\ [r EXCEPT !.log = l].voted = r.voted /\ [r EXCEPT !.log = l].known = r.known
        /\ [r EXCEPT !.log = l].st = r.st
    BY DEF ServerRec
  <1> QED BY <1>1, <1>2 DEF LogStage

LEMMA NewLogIs ==
  ASSUME NEW r \in ServerRec, NEW m \in AppendRequest, m.prev <= Len(r.log),
         m.prev = 0 => m.prevterm = 0
  PROVE  LET path == NewLog(r, m)
             same == EntryAt(r, m.prev).term = m.prevterm
         IN /\ path \in Seq(ServerRec) /\ Len(path) >= 1 /\ path[1] = r
            /\ \A k \in 1..Len(path) : LogStage(path[k], r, m)
            /\ same => Fits(m, r.log) /\ Final(path).log = SubSeq(r.log, 1, m.prev) \o m.entries
            /\ ~same => m.prev > 0 /\ ~Fits(m, r.log)
  <1> DEFINE L == r.log
             e == m.entries
             p == m.prev
             n == Len(e)
             cut == Truncated(r, p)
             stage(i) == [cut EXCEPT !.log = @ \o SubSeq(e, 1, i)]
             heads == SubSeq(L, 1, p)
             rows == [i \in 1..n |-> stage(i)]
  <1>1. L \in Seq(Entry) /\ e \in Seq(Entry) /\ p \in Nat /\ m.prevterm \in Nat
    BY DEF ServerRec, AppendRequest
  <1>2. Len(L) \in Nat /\ n \in Nat /\ p \in 0..Len(L)
    BY SMTT(100), <1>1
  <1>3. heads \in Seq(Entry) /\ Len(heads) = p
    BY SMTT(100), <1>1, <1>2
  <1>4. SubSeq(L, 1, Len(L)) = L /\ SubSeq(e, 1, n) = e
    BY SMTT(100), <1>1
  <1>5. LogStage(r, r, m)
    BY DEF LogStage, LogFrom
  <1>6. CASE EntryAt(r, p).term # m.prevterm
    <2>1. p > 0
      <3>1. p = 0 => EntryAt(r, p).term = 0
        BY DEF EntryAt, Zero
      <3> QED BY SMTT(100), <1>1, <1>6, <3>1
    <2> DEFINE c == SubSeq(L, 1, p - 1)
               y == [r EXCEPT !.log = c]
    <2>2. c \in Seq(Entry) /\ p \in 1..Len(L) /\ p # 0
      BY SMTT(100), <1>1, <1>2, <2>1
    <2>a. L[p].term # m.prevterm
      BY <1>6, <2>2 DEF EntryAt
    <2>3. LogStage(y, r, m)
      BY <2>2, <2>a, WithLog DEF LogFrom
    <2>4. NewLog(r, m) = <<r, y>>
      BY <1>6 DEF NewLog, Truncated, ServerRec
    <2>5. y \in ServerRec
      BY <2>3 DEF LogStage
    <2> HIDE DEF y
    <2>6. /\ <<r, y>> \in Seq(ServerRec) /\ Len(<<r, y>>) >= 1 /\ <<r, y>>[1] = r
          /\ \A k \in 1..Len(<<r, y>>) : <<r, y>>[k] \in {r, y}
      BY SMTT(100), <2>5
    <2> QED BY <1>5, <1>6, <2>1, <2>3, <2>4, <2>6, <2>a DEF Fits
  <1>7. CASE EntryAt(r, p).term = m.prevterm
    <2>1. Fits(m, L)
      <3>1. p > 0 => p # 0
        BY SMTT(100)
      <3> QED BY <1>7, <3>1 DEF Fits, EntryAt
    <2>2. LogStage(cut, r, m) /\ cut.log = heads
      <3>1. cut = [r EXCEPT !.log = heads]
        BY DEF Truncated, ServerRec
      <3>2. LogFrom(m, L, heads)
        <4>1. heads = heads \o SubSeq(e, 1, 0) /\ 0 \in 0..n
          BY SMTT(100), <1>1, <1>2, <1>3
        <4> QED BY <2>1, <4>1 DEF LogFrom
      <3> HIDE DEF heads, cut
      <3> QED BY <1>3, <3>1, <3>2, WithLog
    <2>3. ASSUME NEW i \in 1..n
          PROVE  LogStage(stage(i), r, m) /\ stage(i).log = heads \o SubSeq(e, 1, i)
      <3> DEFINE l == heads \o SubSeq(e, 1, i)
      <3>1. l \in Seq(Entry) /\ i \in 0..n
        BY SMTT(100), <1>1, <1>2, <1>3, <2>3
      <3>2. stage(i) = [r EXCEPT !.log = l]
        BY <2>2 DEF Truncated, ServerRec, LogStage
      <3>3. LogFrom(m, L, l)
        BY <2>1, <3>1 DEF LogFrom
      <3> QED BY <3>1, <3>2, <3>3, WithLog
    <2> DEFINE front == IF p /= LastIndex(r) THEN <<r, cut>> ELSE <<r>>
    <2>4. NewLog(r, m) = front \o rows
      BY <1>7 DEF NewLog
    <2>5. cut \in ServerRec
      BY <2>2 DEF LogStage
    <2> HIDE DEF cut, stage
    <2>6. rows \in Seq(ServerRec) /\ Len(rows) = n /\ \A i \in 1..n : rows[i] = stage(i)
      <3>1. \A i \in 1..n : stage(i) \in ServerRec
        BY <2>3 DEF LogStage
      <3> QED BY SMTT(100), <1>2, <3>1
    <2>7. /\ front \in Seq(ServerRec) /\ Len(front) \in 1..2 /\ front[1] = r
          /\ \A k \in 1..Len(front) : front[k] \in {r, cut}
          /\ front[Len(front)] = IF p /= LastIndex(r) THEN cut ELSE r
      BY SMTT(100), <2>5
    <2> HIDE DEF front, rows
    <2>8. /\ front \o rows \in Seq(ServerRec) /\ Len(front \o rows) >= 1 /\ (front \o rows)[1] = r
          /\ Len(front \o rows) = Len(front) + n
          /\ \A k \in 1..Len(front \o rows) :
               \/ k \in 1..Len(front) /\ (front \o rows)[k] = front[k]
               \/ k - Len(front) \in 1..n /\ (front \o rows)[k] = rows[k - Len(front)]
          /\ n = 0 => Final(front \o rows) = front[Len(front)]
          /\ n > 0 => n \in 1..n /\ Final(front \o rows) = rows[n]
      BY SMTT(100), <1>2, <2>6, <2>7 DEF Final
    <2>9. \A k \in 1..Len(front \o rows) : LogStage((front \o rows)[k], r, m)
      BY <1>5, <2>2, <2>3, <2>6, <2>7, <2>8
    <2>10. Final(front \o rows).log = heads \o e
      <3>1. CASE n > 0
        BY <1>4, <2>3, <2>6, <2>8, <3>1
      <3>2. CASE n = 0
        <4>1. heads \o e = heads
          BY SMTT(100), <1>1, <1>3, <3>2
        <4>2. p = LastIndex(r) => L = heads
          BY <1>4 DEF LastIndex
        <4> QED BY <2>2, <2>7, <2>8, <3>2, <4>1, <4>2
      <3>3. n = 0 \/ n > 0
        BY SMTT(100), <1>2
      <3> QED BY <3>1, <3>2, <3>3
    <2> QED BY <1>7, <2>1, <2>4, <2>8, <2>9, <2>10
  <1> QED BY <1>6, <1>7

\* A follower that has taken the entries, or has found that they do not fit; and one that
\* failed at it.
LogTaken(m, x, ok) ==
  /\ m \in net /\ m \in AppendRequest /\ ok \in BOOLEAN
  /\ Retires(m.to, x, {m}, Reply(m, x.term, ok))
  /\ VoteKept(m.to, x) /\ x.term = m.term /\ won' = won
  /\ LogFrom(m, sv[m.to].log, x.log)
  /\ ok => Fits(m, sv[m.to].log) /\ x.log = SubSeq(sv[m.to].log, 1, m.prev) \o m.entries
  /\ ~ok => m.prev > 0 /\ ~Fits(m, sv[m.to].log)

Halfway(s, q, m) ==
  /\ q \in ServerRec /\ s \notin q.known /\ sv[s].term <= q.term /\ VoteKept(s, q)
  /\ q.log = sv[s].log \/ (q.term = m.term /\ LogFrom(m, sv[s].log, q.log))

LogBroken(m, x) ==
  /\ m \in net /\ m \in AppendRequest /\ Retires(m.to, x, {m}, {}) /\ Halfway(m.to, x, m)
  /\ sv[m.to].term <= m.term /\ won' = won

\* A path that goes on where another ends.
Joined(a, b, c) ==
  /\ \A k \in 1..Len(c) : \/ k \in 1..Len(a) /\ c[k] = a[k]
                          \/ k - Len(a) + 1 \in 1..Len(b) /\ c[k] = b[k - Len(a) + 1]
  /\ \A k \in 1..Len(c) - 1 : k \in 1..Len(c)
  /\ Len(b) = 1 => c[Len(c)] = a[Len(a)] /\ b[Len(b)] = b[1]
  /\ Len(b) # 1 => Len(b) \in 1..Len(b) /\ c[Len(c)] = b[Len(b)]

LEMMA JoinedIs ==
  ASSUME NEW S, NEW a \in Seq(S), NEW b \in Seq(S), Len(a) >= 1, Len(b) >= 1
  PROVE  a \o Tail(b) \in Seq(S) /\ Joined(a, b, a \o Tail(b))
  <1> DEFINE t == Tail(b)
  <1>1. t \in Seq(S) /\ Len(t) = Len(b) - 1 /\ \A i \in 1..Len(t) : t[i] = b[i + 1]
    BY SMTT(100)
  <1>2. Len(a) \in Nat /\ Len(b) \in Nat /\ Len(t) \in Nat
    BY SMTT(100), <1>1
  <1> HIDE DEF t
  <1> DEFINE c == a \o t
  <1>3. /\ c \in Seq(S) /\ Len(c) = Len(a) + Len(t)
        /\ \A k \in 1..Len(a) : c[k] = a[k]
        /\ \A k \in 1..Len(t) : c[Len(a) + k] = t[k]
    <2>a. c \in Seq(S)
      BY SMTT(100), <1>1
    <2>b. Len(c) = Len(a) + Len(t)
      <3>1. \A u, v \in Seq(S) : Len(u \o v) = Len(u) + Len(v)
        BY SMTT(100)
      <3> QED BY <1>1, <3>1
    <2>c. ASSUME NEW k \in 1..Len(a) PROVE c[k] = a[k]
      BY SMTT(100), <1>1, <1>2, <2>c
    <2>2. ASSUME NEW k \in 1..Len(t) PROVE c[Len(a) + k] = t[k]
      BY SMTT(100), <1>1, <1>2, <2>2
    <2> QED BY <2>a, <2>b, <2>c, <2>2
  <1> HIDE DEF c
  <1>4. ASSUME NEW k \in 1..Len(c), k \notin 1..Len(a)
        PROVE  k - Len(a) + 1 \in 1..Len(b) /\ c[k] = b[k - Len(a) + 1]
    <2>1. k - Len(a) \in 1..Len(t) /\ Len(a) + (k - Len(a)) = k
      BY SMTT(100), <1>2, <1>3, <1>4
    <2>2. k - Len(a) + 1 \in 1..Len(b)
      BY SMTT(100), <1>1, <1>2, <2>1
    <2> QED BY <1>1, <1>3, <2>1, <2>2
  <1>5. \A k \in 1..Len(c) - 1 : k \in 1..Len(c)
    BY SMTT(100), <1>2, <1>3
  <1>6. Len(b) = 1 => c[Len(c)] = a[Len(a)]
    BY SMTT(100), <1>1, <1>2, <1>3
  <1>7. Len(b) # 1 => Len(b) \in 1..Len(b) /\ Len(c) \in 1..Len(c) /\ Len(c) \notin 1..Len(a)
                      /\ Len(c) - Len(a) + 1 = Len(b)
    BY SMTT(100), <1>1, <1>2, <1>3
  <1>8. Len(b) # 1 => c[Len(c)] = b[Len(b)]
    BY <1>4, <1>7
  <1>9. Joined(a, b, c)
    BY <1>3, <1>4, <1>5, <1>6, <1>7, <1>8 DEF Joined
  <1> QED BY <1>3, <1>9 DEF c, t

LEMMA AppendRequestStep ==
  ASSUME BaseInv, NEW m \in net, HandleAppendEntries(m)
  PROVE  \/ \E x : LogBroken(m, x)
         \/ \E x, ok : LogTaken(m, x, ok)
         \/ Unmoved(m)
  <1> DEFINE s == m.to
             r == IF m.from \in sv[s].known \/ isClusterDiscovered(sv[s]) THEN sv[s]
                  ELSE addServers(sv[s], {m.from})
             path == NewTerm(r, m.term)
             now == Switched(Final(path), "follower")
             stale == m.term < r.term
             has == m.prev <= LastIndex(now)
             same == has /\ EntryAt(now, m.prev).term = m.prevterm
             rows == NewLog(now, m)
             all == IF stale \/ ~has THEN path ELSE path \o Tail(rows)
             end == IF stale THEN r ELSE Switched(Final(all), "follower")
             done == IF ~stale /\ same /\ m.commit > end.commit
                     THEN [end EXCEPT !.commit = Min2(m.commit, LastIndex(end))] ELSE end
             ok == ~stale /\ same
  <1>1. m.kind = "append" /\ m.req /\ won' = won
    BY DEF HandleAppendEntries
  <1>2. /\ m \in AppendRequest /\ m.from \in Server /\ s \in Server /\ m.from # s /\ m.term \in Nat
        /\ m.prev \in Nat /\ m.commit \in Nat /\ (m.prev = 0 => m.prevterm = 0)
        /\ \A t, v : \A n \in Reply(m, t, v) : n.from # s
    BY <1>1, RequestIs DEF AppendRequest, BaseInv, RaftTypeOK
  <1>3. /\ Stored(s, sv[s]) /\ sv[s] \in ServerRec /\ sv[s].term \in Nat /\ s \notin sv[s].known
        /\ sv[s].log \in Seq(Entry)
    BY <1>2, SelfStored DEF ServerRec, Stored
  <1>4. /\ r \in ServerRec /\ s \notin r.known /\ r.term = sv[s].term /\ r.voted = sv[s].voted
        /\ r.log = sv[s].log /\ r.st = sv[s].st
    <2> DEFINE a == addServers(sv[s], {m.from})
    <2>1. /\ a \in ServerRec /\ a.st = sv[s].st /\ a.term = sv[s].term /\ a.voted = sv[s].voted
          /\ a.log = sv[s].log /\ a.known = sv[s].known \cup {m.from}
      BY SMTT(100), <1>2, <1>3, AddedIs
    <2> HIDE DEF a
    <2>2. r = sv[s] \/ r = a
      BY DEF a
    <2> HIDE DEF r
    <2> QED BY <1>2, <1>3, <2>1, <2>2
  <1>5. \/ m.from \in r.known
             /\ sv' = [sv EXCEPT ![s] = done]
             /\ \E rest \in CancelledBy(net \ {m}, r, s, done.st) :
                  net' = rest \cup Reply(m, done.term, ok)
        \/ m.from \in r.known
             /\ FailsIn(s, all) /\ net' \in Cancelled(net \ {m}, BothCalls, s)
        \/ net' = net \ {m} /\ sv' = sv
    BY DEF HandleAppendEntries
  <1>6. r = sv[s] \/ (m.from \notin sv[s].known /\ r = addServers(sv[s], {m.from}))
    OBVIOUS
  <1> HIDE DEF r
  <1>7. /\ path \in Seq(ServerRec) /\ Len(path) >= 1
        /\ \A k \in 1..Len(path) : TermStage(path[k], r)
        /\ TermStage(Final(path), r)
        /\ m.term > r.term => Final(path).term = m.term
        /\ ~(m.term > r.term) => path = <<r>> /\ Final(path) = r
    BY <1>2, <1>4, NewTermIs
  <1>8. /\ now \in ServerRec /\ now.st = "follower" /\ now.term = Final(path).term
        /\ now.voted = Final(path).voted /\ now.log = sv[s].log /\ now.known = r.known
        /\ r.term <= now.term /\ (now.term = r.term => now.voted = r.voted)
    BY <1>4, <1>7, SwitchedIs DEF TermStage, States
  <1>9. ~stale => now.term = m.term /\ sv[s].term <= m.term
    <2>1. \A a, b \in Nat : ~(a < b) => (a > b \/ a = b) /\ b <= a
      BY SMTT(100)
    <2> QED BY <1>2, <1>3, <1>4, <1>7, <1>8, <2>1
  <1>10. \A k \in 1..Len(path) : Halfway(s, path[k], m)
    BY <1>3, <1>4, <1>7 DEF TermStage, Halfway, VoteKept
  <1> HIDE DEF path, now
  <1>11. CASE net' = net \ {m} /\ sv' = sv
    <2>1. NetStep({m}, {})
      BY <1>11 DEF NetStep
    <2> QED BY <1>1, <1>11, <2>1, SameIdles DEF Unmoved
  <1>12. CASE stale
    <2>1. path = <<r>> /\ all = path /\ end = r /\ done = r /\ ok = FALSE
      <3>1. ~(m.term > r.term)
        <4>1. \A a, b \in Nat : a < b => ~(a > b)
          BY SMTT(100)
        <4> QED BY <1>2, <1>3, <1>4, <1>12, <4>1
      <3> QED BY <1>7, <1>12, <3>1
    <2> HIDE DEF all, done, ok, stale
    <2>2. ~FailsIn(s, all)
      <3>1. 1..Len(<<r>>) - 1 = {}
        BY SMTT(100)
      <3> QED BY <2>1, <3>1 DEF FailsIn
    <2>3. CASE /\ sv' = [sv EXCEPT ![s] = done]
               /\ \E rest \in CancelledBy(net \ {m}, r, s, done.st) :
                    net' = rest \cup Reply(m, done.term, ok)
      <3>1. sv' = [sv EXCEPT ![s] = r] /\ net' = (net \ {m}) \cup Reply(m, r.term, FALSE)
        BY <2>1, <2>3 DEF CancelledBy
      <3>2. NetStep({m}, Reply(m, sv[s].term, FALSE))
        BY <1>4, <3>1 DEF NetStep
      <3>3. sv \in [Server -> ServerRec]
        BY DEF BaseInv, RaftTypeOK
      <3>4. \A q \in Server : sv'[q] = IF q = s THEN r ELSE sv[q]
        BY <1>2, <3>1, <3>3
      <3>5. sv' \in [Server -> ServerRec]
        BY <1>4, <3>1, <3>3
      <3>6. m.term < sv[m.to].term
        BY <1>4, <1>12 DEF stale
      <3>7. ASSUME NEW q \in Server
            PROVE  /\ Steady(q) /\ q \notin sv'[q].known /\ Indexed(sv'[q])
                   /\ sv'[q].votes = sv[q].votes /\ sv'[q].voted = sv[q].voted
                   /\ sv'[q].log = sv[q].log /\ sv'[q].match = sv[q].match
        <4>1. CASE sv'[q] = sv[q]
          BY <4>1, SameIsSteady
        <4>2. CASE sv'[q] # sv[q]
          <5>1. q = s /\ r = addServers(sv[q], {m.from}) /\ sv'[q] = r /\ m.from \notin sv[q].known
            BY <1>6, <3>4, <4>2
          <5>2. /\ r.st = sv[q].st /\ r.term = sv[q].term /\ r.sent = sv[q].sent
                /\ r.votes = sv[q].votes /\ r.voted = sv[q].voted /\ r.log = sv[q].log
                /\ r.match = sv[q].match
            BY SMTT(100), <1>2, <1>3, <5>1, AddedIs
          <5>3. {m.from} \in SUBSET Server /\ q \notin {m.from} /\ \A p \in {m.from} : p \notin sv[q].known
            BY <1>2, <5>1
          <5>4. AddsTo(sv'[q], sv[q], {m.from})
            BY <5>1, <5>2 DEF AddsTo
          <5> QED BY <5>3, <5>4, AddedIsSteady
        <4> QED BY <4>1, <4>2
      <3> QED BY <1>1, <3>2, <3>5, <3>6, <3>7 DEF Unmoved, Idles
    <2> QED BY <1>5, <1>11, <2>2, <2>3
  <1>13. CASE ~stale
    <2> DEFINE old == sv[s].log
    <2>1. now.term = m.term /\ sv[s].term <= m.term /\ now.log = old
      BY <1>8, <1>9, <1>13
    <2>2. has => /\ rows \in Seq(ServerRec) /\ Len(rows) >= 1 /\ rows[1] = now
                 /\ \A k \in 1..Len(rows) : LogStage(rows[k], now, m)
                 /\ same => Fits(m, old) /\ Final(rows).log = SubSeq(old, 1, m.prev) \o m.entries
                 /\ ~same => m.prev > 0 /\ ~Fits(m, old)
      <3>1. has => m.prev <= Len(now.log)
        BY DEF LastIndex
      <3> HIDE DEF has
      <3> QED BY <1>2, <1>8, <2>1, <3>1, NewLogIs
    <2>3. ~has => ~same /\ m.prev > 0 /\ ~Fits(m, old)
      <3>1. Len(old) \in Nat
        BY SMTT(100), <1>3
      <3>2. \A a, b \in Nat : ~(a <= b) => a > 0
        BY SMTT(100)
      <3> QED BY <1>2, <2>1, <3>1, <3>2 DEF LastIndex, Fits
    <2>4. ok = same /\ end = Switched(Final(all), "follower") /\ same \in BOOLEAN
      BY <1>13 DEF has
    <2>5. all = IF has THEN path \o Tail(rows) ELSE path
      BY <1>13
    <2> HIDE DEF stale, rows, all, same, ok
    <2>6. ASSUME NEW q, LogStage(q, now, m)
          PROVE  Halfway(s, q, m) /\ q.term = m.term /\ LogFrom(m, old, q.log) /\ q.known = r.known
      BY <1>3, <1>4, <1>8, <2>1, <2>6 DEF LogStage, Halfway, VoteKept
    <2>7. LogFrom(m, old, old)
      BY DEF LogFrom
    <2>8. /\ Halfway(s, Final(path), m) /\ Final(path).term = m.term /\ Final(path).log = old
          /\ Final(path).known = r.known
      <3>1. TermStage(Final(path), r)
        BY <1>7
      <3> QED BY <1>3, <1>4, <1>8, <2>1, <3>1 DEF TermStage, Halfway, VoteKept
    <2>9. /\ all \in Seq(ServerRec)
          /\ \A k \in 1..Len(all) - 1 : Halfway(s, all[k], m)
          /\ Halfway(s, Final(all), m) /\ Final(all).term = m.term /\ Final(all).known = r.known
          /\ LogFrom(m, old, Final(all).log)
          /\ same => Final(all).log = SubSeq(old, 1, m.prev) \o m.entries
      <3>1. CASE ~has
        <4>1. \A k \in 1..Len(path) - 1 : k \in 1..Len(path)
          BY SMTT(100), <1>7
        <4> QED BY <1>7, <1>10, <2>3, <2>5, <2>7, <2>8, <3>1, <4>1
      <3>2. CASE has
        <4> DEFINE seq == path \o Tail(rows)
        <4>1. /\ seq \in Seq(ServerRec)
              /\ \A k \in 1..Len(seq) :
                   \/ k \in 1..Len(path) /\ seq[k] = path[k]
                   \/ k - Len(path) + 1 \in 1..Len(rows) /\ seq[k] = rows[k - Len(path) + 1]
              /\ \A k \in 1..Len(seq) - 1 : k \in 1..Len(seq)
              /\ Len(rows) = 1 => seq[Len(seq)] = path[Len(path)] /\ rows[Len(rows)] = rows[1]
              /\ Len(rows) # 1 => Len(rows) \in 1..Len(rows) /\ seq[Len(seq)] = rows[Len(rows)]
          <5>1. path \in Seq(ServerRec) /\ rows \in Seq(ServerRec) /\ Len(path) >= 1 /\ Len(rows) >= 1
            BY <1>7, <2>2, <3>2
          <5>2. seq \in Seq(ServerRec) /\ Joined(path, rows, seq)
            BY <5>1, JoinedIs
          <5> QED BY <5>2 DEF Joined
        <4>2. \A k \in 1..Len(seq) : Halfway(s, seq[k], m)
          BY <1>10, <2>2, <2>6, <3>2, <4>1
        <4>3. CASE Len(rows) = 1
          <5>1. Final(seq) = Final(path) /\ Final(rows) = now
            BY <2>2, <3>2, <4>1, <4>3 DEF Final
          <5>2. same => old = SubSeq(old, 1, m.prev) \o m.entries
            BY <2>1, <2>2, <3>2, <5>1
          <5> QED BY <2>5, <2>7, <2>8, <3>2, <4>1, <4>2, <5>1, <5>2
        <4>4. CASE Len(rows) # 1
          <5>1. Final(seq) = Final(rows) /\ LogStage(Final(rows), now, m)
            BY <2>2, <3>2, <4>1, <4>4 DEF Final
          <5> QED BY <2>2, <2>5, <2>6, <3>2, <4>1, <4>2, <5>1
        <4> QED BY <4>3, <4>4
      <3> QED BY <3>1, <3>2
    <2>10. CASE FailsIn(s, all) /\ net' \in Cancelled(net \ {m}, BothCalls, s)
      <3>0. PICK k \in 1..Len(all) - 1 : \E x :
              all[k] \in ServerRec /\ Resigned(x, all[k]) /\ sv' = [sv EXCEPT ![s] = x]
        BY <2>9, <2>10, FailedIs
      <3>1. PICK x : all[k] \in ServerRec /\ Resigned(x, all[k]) /\ sv' = [sv EXCEPT ![s] = x]
        BY <3>0
      <3>2. Halfway(s, x, m) /\ x.st \in {"follower", "down"}
        <4>1. Halfway(s, all[k], m)
          BY <2>9, <3>1
        <4> QED BY <3>1, <4>1 DEF Halfway, Resigned, VoteKept
      <3>3. Quiet(s, {m}, {})
        BY <2>10, CancelQuiet
      <3>4. Retires(s, x, {m}, {})
        BY <1>2, <3>1, <3>2, <3>3 DEF Retires, Halfway
      <3> QED BY <1>1, <1>2, <2>1, <3>2, <3>4 DEF LogBroken
    <2>11. ASSUME sv' = [sv EXCEPT ![s] = done],
                  NEW rest \in CancelledBy(net \ {m}, r, s, done.st),
                  net' = rest \cup Reply(m, done.term, ok)
           PROVE  \E x, v : LogTaken(m, x, v)
      <3> DEFINE q == Final(all)
                 w == Switched(q, "follower")
                 c == Min2(m.commit, LastIndex(w))
      <3>1. /\ w \in ServerRec /\ w.st = "follower" /\ w.term = q.term /\ w.voted = q.voted
            /\ w.log = q.log /\ w.known = q.known
        BY <2>9, SwitchedIs DEF Halfway, States
      <3>2. c \in Nat
        <4>1. w.log \in Seq(Entry)
          BY <3>1 DEF ServerRec
        <4> HIDE DEF w
        <4> QED BY SMTT(100), <1>2, <4>1 DEF Min2, LastIndex
      <3>3. done = w \/ done = [w EXCEPT !.commit = c]
        BY <2>4
      <3> HIDE DEF w, c, q
      <3>4. [w EXCEPT !.commit = c] \in ServerRec
        BY <3>1, <3>2 DEF ServerRec
      <3>5. /\ [w EXCEPT !.commit = c].st = w.st /\ [w EXCEPT !.commit = c].term = w.term
            /\ [w EXCEPT !.commit = c].voted = w.voted /\ [w EXCEPT !.commit = c].log = w.log
            /\ [w EXCEPT !.commit = c].known = w.known
        BY <3>1 DEF ServerRec
      <3> HIDE DEF done
      <3>6. /\ done \in ServerRec /\ done.st = "follower" /\ done.term = q.term
            /\ done.voted = q.voted /\ done.log = q.log /\ done.known = q.known
        BY <3>1, <3>3, <3>4, <3>5
      <3>7. Halfway(s, q, m) /\ q.term = m.term /\ LogFrom(m, old, q.log)
        BY <2>9 DEF q
      <3>8. Quiet(s, {m}, Reply(m, done.term, ok))
        BY <1>2, <1>4, <2>11, <3>6, CancelByQuiet
      <3>9. Retires(s, done, {m}, Reply(m, done.term, same))
        BY <1>2, <2>4, <2>11, <3>6, <3>7, <3>8 DEF Retires, Halfway
      <3>10. VoteKept(s, done)
        BY <3>6, <3>7 DEF Halfway, VoteKept
      <3>11. same => Fits(m, old) /\ done.log = SubSeq(old, 1, m.prev) \o m.entries
        BY <2>2, <2>3, <2>9, <3>6 DEF q
      <3>12. ~same => m.prev > 0 /\ ~Fits(m, old)
        BY <2>2, <2>3
      <3>13. LogTaken(m, done, same)
        BY <1>1, <1>2, <2>4, <3>6, <3>7, <3>9, <3>10, <3>11, <3>12 DEF LogTaken
      <3> QED BY <3>13
    <2> QED BY <1>5, <1>11, <2>10, <2>11
  <1> QED BY <1>12, <1>13

-----------------------------------------------------------------------------
\* Every step is one of these.
Effect ==
  \/ \E s, x, G : Resigns(s, x, G)
  \/ \E G : Idles(G, {})
  \/ \E m : Unmoved(m)
  \/ \E s, x : Campaigns(s, x) \/ Leads(s, x) \/ Allocates(s, x)
  \/ \E s, p, x, m : Calls(s, p, x, m)
  \/ \E m, x : \/ Counts(m, x) \/ Answered(m, x) \/ VoteRefused(m, x) \/ VoteGranted(m, x)
               \/ LogBroken(m, x)
  \/ \E m, x, ok : LogTaken(m, x, ok)

LEMMA StepIs ==
  ASSUME BaseInv, [RaftNext]_raftVars
  PROVE  Effect
  <1>1. ASSUME NEW s \in Server, ServerStep(s) PROVE Effect
    <2>1. CASE updateFollower(s)
      BY <2>1, FollowerTimesOut DEF Effect
    <2>2. CASE StartCampaign(s)
      BY <2>2, CampaignStep DEF Effect
    <2>3. CASE FinishCampaign(s)
      BY <2>3, FinishStep DEF Effect
    <2>4. CASE \E p \in Server : updateLeader(s, p)
      BY <2>4, CallStep DEF Effect
    <2>5. CASE \E c \in Client : AllocateNewNode(s, c)
      BY <2>5, AllocateStep DEF Effect
    <2>6. CASE \E Q \in SUBSET (Server \ {s}) : BroadcastDiscovery(s, Q)
      BY <2>6, DiscoveryIdles DEF Effect
    <2>7. CASE Crash(s)
      BY <2>7, CrashResigns DEF Effect
    <2>8. CASE Restart(s)
      BY <2>8, RestartResigns DEF Effect
    <2> QED BY <1>1, <2>1, <2>2, <2>3, <2>4, <2>5, <2>6, <2>7, <2>8 DEF ServerStep
  <1>2. ASSUME NEW m \in net, MessageStep(m) PROVE Effect
    <2>1. CASE HandleRequestVote(m)
      BY <2>1, VoteRequestStep DEF Effect
    <2>2. CASE HandleAppendEntries(m)
      BY <2>2, AppendRequestStep DEF Effect
    <2>3. CASE HandleRequestVoteResponse(m)
      BY <2>3, VoteResponseStep DEF Effect
    <2>4. CASE HandleAppendEntriesResponse(m)
      BY <2>4, AppendResponseStep DEF Effect
    <2> QED BY <1>2, <2>1, <2>2, <2>3, <2>4 DEF MessageStep
  <1>3. ASSUME UNCHANGED raftVars PROVE Effect
    <2>1. sv' = sv /\ net' = net /\ won' = won
      BY <1>3 DEF raftVars
    <2>2. NetStep({}, {})
      BY <2>1 DEF NetStep
    <2> QED BY <2>1, <2>2, SameIdles DEF Effect
  <1> QED BY <1>1, <1>2, <1>3 DEF RaftNext

-----------------------------------------------------------------------------
\* The invariant of the calls is kept by every step.
LEMMA CampaignBase ==
  ASSUME BaseInv, NEW s, NEW x, Campaigns(s, x)
  PROVE  BaseInv'
  <1>1. /\ sv \in [Server -> ServerRec] /\ net \subseteq Message /\ won' \subseteq Nat \X Server
        /\ \A q \in Server : q \notin sv[q].known /\ Indexed(sv[q])
        /\ s \in Server /\ x \in ServerRec /\ sv' = [sv EXCEPT ![s] = x]
        /\ x.st = "candidate" /\ x.votes = 1 /\ x.known = sv[s].known
    BY DEF BaseInv, RaftTypeOK, CallsOK, Campaigns
  <1>2. \A q \in Server : sv'[q] = IF q = s THEN x ELSE sv[q]
    BY <1>1
  <1>3. sv' \in [Server -> ServerRec]
    BY <1>1
  <1>4. \A q \in Server : q \notin sv'[q].known /\ Indexed(sv'[q])
    BY <1>1, <1>2 DEF Indexed
  <1>5. \A n \in net' : \/ n \in net
                        \/ n \in VoteRequest /\ n.live /\ n.from = s /\ n.to \in x.known
    BY DEF Campaigns
  <1>6. \A n \in VoteRequest : n \in Message /\ n \notin AppendRequest /\ n.kind = "vote"
    BY DEF Message, VoteRequest, AppendRequest
  <1>7. \A n \in net' : n \in Message /\ n.from # n.to /\
          (n \in AppendRequest /\ n.prev = 0 => n.prevterm = 0)
    BY <1>1, <1>5, <1>6 DEF BaseInv, RaftTypeOK
  <1>8. \A n \in net : n.live => n.from # s
    <2>1. ~Campaigning(s) /\ sv[s].st # "leader"
      BY DEF Campaigns
    <2> QED BY <2>1, AlreadyQuiet
  <1>9. 1 > 0
    BY SMTT(100)
  <1>10. \A n \in net : n.from \in Server
    BY <1>1 DEF Message, VoteRequest, AppendRequest, Response
  <1>11. ASSUME NEW n \in net', LiveVote(n) PROVE Campaigning(n.from)'
    <2>1. CASE n \in net
      <3>1. sv'[n.from] = sv[n.from]
        BY <1>2, <1>8, <1>10, <1>11, <2>1 DEF LiveVote
      <3> QED BY <1>11, <2>1, <3>1 DEF BaseInv, CallsOK, Campaigning
    <2>2. CASE n \notin net
      BY <1>1, <1>2, <1>5, <1>9, <2>2 DEF Campaigning
    <2> QED BY <2>1, <2>2
  <1>12. ASSUME NEW n \in net', LiveAppend(n) PROVE n \in net /\ Pending(n, sv[n.from])'
    <2>1. n \in net
      BY <1>5, <1>6, <1>12 DEF LiveAppend
    <2>2. sv'[n.from] = sv[n.from]
      BY <1>2, <1>8, <1>10, <1>12, <2>1 DEF LiveAppend
    <2> QED BY <1>12, <2>1, <2>2 DEF BaseInv, CallsOK, Pending
  <1>13. ASSUME NEW k \in net', NEW n \in net', LiveAppend(k), LiveAppend(n), k.from = n.from
         PROVE  k = n
    BY <1>12, <1>13 DEF BaseInv, CallsOK
  <1> QED BY <1>1, <1>3, <1>4, <1>7, <1>11, <1>12, <1>13 DEF BaseInv, RaftTypeOK, CallsOK

LEMMA CallBase ==
  ASSUME BaseInv, NEW s, NEW p, NEW x, NEW m, Calls(s, p, x, m)
  PROVE  BaseInv'
  <1>1. /\ sv \in [Server -> ServerRec] /\ net \subseteq Message /\ won' \subseteq Nat \X Server
        /\ \A q \in Server : q \notin sv[q].known /\ Indexed(sv[q])
        /\ s \in Server /\ x \in ServerRec /\ sv' = [sv EXCEPT ![s] = x]
        /\ p \in sv[s].known /\ sv[s].st = "leader"
        /\ x.st = "leader" /\ x.term = sv[s].term /\ x.known = sv[s].known /\ x.log = sv[s].log
        /\ x.next = sv[s].next /\ x.sent = [prev |-> m.prev, num |-> Len(m.entries)]
        /\ m \in AppendRequest /\ m.from = s /\ m.to = p /\ m.term = sv[s].term
        /\ m.prev = sv[s].next[p] - 1
    BY DEF BaseInv, RaftTypeOK, CallsOK, Calls
  <1>2. \A q \in Server : sv'[q] = IF q = s THEN x ELSE sv[q]
    BY <1>1
  <1>3. sv' \in [Server -> ServerRec]
    BY <1>1
  <1>4. \A q \in Server : q \notin sv'[q].known /\ Indexed(sv'[q])
    BY <1>1, <1>2 DEF Indexed
  <1>5. m.prev + Len(m.entries) <= Len(sv[s].log) /\ (m.prev = 0 => m.prevterm = 0)
    BY DEF Calls, Piece, EntryAt, Zero
  <1>6. ASSUME NEW n \in net' \ {m}
        PROVE  /\ n \in Message /\ n.from # n.to /\ n.from \in Server
               /\ n \in AppendRequest /\ n.prev = 0 => n.prevterm = 0
               /\ n.live => n \in net /\ ~(n.kind = "append" /\ n.from = s)
    <2>0. /\ \A k \in net : k.from # k.to
          /\ \A k \in net : k \in AppendRequest /\ k.prev = 0 => k.prevterm = 0
      BY DEF BaseInv, RaftTypeOK
    <2>1. /\ n \in net \/ \E k \in net : k.live /\ k.req /\ n = Late(k)
          /\ n.kind = "append" /\ n.from = s => ~n.live
      BY <1>6 DEF Calls
    <2>2. CASE n \in net
      BY <1>1, <2>0, <2>1, <2>2 DEF Message, VoteRequest, AppendRequest, Response
    <2>3. CASE n \notin net
      <3>1. PICK k \in net : k.req /\ n = Late(k)
        BY <2>1, <2>3
      <3>2. n \in Message /\ n.from = k.from /\ n.to = k.to /\ n.kind = k.kind /\ ~n.live
        BY <1>1, <3>1, LateIs
      <3>3. n.from \in Server
        BY <3>2 DEF Message, VoteRequest, AppendRequest, Response
      <3>4. n \in AppendRequest => k \in AppendRequest
        BY <1>1, <3>1, <3>2 DEF Message, VoteRequest, AppendRequest, Response
      <3>5. n \in AppendRequest => n.prev = k.prev /\ n.prevterm = k.prevterm
        BY <1>1, <3>1, <3>4, LateIs
      <3> QED BY <2>0, <3>1, <3>2, <3>3, <3>4, <3>5
    <2> QED BY <2>2, <2>3
  <1>7. m \in Message /\ m.from # m.to /\ m.kind = "append" /\ m.req
    BY <1>1 DEF Message, AppendRequest
  <1>8. ASSUME NEW n \in net', LiveVote(n) PROVE Campaigning(n.from)'
    <2>1. n \in net /\ n # m
      BY <1>6, <1>7, <1>8 DEF LiveVote
    <2>2. Campaigning(n.from)
      BY <1>8, <2>1 DEF BaseInv, CallsOK
    <2>3. sv'[n.from] = sv[n.from]
      BY <1>1, <1>2, <1>6, <2>1, <2>2 DEF Campaigning
    <2> QED BY <2>2, <2>3 DEF Campaigning
  <1>9. ASSUME NEW n \in net', LiveAppend(n) PROVE Pending(n, sv[n.from])'
    <2>1. CASE n = m
      <3>0. x.sent = [prev |-> m.prev, num |-> Len(m.entries)]
        BY <1>1
      <3>1. x.sent.prev = m.prev /\ x.sent.num = Len(m.entries) /\ sv'[n.from] = x
        BY SMTT(100), <1>1, <1>2, <2>1, <3>0
      <3> QED BY <1>1, <1>5, <1>7, <2>1, <3>1 DEF Pending
    <2>2. CASE n # m
      <3>1. n \in net /\ n.from # s /\ n.from \in Server
        BY <1>6, <1>9, <2>2 DEF LiveAppend
      <3>2. sv'[n.from] = sv[n.from]
        BY <1>2, <3>1
      <3> QED BY <1>9, <3>1, <3>2 DEF BaseInv, CallsOK, Pending
    <2> QED BY <2>1, <2>2
  <1>10. ASSUME NEW k \in net', NEW n \in net', LiveAppend(k), LiveAppend(n), k.from = n.from
         PROVE  k = n
    <2>1. /\ k = m \/ (k \in net /\ k.from # s)
          /\ n = m \/ (n \in net /\ n.from # s)
      BY <1>6, <1>10 DEF LiveAppend
    <2>2. k \in net /\ n \in net => k = n
      BY <1>10 DEF BaseInv, CallsOK
    <2> QED BY <1>1, <1>10, <2>1, <2>2
  <1> QED BY <1>1, <1>3, <1>4, <1>5, <1>6, <1>7, <1>8, <1>9, <1>10
          DEF BaseInv, RaftTypeOK, CallsOK

LEMMA BaseStep ==
  ASSUME BaseInv, Effect
  PROVE  BaseInv'
  <1>0. /\ sv \in [Server -> ServerRec] /\ net \subseteq Message /\ won \subseteq Nat \X Server
        /\ \A q \in Server : q \notin sv[q].known /\ Indexed(sv[q])
    BY DEF BaseInv, RaftTypeOK, CallsOK
  <1>1. ASSUME NEW s \in Server, Wins(s) PROVE won' \subseteq Nat \X Server
    <2>1. sv[s].term \in Nat /\ won' = won \cup {<<sv[s].term, s>>}
      BY <1>0, <1>1 DEF Wins, ServerRec
    <2> QED BY SMTT(100), <1>0, <2>1
  <1>2. ASSUME NEW s, NEW x, NEW G, Resigns(s, x, G) PROVE BaseInv'
    <2>1. won' \subseteq Nat \X Server
      BY <1>0, <1>1, <1>2 DEF Resigns, Retires
    <2> QED BY <1>2, <2>1, RetireBase DEF Resigns, Replies
  <1>3. ASSUME NEW G, Idles(G, {}) PROVE BaseInv'
    BY <1>3, IdleBase DEF Replies
  <1>4. ASSUME NEW m, Unmoved(m) PROVE BaseInv'
    <2>1. m \in net /\ m.req
      BY <1>4 DEF Unmoved
    <2>2. sv[m.to].term \in Nat /\ m.term \in Nat
      BY <1>0, <2>1, RequestIs DEF ServerRec
    <2>3. CASE Idles({m}, {})
      BY <1>3, <2>3
    <2>4. CASE /\ Idles({m}, Reply(m, sv[m.to].term, FALSE))
               /\ m.kind = "append" => m.term < sv[m.to].term
      <3>1. m.kind = "append" => ~(sv[m.to].term <= m.term)
        BY SMTT(100), <2>2, <2>4
      <3>2. Answers(m, Reply(m, sv[m.to].term, FALSE), sv[m.to].term)
        BY <2>1, <2>2, <3>1 DEF Answers
      <3> QED BY <2>4, <3>2, IdleBase DEF Replies
    <2> QED BY <1>4, <2>3, <2>4 DEF Unmoved
  <1>5. ASSUME NEW s, NEW x, Leads(s, x) PROVE BaseInv'
    <2>1. /\ s \in Server /\ x \in ServerRec /\ sv' = [sv EXCEPT ![s] = x] /\ Wins(s)
          /\ x.known = sv[s].known /\ Quiet(s, {}, {})
          /\ x.log = sv[s].log \/ Grown(sv[s], x.log)
          /\ \A p \in Server : x.next[p] = Len(sv[s].log) + 1
      BY <1>5 DEF Leads
    <2>2. sv[s].log \in Seq(Entry) /\ x.log \in Seq(Entry)
      BY <1>0, <2>1 DEF ServerRec
    <2>3. Len(sv[s].log) + 1 \in 1..Len(x.log) + 1
      <3>1. CASE x.log = sv[s].log
        BY SMTT(100), <2>2, <3>1
      <3>2. CASE Grown(sv[s], x.log)
        <4>1. PICK e : x.log = Append(sv[s].log, e)
          BY <3>2 DEF Grown
        <4> QED BY SMTT(100), <2>2, <4>1
      <3> QED BY <2>1, <3>1, <3>2
    <2>4. Indexed(x)
      BY <2>1, <2>3 DEF Indexed
    <2> QED BY <1>0, <1>1, <2>1, <2>4, QuietBase DEF Replies
  <1>6. ASSUME NEW s, NEW x, Allocates(s, x) PROVE BaseInv'
    <2>1. /\ s \in Server /\ x \in ServerRec /\ sv' = [sv EXCEPT ![s] = x] /\ won' = won /\ net' = net
          /\ sv[s].st = "leader" /\ Len(x.log) = Len(sv[s].log) + 1 /\ x.st = "leader"
          /\ x.term = sv[s].term /\ x.known = sv[s].known /\ x.votes = sv[s].votes
          /\ x.sent = sv[s].sent /\ x.next = sv[s].next
      BY <1>6 DEF Allocates
    <2>2. sv[s].log \in Seq(Entry) /\ x.log \in Seq(Entry) /\ sv[s].next \in [Server -> Int]
      BY <1>0, <2>1 DEF ServerRec
    <2>3. Len(sv[s].log) <= Len(x.log) /\ \A i \in 1..Len(sv[s].log) + 1 : i \in 1..Len(x.log) + 1
      BY SMTT(100), <2>1, <2>2
    <2>4. \A q \in Server : sv'[q] = IF q = s THEN x ELSE sv[q]
      BY <1>0, <2>1
    <2>5. ASSUME NEW q \in Server PROVE Steady(q) /\ q \notin sv'[q].known /\ Indexed(sv'[q])
      <3>1. CASE q = s
        BY <1>0, <2>1, <2>3, <2>4, <3>1 DEF Steady, Campaigning, Indexed
      <3>2. CASE q # s
        <4>1. sv'[q] = sv[q]
          BY <2>4, <3>2
        <4> QED BY <4>1, SameIsSteady
      <3> QED BY <3>1, <3>2
    <2>6. sv' \in [Server -> ServerRec]
      BY <1>0, <2>1
    <2>7. NetStep({}, {}) /\ Replies({}, {}, 0)
      BY <2>1 DEF NetStep, Replies
    <2>8. \A n \in net' : n.from \in Server
      BY <2>7, NetFrom
    <2> QED BY <1>0, <2>1, <2>5, <2>6, <2>7, <2>8, BaseKept
  <1>7. ASSUME NEW m, NEW x, Counts(m, x) PROVE BaseInv'
    <2> DEFINE s == m.from
    <2>1. /\ s \in Server /\ x \in ServerRec /\ sv' = [sv EXCEPT ![s] = x] /\ won' = won
          /\ net' = net \ {m} /\ Campaigning(s) /\ x.votes = sv[s].votes + 1 /\ x.st = sv[s].st
          /\ x.term = sv[s].term /\ x.known = sv[s].known /\ x.log = sv[s].log
          /\ x.sent = sv[s].sent /\ x.next = sv[s].next
      BY <1>7 DEF Counts
    <2>2. sv[s].log \in Seq(Entry) /\ sv[s].votes \in Nat
      BY <1>0, <2>1 DEF ServerRec
    <2>3. Len(sv[s].log) <= Len(x.log) /\ x.votes > 0
      BY SMTT(100), <2>1, <2>2
    <2>4. \A q \in Server : sv'[q] = IF q = s THEN x ELSE sv[q]
      BY <1>0, <2>1
    <2>5. ASSUME NEW q \in Server PROVE Steady(q) /\ q \notin sv'[q].known /\ Indexed(sv'[q])
      <3>1. CASE q = s
        BY <1>0, <2>1, <2>3, <2>4, <3>1 DEF Steady, Campaigning, Indexed
      <3>2. CASE q # s
        <4>1. sv'[q] = sv[q]
          BY <2>4, <3>2
        <4> QED BY <4>1, SameIsSteady
      <3> QED BY <3>1, <3>2
    <2>6. sv' \in [Server -> ServerRec]
      BY <1>0, <2>1
    <2>7. NetStep({m}, {}) /\ Replies({m}, {}, 0)
      BY <2>1 DEF NetStep, Replies
    <2>8. \A n \in net' : n.from \in Server
      BY <2>7, NetFrom
    <2> QED BY <1>0, <2>1, <2>5, <2>6, <2>7, <2>8, BaseKept
  <1>8. ASSUME NEW m, NEW x, Answered(m, x) PROVE BaseInv'
    <2> DEFINE s == m.from
               r == sv[s]
               p == m.to
    <2>1. /\ s \in Server /\ p \in Server /\ x \in ServerRec /\ sv' = [sv EXCEPT ![s] = x]
          /\ won' = won /\ net' = net \ {m} /\ x.st = r.st /\ x.known = r.known /\ x.log = r.log
          /\ m \in net /\ m \in Response /\ m.kind = "append" /\ Pending(m, r) /\ m.term <= r.term
          /\ \A q \in Server \ {p} : x.next[q] = r.next[q]
          /\ m.ok => x.next[p] = r.next[p] + r.sent.num
          /\ ~m.ok => x.next[p] = r.next[p] - 1
      BY <1>8 DEF Answered
    <2>2. /\ r.log \in Seq(Entry) /\ r.next \in [Server -> Int] /\ r.sent \in [prev : Nat, num : Nat]
          /\ Indexed(r) /\ ~m.req /\ m.live
      BY <1>0, <2>1 DEF ServerRec, Response
    <2>3. /\ r.st = "leader" /\ r.sent.prev = r.next[p] - 1 /\ r.sent.prev + r.sent.num <= Len(r.log)
          /\ ~m.ok => r.sent.prev > 0
      BY <2>1, <2>2 DEF Pending
    <2>4. r.next[p] \in 1..Len(r.log) + 1
      BY <2>1, <2>2, <2>3 DEF Indexed
    <2>5. \A n, v, u, l : /\ n \in Int /\ v \in Nat /\ u \in Nat /\ l \in Nat /\ n \in 1..l + 1
                          /\ u = n - 1 /\ u + v <= l
                          => n + v \in 1..l + 1 /\ (u > 0 => n - 1 \in 1..l + 1)
      BY SMTT(100)
    <2>6. Len(r.log) \in Nat /\ r.sent.prev \in Nat /\ r.sent.num \in Nat /\ r.next[p] \in Int
      <3>1. Len(r.log) \in Nat
        BY SMTT(100), <2>2
      <3> QED BY <2>1, <2>2, <3>1
    <2>7. x.next[p] \in 1..Len(r.log) + 1
      <3>1. /\ r.next[p] + r.sent.num \in 1..Len(r.log) + 1
            /\ r.sent.prev > 0 => r.next[p] - 1 \in 1..Len(r.log) + 1
        BY <2>3, <2>4, <2>5, <2>6
      <3> QED BY <2>1, <2>3, <3>1
    <2>8. Indexed(x)
      BY <2>1, <2>2, <2>7 DEF Indexed
    <2>9. \A n \in net' : n.live => n.from # s
      <3>1. \A n \in Message : n.kind \in {"vote", "append"}
        BY DEF Message, VoteRequest, AppendRequest, Response, BothCalls
      <3> QED BY <1>0, <2>1, <2>2, <2>3, <3>1
              DEF BaseInv, CallsOK, LiveVote, LiveAppend, Campaigning
    <2>10. Quiet(s, {m}, {})
      BY <2>1, <2>9 DEF Quiet, NetStep
    <2> QED BY <1>0, <2>1, <2>8, <2>10, QuietBase DEF Replies
  <1>9. ASSUME NEW m, NEW x, NEW ok \in BOOLEAN, m \in net, m.req, won' = won,
               Retires(m.to, x, {m}, Reply(m, x.term, ok)),
               m.kind = "append" /\ ~ok => m.prev > 0
        PROVE  BaseInv'
    <2>1. x.term \in Nat
      BY <1>9 DEF Retires, ServerRec
    <2>2. Answers(m, Reply(m, x.term, ok), x.term)
      BY <1>9, <2>1 DEF Answers
    <2> QED BY <1>0, <1>9, <2>2, RetireBase DEF Replies
  <1>10. ASSUME NEW m, NEW x, VoteRefused(m, x) \/ VoteGranted(m, x) PROVE BaseInv'
    <2>1. m.req /\ m.kind = "vote"
      BY <1>10 DEF VoteRefused, VoteGranted, VoteRequest
    <2> QED BY <1>9, <1>10, <2>1 DEF VoteRefused, VoteGranted
  <1>11. ASSUME NEW m, NEW x, LogBroken(m, x) PROVE BaseInv'
    BY <1>0, <1>11, RetireBase DEF LogBroken, Replies
  <1>12. ASSUME NEW m, NEW x, NEW ok, LogTaken(m, x, ok) PROVE BaseInv'
    <2>1. m.req /\ m.kind = "append"
      BY <1>12 DEF LogTaken, AppendRequest
    <2> QED BY <1>9, <1>12, <2>1 DEF LogTaken
  <1> QED BY <1>2, <1>3, <1>4, <1>5, <1>6, <1>7, <1>8, <1>10, <1>11, <1>12, CampaignBase, CallBase
          DEF Effect

\* The indices of a leader stay between 1 and one past its log, it has one call of
\* AppendEntries at most, and what it has kept aside is what that call carried; only a
\* candidate that has voted for itself waits for votes.
THEOREM CallsAreTheCallers == RaftSpec => []BaseInv
  <1>1. BaseInv /\ [RaftNext]_raftVars => BaseInv'
    BY StepIs, BaseStep
  <1> QED BY <1>1, BaseInit, PTL DEF RaftSpec
=============================================================================
