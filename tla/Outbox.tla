------------------------------- MODULE Outbox -------------------------------
(***************************************************************************)
(* What the transfers directory promises the collector: every file is      *)
(* offered at most once, as a complete pair that appears in one step and   *)
(* never comes back after it is gone.                                      *)
(***************************************************************************)
CONSTANTS Requests, Files

VARIABLES
  used,  \* the files that have been taken from their applications
  box    \* box[m]: the file request m offers, or where its offer stands

outboxVars == <<used, box>>

OutboxInit ==
  /\ used = {}
  /\ box = [m \in Requests |-> "before"]

\* The pair of m appears, with a file no other request has used.
Offer(m, f) ==
  /\ box[m] = "before"
  /\ f \notin used
  /\ used' = used \cup {f}
  /\ box' = [box EXCEPT ![m] = f]

\* The file of m is taken, but its metadata has been moved to the dead-letter
\* directory or was never written, and the pair never appears.
Miss(m, f) ==
  /\ box[m] = "before"
  /\ f \notin used
  /\ used' = used \cup {f}
  /\ box' = [box EXCEPT ![m] = "after"]

\* The pair is collected or endeadened.
Withdraw(m) ==
  /\ box[m] \in Files
  /\ box' = [box EXCEPT ![m] = "after"]
  /\ UNCHANGED used

OutboxNext ==
  \E m \in Requests :
    \/ \E f \in Files : Offer(m, f) \/ Miss(m, f)
    \/ Withdraw(m)

OutboxSpec == OutboxInit /\ [][OutboxNext]_outboxVars
=============================================================================
