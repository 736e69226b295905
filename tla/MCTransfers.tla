---------------------------- MODULE MCTransfers -----------------------------
(***************************************************************************)
(* An instance of Transfers for TLC: two requests, one request for         *)
(* metadata, and one file, on the agent's filesystem (s) or on another (t). *)
(***************************************************************************)
EXTENDS Transfers

CONSTANTS m1, m2, r1, s, t, d1, d2, a, e

MCDev == [n \in {s, t, d1, d2} |-> IF n = t THEN 2 ELSE 1]
MCCrc == [c \in {a, e} |-> IF c = a THEN 1 ELSE 0]
MCDests == [m \in {m1, m2} |-> IF m = m1 THEN {d1} ELSE {d2}]

\* One failure on either path.
SomeFaults == {"rename", "write"}

\* Requests for different files meet nowhere, so at most one of the files is there.
OneFileInit == TransferInit /\ (fs[s] = None \/ fs[t] = None)
OneFileSpec ==
  /\ OneFileInit /\ [][TransferNext]_transferVars
  /\ \A m \in Movers : WF_transferVars(SendStep(m))
=============================================================================
