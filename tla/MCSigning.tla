------------------------------- MODULE MCSigning -------------------------------
(***************************************************************************)
(* The instances of Signing that TLC checks.  Payouts draw request ids of  *)
(* their own (attempts stand for their ids); the treasury's caller uses    *)
(* one id twice.                                                           *)
(***************************************************************************)
EXTENDS Signing

CONSTANTS p, q, id, m, a1, a2

MCRequest == [d \in Drivers |-> [a \in Attempts |-> IF d = "treasury" THEN id ELSE a]]

\* A remote payout and its retry want one message signed, others each its own.
MCSighash == [d \in Drivers |-> [a \in Attempts |-> IF d = "remote" THEN m ELSE a]]

\* In one process: two actions for p, and nothing of the vault's to sign for q.
MCAlphasOf ==
  [d \in Drivers |-> [a \in Attempts |->
     CASE d = "local" /\ a = p -> <<a1, a2>>
       [] d = "local" /\ a = q -> << >>
       [] OTHER -> <<a1>>]]

Backwards == [i \in 1 .. N |-> N + 1 - i]

\* One custodian is lost: what the vault can spare in round one, and too much in
\* round two.  In one process nothing is.
MCMaxLost == [d \in Drivers |-> IF d = "local" THEN 0 ELSE 1]
MCHorizon == [d \in Drivers |-> IF d = "remote" THEN 1 ELSE 0]
=============================================================================
