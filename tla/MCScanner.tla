------------------------------- MODULE MCScanner -------------------------------
(***************************************************************************)
(* The instances of Scanner that TLC checks: deposit 1 names its account   *)
(* in a memo, 2 is attributed by a human and in the other pool, 3 arrives  *)
(* at an address issued for its account.                                   *)
(***************************************************************************)
EXTENDS Scanner

MCPoolOf == [d \in Deposits |-> IF d = 2 THEN "ironwood" ELSE "orchard"]
MCNames ==
  [d \in Deposits |-> CASE d = 1 -> "memo" [] d = 2 -> "attributed" [] d = 3 -> "address"]

OneIfExclusive == [e \in BOOLEAN |-> IF e THEN 1 ELSE 0]
NoReseed == [e \in BOOLEAN |-> 0]
=============================================================================
