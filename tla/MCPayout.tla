------------------------------- MODULE MCPayout -------------------------------
(***************************************************************************)
(* The instances of Payout that TLC checks: p pays a transparent address,  *)
(* q a shielded and a transparent one.  Values are in halves of a marginal *)
(* fee.                                                                    *)
(***************************************************************************)
EXTENDS Payout

CONSTANTS p, q

MCOwed == [w \in Wants |-> IF w = p THEN 3 ELSE 1]
MCShielded == [w \in Wants |-> IF w = p THEN 0 ELSE 1]
MCTransparent == [w \in Wants |-> 1]

\* One note; two of which one is enough; three of which two are taken and need a
\* higher fee; many small ones, of which a higher fee takes more.
MCWallets == {<<20>>, <<12, 30>>, <<8, 3, 4>>, <<3, 3, 3, 3, 3>>}
=============================================================================
