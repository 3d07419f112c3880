--------------------------- MODULE ThresholdSigning ---------------------------
(***************************************************************************)
(* What signing with a vault promises, without rounds, nonces or networks  *)
(* (README of the repository, "t of n"; src/payout.rs sign_all_with,       *)
(* src/ed25519.rs sign_with and sign_across): share holders endorse        *)
(* attempts, and an attempt becomes a signature only on the endorsement of *)
(* at least a threshold of them.  An endorsement is for one attempt: those *)
(* of two attempts never add up.                                           *)
(***************************************************************************)
EXTENDS Integers, FiniteSets

CONSTANTS Holders, Attempts, Threshold

VARIABLES
  endorsed,  \* endorsed[a]: the holders that released their shares for a
  signed     \* the attempts that ended in a signature

Init ==
  /\ endorsed = [a \in Attempts |-> {}]
  /\ signed = {}

(***************************************************************************)
(* A holder endorses an attempt, which may be signed without it already.   *)
(***************************************************************************)
Endorse(a, h) ==
  /\ h \notin endorsed[a]
  /\ UNCHANGED signed
  /\ endorsed' = [endorsed EXCEPT ![a] = @ \cup {h}]

Sign(a) ==
  /\ Cardinality(endorsed[a]) >= Threshold
  /\ signed' = signed \cup {a}
  /\ UNCHANGED endorsed

Next == \E a \in Attempts : Sign(a) \/ \E h \in Holders : Endorse(a, h)

Spec == Init /\ [][Next]_<<endorsed, signed>>
=============================================================================
