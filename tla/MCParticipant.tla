---------------------------- MODULE MCParticipant ----------------------------
(***************************************************************************)
(* The instances of Participant that TLC checks.  A coordinator may put    *)
(* any nonce, its own or a stale one, beside the holder's identifier, and  *)
(* may leave the holder or the co-signer out.                              *)
(***************************************************************************)
EXTENDS Participant, TLC

CONSTANTS h1, h2, r1, r2, m1, m2, a1, a2

MCAlphaVectors == {<<a1>>, <<a1, a2>>, <<a2, a1>>}

\* h1's entry is any of its nonces; h2 co-signs with its first nonce, and
\* beside h1's first also with its second, so that one nonce may be asked for
\* two packages.
MCCommitmentMaps ==
  {(h1 :> n) @@ (h2 :> 1) : n \in Nonces} \cup {(h1 :> 1) @@ (h2 :> 2), h1 :> 1, h2 :> 1}

MCPackageLists ==
  {<< >>} \cup {<<p>> : p \in Package} \cup {<<p, q>> : p, q \in Package}

CallSymmetry == Permutations(RequestIds) \cup Permutations(Sighashes)
=============================================================================
