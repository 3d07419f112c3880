------------------------------- MODULE Ceremony -------------------------------
(***************************************************************************)
(* The rounds of the distributed key generation (ceremony.rs, dkg_net.rs,  *)
(* ed25519.rs) as functions of the packages a participant holds.           *)
(*                                                                         *)
(* A participant may run more than once under its identifier; a run draws  *)
(* its own polynomial and sealing key, so a package is known by the number *)
(* of the run that made it, 0 being no package.  What a participant has    *)
(* seen, one package an identifier, is then also the group key it derives: *)
(* the key is the sum of exactly these commitments, and the sums of two    *)
(* different sets of random polynomials differ.                            *)
(***************************************************************************)
EXTENDS Naturals, FiniteSets

NoPackage == 0

(* Ceremony::new *)
NewCeremony(threshold, participants) ==
  CASE participants < 2 -> "TooFewParticipants"
    [] participants >= 2 /\ (threshold = 0 \/ threshold > participants)
         -> "ThresholdNotAMajority"
    [] participants >= 2 /\ threshold \in 1 .. participants
         -> IF 2 * threshold <= participants THEN "ThresholdNotAMajority" ELSE "Ok"

(* Treasury::provision *)
Provision(threshold, participants) ==
  IF threshold < 2 \/ threshold > participants THEN "Crypto" ELSE "Ok"

(* Round one: a participant starts out holding its own package. *)
Part1(ids, me, run) == [id \in ids |-> IF id = me THEN run ELSE NoPackage]

(* Round two's precondition: a package of everyone. *)
Complete(seen) == \A id \in DOMAIN seen : seen[id] # NoPackage

(* What the sender with these packages seals to a peer: a package that names the
   run it comes from and the run whose sealing key it was sealed to. *)
Sealed(from, seen, to) == [by |-> seen[from], for |-> seen[to]]

\* Mutant of Opens: opened whichever run it was sealed to.
OpensForAnyRun(me, seen, from, package) == package.by = seen[from]

(* Only the run it was sealed to opens it, and only with the sealing key of the
   run that sealed it, which arrived with that run's commitment. *)
Opens(me, seen, from, package) ==
  package.by = seen[from] /\ package.for = seen[me]

\* Mutant of Part3Fits: the participant waits for a package from itself, too.
Part3FitsOwnToo(me, seen, packages) == DOMAIN packages = DOMAIN seen

(* Round three: a package of every other participant, and each of them opens.  The
   result is the group key. *)
Part3Fits(me, seen, packages) ==
  /\ DOMAIN packages = DOMAIN seen \ {me}
  /\ \A from \in DOMAIN packages : Opens(me, seen, from, packages[from])

(* run_in_memory_for: the rounds with every participant in one process, and what each
   derives. *)
RunInMemory(ids, run) ==
  LET seen == [me \in ids |->
                 [id \in ids |-> IF id = me THEN Part1(ids, me, run[me])[id] ELSE run[id]]]
      r2   == [me \in ids |-> [from \in ids \ {me} |-> Sealed(from, seen[from], me)]]
  IN [me \in ids |->
        IF Complete(seen[me]) /\ Part3Fits(me, seen[me], r2[me]) THEN seen[me] ELSE << >>]

DisagreedOnGroupKey(keys) == \E a, b \in DOMAIN keys : keys[a] # keys[b]

(* Ceremony::run_for: the same rounds, where sealing has nobody to hide from, and the
   comparison of the group keys; empty if they differ. *)
RunFor(ids, run) == {keys \in {RunInMemory(ids, run)} : ~DisagreedOnGroupKey(keys)}
===============================================================================
