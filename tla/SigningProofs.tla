----------------------------- MODULE SigningProofs -----------------------------
(***************************************************************************)
(* What is proved of Signing for every number of custodians, attempts,     *)
(* drivers and actions.                                                    *)
(*                                                                         *)
(* The attempts are one of the callers module Participant allows           *)
(* (DrivesParticipants), so what is proved there of nonces holds here.     *)
(*                                                                         *)
(* The argument for OnlyChosenContribute.  Who is chosen for an attempt,   *)
(* and over what packages, is settled when its round one ends (Settled).   *)
(* Round two of an attempt is called, in time or late, only after that     *)
(* (LateIsSettled), and a participant releases shares for packages that    *)
(* list it only.                                                           *)
(*                                                                         *)
(* The argument for ImplementsThresholdSigning.  Attempts draw nonces      *)
(* apart from each other (NoncesApart), so no package is of two attempts   *)
(* and a round two endorses one attempt.  A coordinator's shares are       *)
(* released ones of those it chose (SharesKept), so when they aggregate a  *)
(* threshold has endorsed its attempt.                                     *)
(*                                                                         *)
(* The argument for FailsForCause.  OwnInv says, of an attempt whose       *)
(* request id no other has, that whoever round one called has answered or  *)
(* was lost, that a participant that answered keeps the request open until *)
(* round two calls it, and that the chosen ones called so far have given   *)
(* shares that aggregate.  The steps of others are Away from the attempt.  *)
(***************************************************************************)
EXTENDS Signing, DataLemmas

PP == INSTANCE ParticipantProofs

Past == {"round2", "signed", "failed"}

(* What an attempt was answered lies within what its participants drew. *)
NoncesDrawn ==
  /\ \A h \in Holders : drawn[h] <= MaxNonces
  /\ \A a \in Attempts : \A h \in Holders :
       r1[a][h] # 0 => r1[a][h] + Len(AlphasOf[driver][a]) - 1 <= drawn[h]

(* The type of everything but the shares, which takes more to show. *)
Base ==
  /\ driver \in Drivers
  /\ phase \in [Attempts -> {"idle", "nothing", "round1"} \cup Past]
  /\ next \in [Attempts -> 1 .. N + 1]
  /\ r1 \in [Attempts -> [Holders -> Nat]]
  /\ late \subseteq Frame
  /\ lost \in [Attempts -> SUBSET Holders]
  /\ began \in [Attempts -> Nat]
  /\ P!TypeOK
  /\ NoncesDrawn

LateIsSettled == \A f \in late : f.round = 2 => phase[f.attempt] \in Past

NoncesApart ==
  \A a, b \in Attempts : \A h \in Holders :
    a # b /\ r1[a][h] # 0 /\ r1[b][h] # 0 =>
      \/ r1[a][h] + Len(AlphasOf[driver][a]) <= r1[b][h]
      \/ r1[b][h] + Len(AlphasOf[driver][b]) <= r1[a][h]

SharesKept ==
  \A a \in Attempts : \A h \in Holders :
    /\ \A i \in DOMAIN r2[a][h] : r2[a][h][i] \in released
    /\ r2[a][h] # << >> => phase[a] \in Past /\ h \in Chosen(a)

ToSign == \A a \in Attempts : phase[a] \in Past \cup {"round1"} => Actions(a) # {}

IInv ==
  /\ r2 \in [Attempts -> [Holders -> Seq(P!ShareType)]]
  /\ LateIsSettled /\ OnlyChosenContribute /\ NoncesApart /\ SharesKept /\ ToSign
-----------------------------------------------------------------------------
(***************************************************************************)
(* What the attempts ask of participants is what module Participant        *)
(* assumes that anybody may ask.                                           *)
(***************************************************************************)
LEMMA Asked ==
  ASSUME driver \in Drivers, NEW a \in Attempts
  PROVE  /\ Request[driver][a] \in RequestIds
         /\ Sighash[driver][a] \in Sighashes
         /\ AlphasOf[driver][a] \in AlphaVectors
         /\ DOMAIN AlphasOf[driver][a] = 1 .. Len(AlphasOf[driver][a])
         /\ Len(AlphasOf[driver][a]) \in Nat
BY AlphasAssumption DEF RequestIds, Sighashes, AlphaVectors

(***************************************************************************)
(* The packages of an attempt that was answered within what participants   *)
(* draw are packages as participants know them, one per action.            *)
(***************************************************************************)
LEMMA PackagesTyped ==
  ASSUME Base, NEW a \in Attempts
  PROVE  /\ Packages(a) \in PackageLists
         /\ Len(Packages(a)) = Len(AlphasOf[driver][a])
         /\ DOMAIN Packages(a) = Actions(a)
<1>1. /\ driver \in Drivers
      /\ Len(AlphasOf[driver][a]) \in Nat
      /\ Sighash[driver][a] \in Sighashes
  BY Asked DEF Base
<1>2. ASSUME NEW i \in Actions(a), NEW h \in Chosen(a)
      PROVE  r1[a][h] + i - 1 \in 1 .. MaxNonces
  <2>1. h \in Holders /\ r1[a][h] \in Nat /\ r1[a][h] # 0
    BY DEF Chosen, Committed, Base
  <2>2. drawn[h] \in Nat /\ MaxNonces \in Nat
    BY <2>1, TimeAssumption DEF Base, P!TypeOK
  <2>3. r1[a][h] + Len(AlphasOf[driver][a]) - 1 <= drawn[h] /\ drawn[h] <= MaxNonces
    BY <2>1 DEF Base, NoncesDrawn
  <2>4. PICK c, n, d : c = r1[a][h] /\ n = Len(AlphasOf[driver][a]) /\ d = drawn[h]
    OBVIOUS
  <2>5. i \in 1 .. n /\ n \in Nat /\ c \in Nat /\ c # 0 /\ d \in Nat
    BY <1>1, <2>1, <2>2, <2>4 DEF Actions
  <2>6. c + n - 1 <= d /\ d <= MaxNonces
    BY <2>3, <2>4
  <2>7. c + i - 1 \in 1 .. MaxNonces
    BY <2>2, <2>5, <2>6
  <2>. QED
    BY <2>4, <2>7
<1>3. Chosen(a) \in SUBSET Holders
  BY DEF Chosen, Committed
<1>4. \A i \in Actions(a) : [h \in Chosen(a) |-> r1[a][h] + i - 1] \in CommitmentMaps
  BY <1>2, <1>3 DEF CommitmentMaps
<1>5. Packages(a) \in [1 .. Len(AlphasOf[driver][a]) ->
                         [message : Sighashes, commitments : CommitmentMaps]]
  BY <1>1, <1>4 DEF Packages, Actions
<1>6. /\ Packages(a) \in Seq([message : Sighashes, commitments : CommitmentMaps])
      /\ Len(Packages(a)) = Len(AlphasOf[driver][a])
  BY <1>1, <1>5, FunctionIsSequence, Zenon
<1>7. DOMAIN Packages(a) = Actions(a)
  BY Zenon DEF Packages
<1>. QED
  BY <1>6, <1>7, Zenon DEF PackageLists

(***************************************************************************)
(* The latest time any driver lets the clock reach.                        *)
(***************************************************************************)
LEMMA MaxTimeBounds ==
  /\ MaxTime \in Nat
  /\ \A d \in Drivers : Horizon[d] <= MaxTime
<1>. DEFINE S == {Horizon[d] : d \in Drivers}
<1>1. S \in SUBSET Nat
  BY TimeAssumption
<1>2. \A d \in Drivers : d = "remote" \/ d = "local" \/ d = "treasury"
  BY DriverAssumption
<1>3. \E m \in S : \A n \in S : m >= n
  <2>. DEFINE R == IF "remote" \in Drivers THEN Horizon["remote"] ELSE 0
              C == IF "local" \in Drivers THEN Horizon["local"] ELSE 0
              T == IF "treasury" \in Drivers THEN Horizon["treasury"] ELSE 0
  <2>1. R \in Nat /\ C \in Nat /\ T \in Nat
    BY TimeAssumption
  <2>2. \A n \in S : n \in Nat /\ (n <= R \/ n <= C \/ n <= T)
    BY <1>1, <1>2
  <2>3. /\ R \in S \/ R = 0
        /\ C \in S \/ C = 0
        /\ T \in S \/ T = 0
    OBVIOUS
  <2>4. S # {}
    BY DriverAssumption
  <2>. HIDE DEF R, C, T, S
  <2>. QED
    BY <2>1, <2>2, <2>3, <2>4
<1>. QED
  BY <1>1, <1>3 DEF MaxTime, Max

(***************************************************************************)
(* What module Participant assumes of its constants holds here.            *)
(***************************************************************************)
LEMMA Assumed ==
  /\ Threshold \in Nat
  /\ REQUEST_TTL_SECS \in Nat \ {0}
  /\ MaxNonces \in Nat /\ MaxTime \in Nat
  /\ \A alphas \in AlphaVectors : /\ DOMAIN alphas = 1 .. Len(alphas)
                                  /\ Len(alphas) \in Nat
  /\ \A packages \in PackageLists : \A i \in DOMAIN packages : packages[i] \in PP!Package
<1>1. \A alphas \in AlphaVectors : /\ DOMAIN alphas = 1 .. Len(alphas)
                                   /\ Len(alphas) \in Nat
  BY AlphasAssumption DEF AlphaVectors
<1>2. ASSUME NEW packages \in PackageLists, NEW i \in DOMAIN packages
      PROVE  packages[i] \in PP!Package
  <2>1. packages \in Seq(PP!Package)
    BY Zenon DEF PackageLists, PP!Package
  <2>. QED
    BY <2>1, LenProperties, ElementOfSeq
<1>3. /\ Threshold \in Nat
      /\ REQUEST_TTL_SECS \in Nat \ {0}
      /\ MaxNonces \in Nat /\ MaxTime \in Nat
  BY SizeAssumption, TimeAssumption, MaxTimeBounds
<1>. QED
  BY <1>1, <1>2, <1>3, Zenon

(***************************************************************************)
(* The two instances of Participant, with its proofs and without, are one. *)
(***************************************************************************)
LEMMA SameListed ==
  \A h, package, nonce : P!Listed(h, package, nonce) = PP!Listed(h, package, nonce)
BY DEF P!Listed, PP!Listed, P!Cardinality, PP!Cardinality, P!IsFiniteSet, PP!IsFiniteSet

(***************************************************************************)
(* They refuse the same packages.                                          *)
(***************************************************************************)
LEMMA SameSignable ==
  \A h, r, packages : P!Signable(h, r, packages) = PP!Signable(h, r, packages)
BY SameListed DEF P!Signable, PP!Signable, P!Nonce, PP!Nonce

(***************************************************************************)
(* They take the same steps.                                               *)
(***************************************************************************)
LEMMA SameNext == P!Next = PP!Next
<1>1. \A h, r, packages, i : P!Share(h, r, packages, i) = PP!Share(h, r, packages, i)
  BY DEF P!Share, PP!Share, P!Nonce, PP!Nonce
<1>2. \A h : P!Unexpired(h) = PP!Unexpired(h)
  BY DEF P!Unexpired, PP!Unexpired, P!Expired, PP!Expired, P!Age, PP!Age
<1>3. \A h, id, packages : P!Round2(h, id, packages) = PP!Round2(h, id, packages)
  BY <1>1, SameSignable DEF P!Round2, PP!Round2
<1>. QED
  BY <1>2, <1>3, SameSignable
  DEF P!Next, PP!Next, P!Round1, PP!Round1, P!Round1AlreadyOpen, PP!Round1AlreadyOpen,
      P!Round2Refused, PP!Round2Refused, P!DropExpired, PP!DropExpired,
      P!Restart, PP!Restart, P!SetClock, PP!SetClock

-----------------------------------------------------------------------------
(***************************************************************************)
(* Every step of the attempts is one the participants allow.               *)
(***************************************************************************)
LEMMA StepsAreCalls ==
  ASSUME Base, [Next]_vars
  PROVE  [P!Next]_participants
<1>1. /\ driver \in Drivers
      /\ \A a \in Attempts : \A n \in 1 .. N : Addresses[n] \in Holders
  BY AddressesAssumption DEF Base
<1>. DEFINE Calls(a, h) ==
       \/ P!Round1(h, Request[driver][a], Sighash[driver][a], AlphasOf[driver][a])
       \/ P!Round1AlreadyOpen(h, Request[driver][a])
       \/ P!Round2(h, Request[driver][a], Packages(a))
       \/ P!Round2Refused(h, Request[driver][a], Packages(a))
<1>2. ASSUME NEW a \in Attempts, NEW h \in Holders, Calls(a, h)
      PROVE  P!Next
  BY <1>1, <1>2, Asked, PackagesTyped DEF P!Next
<1>3. ASSUME NEW a \in Attempts, Coordinate(a)
      PROVE  [P!Next]_participants
  <2>1. next[a] <= N => Addresses[next[a]] \in Holders
    BY <1>1, SizeAssumption DEF Base
  <2>2. CASE Round1Answered(a) \/ Round1Refused(a)
    BY <2>1, <2>2, <1>2 DEF Round1Answered, Round1Refused, MoreToCommit
  <2>3. CASE Round2Answered(a) \/ Round2Refused(a)
    BY <2>1, <2>3, <1>2 DEF Round2Answered, Round2Refused, MoreToSign
  <2>4. CASE \/ Round1Missed(a) \/ EndRound1(a) \/ Round2Missed(a) \/ PassOver(a)
             \/ EndRound2(a)
    BY <2>4 DEF Round1Missed, EndRound1, Round2Missed, PassOver, EndRound2, Missed
  <2>. QED
    BY <1>3, <2>2, <2>3, <2>4 DEF Coordinate
<1>4. ASSUME NEW f \in late, LateRound1(f) \/ LateRound2(f)
      PROVE  [P!Next]_participants
  <2>1. f.attempt \in Attempts /\ f.to \in Holders
    BY DEF Base, Frame
  <2>. QED
    BY <1>2, <1>4, <2>1 DEF LateRound1, LateRound2
<1>5. ASSUME NEW h \in Holders, Restart(h)
      PROVE  P!Next
  BY <1>5 DEF Restart, P!Next
<1>6. ASSUME Tick
      PROVE  P!Next
  <2>1. now + 1 \in 0 .. MaxTime
    <3>1. now \in Nat /\ Horizon[driver] \in Nat
      BY <1>1, TimeAssumption DEF Base, P!TypeOK
    <3>. QED
      BY <1>1, <1>6, <3>1, MaxTimeBounds DEF Tick
  <2>. QED
    BY <1>6, <2>1 DEF Tick, P!Next
<1>7. ASSUME NEW a \in Attempts, Start(a)
      PROVE  UNCHANGED participants
  BY <1>7 DEF Start, NothingToSign, Begin
<1>. QED
  BY <1>3, <1>4, <1>5, <1>6, <1>7 DEF Next, Environment, vars

(***************************************************************************)
(* The types of the participants, in both instances.                       *)
(***************************************************************************)
LEMMA SameTypes == /\ P!TypeOK = PP!TypeOK /\ P!TypeOK' = PP!TypeOK'
                   /\ P!ShareType = PP!ShareType
BY DEF P!TypeOK, PP!TypeOK, P!Live, PP!Live, P!ShareType, PP!ShareType, P!Package, PP!Package

(***************************************************************************)
(* Nonces are only ever drawn, and within the bound.                       *)
(***************************************************************************)
LEMMA DrawnGrows ==
  ASSUME Base, [Next]_vars, NEW h \in Holders
  PROVE  drawn[h] \in Nat /\ drawn'[h] \in Nat /\ drawn[h] <= drawn'[h] /\ drawn'[h] <= MaxNonces
<1>1. drawn \in [Holders -> Nat] /\ drawn[h] <= MaxNonces /\ MaxNonces \in Nat
  BY TimeAssumption DEF Base, NoncesDrawn, P!TypeOK
<1>2. CASE \E g \in Holders, id \in RequestIds, sighash \in Sighashes, alphas \in AlphaVectors :
             P!Round1(g, id, sighash, alphas)
  <2>1. PICK g \in Holders, alphas \in AlphaVectors :
          /\ drawn[g] + Len(alphas) <= MaxNonces
          /\ drawn' = [drawn EXCEPT ![g] = @ + Len(alphas)]
    BY <1>2 DEF P!Round1
  <2>2. Len(alphas) \in Nat
    BY Assumed
  <2>. QED
    BY <1>1, <2>1, <2>2
<1>3. CASE UNCHANGED drawn
  BY <1>1, <1>3
<1>. QED
  BY StepsAreCalls, <1>2, <1>3
  DEF P!Next, P!Round1AlreadyOpen, P!Round2, P!Round2Refused, P!DropExpired, P!Restart,
      P!SetClock, participants

(***************************************************************************)
(* A coordinator's commitments are those its round one is answered with.   *)
(***************************************************************************)
LEMMA Commitments ==
  ASSUME Base, [Next]_vars
  PROVE  /\ driver' = driver
         /\ \/ r1' = r1
            \/ \E a \in Attempts : \E h \in Holders :
                 /\ phase[a] = "round1"
                 /\ r1' = [r1 EXCEPT ![a][h] = drawn[h] + 1]
                 /\ drawn'[h] = drawn[h] + Len(AlphasOf[driver][a])
<1>1. ASSUME NEW a \in Attempts, Coordinate(a)
      PROVE  \/ r1' = r1
             \/ \E h \in Holders :
                  /\ phase[a] = "round1"
                  /\ r1' = [r1 EXCEPT ![a][h] = drawn[h] + 1]
                  /\ drawn'[h] = drawn[h] + Len(AlphasOf[driver][a])
  <2>1. CASE Round1Answered(a)
    <3>1. Addresses[next[a]] \in Holders
      BY <2>1, SizeAssumption, AddressesAssumption DEF Round1Answered, MoreToCommit, Base
    <3>2. drawn \in [Holders -> Nat]
      BY DEF Base, P!TypeOK
    <3>. QED
      BY <2>1, <3>1, <3>2 DEF Round1Answered, Asking, P!Round1
  <2>2. CASE ~ Round1Answered(a)
    BY <1>1, <2>2
    DEF Coordinate, Round1Refused, Round1Missed, EndRound1, Round2Answered, Round2Refused,
        Round2Missed, PassOver, EndRound2, Missed
  <2>. QED
    BY <2>1, <2>2
<1>2. Environment \/ (\E a \in Attempts : Start(a)) => r1' = r1
  BY DEF Environment, LateRound1, LateRound2, Restart, Tick, Start, NothingToSign, Begin
<1>3. driver' = driver
  BY DEF Next, Environment, Start, Coordinate, vars, coordinators
<1>. QED
  BY <1>1, <1>2, <1>3 DEF Next, vars, coordinators

(***************************************************************************)
(* The same, one commitment at a time.                                     *)
(***************************************************************************)
LEMMA CommitmentsTyped ==
  ASSUME Base, [Next]_vars
  PROVE  /\ r1' \in [Attempts -> [Holders -> Nat]]
         /\ \A a \in Attempts : \A h \in Holders :
              \/ r1'[a][h] = r1[a][h]
              \/ /\ phase[a] = "round1"
                 /\ r1'[a][h] = drawn[h] + 1
                 /\ drawn'[h] = drawn[h] + Len(AlphasOf[driver][a])
<1>1. CASE r1' = r1
  BY <1>1 DEF Base
<1>2. CASE r1' # r1
  <2>1. PICK a \in Attempts, h \in Holders :
          /\ phase[a] = "round1"
          /\ r1' = [r1 EXCEPT ![a][h] = drawn[h] + 1]
          /\ drawn'[h] = drawn[h] + Len(AlphasOf[driver][a])
    BY <1>2, Commitments
  <2>2. drawn[h] + 1 \in Nat
    BY DrawnGrows
  <2>3. r1 \in [Attempts -> [Holders -> Nat]]
    BY DEF Base
  <2>. QED
    BY <2>1, <2>2, <2>3
<1>. QED
  BY <1>1, <1>2

(***************************************************************************)
(* Types and draws are kept.                                               *)
(***************************************************************************)
LEMMA BaseKept ==
  ASSUME Base, [Next]_vars
  PROVE  Base'
<1>1. P!TypeOK'
  <2>1. [PP!Next]_<<live, drawn, opened, released, now>>
    BY StepsAreCalls, SameNext DEF participants
  <2>2. PP!TypeOK /\ [PP!Next]_PP!vars => PP!TypeOK'
    BY Assumed, PP!TypeKept
  <2>3. PP!TypeOK /\ [PP!Next]_PP!vars
    BY <2>1, SameTypes DEF Base, PP!vars
  <2>. QED
    BY <2>2, <2>3, SameTypes
<1>2. NoncesDrawn'
  <2>1. \A h \in Holders : drawn'[h] <= MaxNonces
    BY DrawnGrows
  <2>2. ASSUME NEW a \in Attempts, NEW h \in Holders, r1'[a][h] # 0
        PROVE  r1'[a][h] + Len(AlphasOf[driver][a]) - 1 <= drawn'[h]
    <3>1. /\ drawn[h] \in Nat /\ drawn'[h] \in Nat /\ drawn[h] <= drawn'[h]
          /\ Len(AlphasOf[driver][a]) \in Nat
          /\ r1[a][h] \in Nat
      BY DrawnGrows, Asked DEF Base
    <3>2. \/ r1'[a][h] = r1[a][h]
          \/ /\ r1'[a][h] = drawn[h] + 1
             /\ drawn'[h] = drawn[h] + Len(AlphasOf[driver][a])
      BY CommitmentsTyped
    <3>3. r1[a][h] # 0 => r1[a][h] + Len(AlphasOf[driver][a]) - 1 <= drawn[h]
      BY Zenon DEF Base, NoncesDrawn
    <3>4. PICK n, p, q, c, d :
            /\ n = Len(AlphasOf[driver][a])
            /\ p = r1[a][h] /\ q = r1'[a][h]
            /\ c = drawn[h] /\ d = drawn'[h]
      OBVIOUS
    <3>5. /\ n \in Nat /\ p \in Nat /\ c \in Nat /\ d \in Nat
          /\ q # 0 /\ c <= d
          /\ p # 0 => p + n - 1 <= c
          /\ q = p \/ (q = c + 1 /\ d = c + n)
      BY <2>2, <3>1, <3>2, <3>3, <3>4
    <3>6. q + n - 1 <= d
      BY <3>5
    <3>. QED
      BY <3>4, <3>6
  <2>. QED
    BY <2>1, <2>2, Commitments DEF NoncesDrawn
<1>3. driver' \in Drivers /\ r1' \in [Attempts -> [Holders -> Nat]]
  BY Commitments, CommitmentsTyped DEF Base
<1>. DEFINE Shape ==
       /\ phase \in [Attempts -> {"idle", "nothing", "round1"} \cup Past]
       /\ next \in [Attempts -> 1 .. N + 1]
       /\ late \subseteq Frame
       /\ lost \in [Attempts -> SUBSET Holders]
       /\ began \in [Attempts -> Nat]
<1>4. Shape'
  <2>. USE DEF Base, Past
  <2>. N \in Nat /\ now \in Nat
    BY SizeAssumption DEF P!TypeOK
  <2>1. ASSUME NEW a \in Attempts, NEW round \in {"round1", "round2"},
               Asking(a, round), next[a] <= N
        PROVE  next' \in [Attempts -> 1 .. N + 1] /\ UNCHANGED <<phase, began>>
    BY <2>1 DEF Asking
  <2>2. ASSUME NEW a \in Attempts, NEW h \in Holders, NEW round \in {1, 2}, Missed(a, h, round)
        PROVE  late' \subseteq Frame /\ lost' \in [Attempts -> SUBSET Holders]
    BY <2>2 DEF Missed, Frame
  <2>3. ASSUME NEW a \in Attempts, next[a] <= N
        PROVE  Addresses[next[a]] \in Holders
    BY <2>3, AddressesAssumption
  <2>4. ASSUME NEW a \in Attempts, Coordinate(a)
        PROVE  Shape'
    <3>1. CASE EndRound1(a)
      <4>1. /\ UNCHANGED <<late, lost, began>>
            /\ phase' = [phase EXCEPT ![a] = "failed"] \/ phase' = [phase EXCEPT ![a] = "round2"]
            /\ next' = next \/ next' = [next EXCEPT ![a] = 1]
        BY <3>1 DEF EndRound1
      <4>2. 1 \in 1 .. N + 1
        OBVIOUS
      <4>3. next' \in [Attempts -> 1 .. N + 1]
        BY <4>1, <4>2
      <4>4. phase' \in [Attempts -> {"idle", "nothing", "round1"} \cup Past]
        BY <4>1
      <4>. QED
        BY <4>1, <4>3, <4>4
    <3>2. CASE EndRound2(a)
      BY <3>2 DEF EndRound2
    <3>3. CASE Round1Missed(a) \/ Round2Missed(a)
      BY <3>3, <2>1, <2>2, <2>3 DEF Round1Missed, Round2Missed, MoreToCommit, MoreToSign
    <3>4. CASE \/ Round1Answered(a) \/ Round1Refused(a) \/ Round2Answered(a)
               \/ Round2Refused(a) \/ PassOver(a)
      <4>1. next[a] <= N /\ UNCHANGED <<late, lost>>
            /\ (Asking(a, "round1") \/ Asking(a, "round2"))
        BY <3>4 DEF Round1Answered, Round1Refused, Round2Answered, Round2Refused, PassOver,
                    MoreToCommit, MoreToSign
      <4>. QED
        BY <4>1, <2>1
    <3>. QED
      BY <2>4, <3>1, <3>2, <3>3, <3>4 DEF Coordinate
  <2>5. ASSUME NEW a \in Attempts, Start(a)
        PROVE  Shape'
    BY <2>5 DEF Start, NothingToSign, Begin
  <2>6. ASSUME Environment
        PROVE  Shape'
    <3>1. CASE \E f \in late : LateRound1(f) \/ LateRound2(f)
      BY <3>1 DEF LateRound1, LateRound2
    <3>2. CASE \E h \in Holders : Restart(h)
      BY <3>2 DEF Restart
    <3>3. CASE Tick
      BY <3>3 DEF Tick
    <3>. QED
      BY <2>6, <3>1, <3>2, <3>3 DEF Environment
  <2>. QED
    BY <2>4, <2>5, <2>6 DEF Next, vars, coordinators
<1>. QED
  BY <1>1, <1>2, <1>3, <1>4 DEF Base

-----------------------------------------------------------------------------
(***************************************************************************)
(* Types and draws hold throughout.                                        *)
(***************************************************************************)
THEOREM BaseHolds == Spec => []Base
<1>1. Init => Base
  BY SizeAssumption, TimeAssumption
  DEF Init, P!Init, Base, NoncesDrawn, P!TypeOK, Past, Frame
<1>2. Base /\ [Next]_vars => Base'
  BY BaseKept
<1>. QED
  BY <1>1, <1>2, PTL DEF Spec

(***************************************************************************)
(* The attempts are callers of the participants: each of their steps is a  *)
(* call any coordinator may make, a restart, or the clock (RemoteQuorum,   *)
(* LocalQuorum and sign_across over Participant).                          *)
(***************************************************************************)
THEOREM DrivesParticipants == Spec => P!Spec
<1>1. Init => P!Init
  BY DEF Init
<1>2. Base /\ [Next]_vars => [P!Next]_P!vars
  BY StepsAreCalls DEF P!vars, participants
<1>. QED
  BY <1>1, <1>2, BaseHolds, PTL DEF Spec, P!Spec

(***************************************************************************)
(* So what is proved of participants under every caller holds here.        *)
(***************************************************************************)
THEOREM ParticipantsHold == Spec => []PP!IInv
<1>1. P!Init => PP!Init
  BY DEF P!Init, PP!Init
<1>2. [P!Next]_P!vars => [PP!Next]_PP!vars
  BY SameNext DEF P!vars, PP!vars
<1>3. PP!Spec => []PP!IInv
  BY Assumed, PP!IInvHolds
<1>. QED
  BY <1>1, <1>2, <1>3, DrivesParticipants, PTL DEF P!Spec, PP!Spec

(***************************************************************************)
(* Whatever coordinators, custodians and the clock do, a nonce signs once, *)
(* and only what it was committed for.                                     *)
(***************************************************************************)
THEOREM NoncesKept == Spec => [](P!NonceSignsOnce /\ P!ShareKeepsCommitment)
<1>1. PP!IInv => P!NonceSignsOnce /\ P!ShareKeepsCommitment
  BY DEF PP!IInv, PP!NonceSignsOnce, P!NonceSignsOnce, PP!ShareKeepsCommitment,
         P!ShareKeepsCommitment, P!Nonce, PP!Nonce
<1>. QED
  BY <1>1, ParticipantsHold, PTL

-----------------------------------------------------------------------------
(***************************************************************************)
(* Once its round one is over, an attempt keeps whom it chose and the      *)
(* packages it built.                                                      *)
(***************************************************************************)
LEMMA Settled ==
  ASSUME Base, [Next]_vars, NEW a \in Attempts, phase[a] \in Past
  PROVE  /\ phase'[a] \in Past
         /\ r1'[a] = r1[a]
         /\ Chosen(a)' = Chosen(a)
         /\ Packages(a)' = Packages(a)
<1>1. phase'[a] \in Past
  <2>. USE DEF Past
  <2>1. phase \in [Attempts -> {"idle", "nothing", "round1"} \cup Past]
    BY DEF Base
  <2>2. ASSUME NEW b \in Attempts, Coordinate(b)
        PROVE  phase'[a] \in Past
    <3>1. CASE EndRound1(b)
      BY <2>1, <3>1 DEF EndRound1
    <3>2. CASE EndRound2(b)
      BY <2>1, <3>2 DEF EndRound2
    <3>3. CASE UNCHANGED phase
      BY <3>3
    <3>. QED
      BY <2>2, <3>1, <3>2, <3>3
      DEF Coordinate, Round1Answered, Round1Refused, Round1Missed, Round2Answered,
          Round2Refused, Round2Missed, PassOver, Asking
  <2>3. ASSUME NEW b \in Attempts, Start(b)
        PROVE  phase'[a] \in Past
    BY <2>1, <2>3 DEF Start, NothingToSign, Begin
  <2>4. ASSUME Environment
        PROVE  phase' = phase
    BY <2>4 DEF Environment, LateRound1, LateRound2, Restart, Tick
  <2>. QED
    BY <2>2, <2>3, <2>4 DEF Next, vars, coordinators
<1>2. driver' = driver /\ r1'[a] = r1[a]
  <2>1. r1 \in [Attempts -> [Holders -> Nat]]
    BY DEF Base
  <2>2. ASSUME NEW b \in Attempts, phase[b] = "round1"
        PROVE  b # a
    BY <2>2 DEF Past
  <2>. QED
    BY <2>1, <2>2, Commitments
<1>3. Committed(a)' = Committed(a)
  BY <1>2 DEF Committed
<1>4. Chosen(a)' = Chosen(a)
  BY <1>3 DEF Chosen
<1>5. Packages(a)' = Packages(a)
  BY <1>2, <1>4 DEF Packages, Actions
<1>. QED
  BY <1>1, <1>2, <1>4, <1>5

(***************************************************************************)
(* The shares of h for the packages of a, all of them and no others.       *)
(***************************************************************************)
SharesFor(S, a, h) ==
  /\ \A s \in S : s.holder = h /\ \E i \in Actions(a) : s.package = Packages(a)[i]
  /\ \A i \in Actions(a) : \E s \in S : s.holder = h /\ s.package = Packages(a)[i]

(***************************************************************************)
(* A round two that signs makes the shares of one chosen participant for   *)
(* one attempt.                                                            *)
(***************************************************************************)
LEMMA Round2Releases ==
  ASSUME Base, ToSign, NEW a \in Attempts, phase[a] \in Past, NEW h \in Holders,
         P!Round2(h, Request[driver][a], Packages(a))
  PROVE  /\ h \in Chosen(a)
         /\ \E S : SharesFor(S, a, h) /\ released' = released \cup S
<1>1. PICK r \in live[h] :
        /\ P!Signable(h, r, Packages(a))
        /\ released' = released \cup {P!Share(h, r, Packages(a), i) : i \in 1 .. Len(r.alphas)}
  BY DEF P!Round2
<1>2. 1 .. Len(r.alphas) = Actions(a)
  BY <1>1, PackagesTyped DEF P!Signable, Actions
<1>. DEFINE S == {P!Share(h, r, Packages(a), i) : i \in Actions(a)}
<1>3. SharesFor(S, a, h)
  <2>1. \A i \in Actions(a) : /\ P!Share(h, r, Packages(a), i).holder = h
                               /\ P!Share(h, r, Packages(a), i).package = Packages(a)[i]
    BY DEF P!Share
  <2>. QED
    BY <2>1, Zenon DEF SharesFor
<1>4. h \in Chosen(a)
  <2>1. PICK i \in Actions(a) : TRUE
    BY DEF ToSign
  <2>2. h \in DOMAIN Packages(a)[i].commitments
    BY <1>1, <1>2, <2>1 DEF P!Signable, P!Listed
  <2>. QED
    BY <2>1, <2>2 DEF Packages
<1>. QED
  BY <1>1, <1>2, <1>3, <1>4

(***************************************************************************)
(* So does every step, or it releases nothing.                             *)
(***************************************************************************)
LEMMA Releases ==
  ASSUME Base, ToSign, LateIsSettled, [Next]_vars
  PROVE  \/ released' = released
         \/ \E a \in Attempts : \E h \in Chosen(a) : \E S :
              /\ phase[a] \in Past
              /\ SharesFor(S, a, h)
              /\ released' = released \cup S
<1>1. ASSUME NEW a \in Attempts, Round2Answered(a)
      PROVE  \E h \in Chosen(a) : \E S :
               phase[a] \in Past /\ SharesFor(S, a, h) /\ released' = released \cup S
  <2>1. Addresses[next[a]] \in Holders
    BY <1>1, SizeAssumption, AddressesAssumption DEF Base, Round2Answered, MoreToSign
  <2>2. phase[a] \in Past
    BY <1>1 DEF Round2Answered, Asking, Past
  <2>. QED
    BY <1>1, <2>1, <2>2, Round2Releases DEF Round2Answered
<1>2. ASSUME NEW f \in late, LateRound2(f)
      PROVE  \/ released' = released
             \/ \E h \in Chosen(f.attempt) : \E S :
                  /\ phase[f.attempt] \in Past
                  /\ SharesFor(S, f.attempt, h)
                  /\ released' = released \cup S
  <2>1. f.attempt \in Attempts /\ f.to \in Holders
    BY DEF Base, Frame
  <2>2. phase[f.attempt] \in Past
    BY <1>2 DEF LateIsSettled, LateRound2
  <2>3. CASE P!Round2(f.to, Request[driver][f.attempt], Packages(f.attempt))
    BY <2>1, <2>2, <2>3, Round2Releases
  <2>. QED
    BY <1>2, <2>3 DEF LateRound2, P!Round2Refused, participants
<1>3. ASSUME NEW a \in Attempts, Coordinate(a), ~ Round2Answered(a)
      PROVE  released' = released
  BY <1>3
  DEF Coordinate, Round1Answered, Round1Refused, Round1Missed, EndRound1, Round2Refused,
      Round2Missed, PassOver, EndRound2, Missed, P!Round1, P!Round1AlreadyOpen,
      P!Round2Refused, participants
<1>4. ASSUME NEW f \in late, LateRound1(f)
      PROVE  released' = released
  BY <1>4 DEF LateRound1, P!Round1, P!Round1AlreadyOpen
<1>5. (\E h \in Holders : Restart(h)) \/ Tick \/ (\E a \in Attempts : Start(a))
        => released' = released
  BY DEF Restart, P!Restart, Tick, P!SetClock, Start, NothingToSign, Begin, participants
<1>6. \A f \in late : f.attempt \in Attempts
  BY DEF Base, Frame
<1>. QED
  BY <1>1, <1>2, <1>3, <1>4, <1>5, <1>6 DEF Next, Environment, vars, participants

(***************************************************************************)
(* No package is one of two attempts: a participant chosen for both is     *)
(* listed with nonces that it drew apart.                                  *)
(***************************************************************************)
LEMMA PackagesApart ==
  ASSUME Base, NoncesApart, NEW a \in Attempts, NEW b \in Attempts, a # b,
         NEW h \in Chosen(a), NEW i \in Actions(a), NEW j \in Actions(b)
  PROVE  Packages(a)[i] # Packages(b)[j]
<1> SUFFICES ASSUME Packages(a)[i] = Packages(b)[j]
             PROVE  FALSE
  OBVIOUS
<1>1. [g \in Chosen(a) |-> r1[a][g] + i - 1] = [g \in Chosen(b) |-> r1[b][g] + j - 1]
  BY DEF Packages
<1>2. h \in Chosen(b) /\ r1[a][h] + i - 1 = r1[b][h] + j - 1
  BY <1>1
<1>3. /\ h \in Holders
      /\ r1[a][h] # 0 /\ r1[a][h] \in Nat
      /\ r1[b][h] # 0 /\ r1[b][h] \in Nat
  BY <1>2 DEF Chosen, Committed, Base
<1>4. /\ i \in 1 .. Len(AlphasOf[driver][a]) /\ Len(AlphasOf[driver][a]) \in Nat
      /\ j \in 1 .. Len(AlphasOf[driver][b]) /\ Len(AlphasOf[driver][b]) \in Nat
  BY Asked DEF Actions, Base
<1>. DEFINE p == r1[a][h]
            q == r1[b][h]
            m == Len(AlphasOf[driver][a])
            n == Len(AlphasOf[driver][b])
<1>5. p + m <= q \/ q + n <= p
  BY <1>3 DEF NoncesApart
<1>6. /\ p \in Nat /\ q \in Nat /\ m \in Nat /\ n \in Nat
      /\ i \in 1 .. m /\ j \in 1 .. n /\ p + i - 1 = q + j - 1
  BY <1>2, <1>3, <1>4
<1>. HIDE DEF p, q, m, n
<1>. QED
  BY <1>5, <1>6

(***************************************************************************)
(* An answer of round two holds released shares, one per action, if the    *)
(* participant has the request open once.                                  *)
(***************************************************************************)
LEMMA AnswerReleased ==
  ASSUME Base, PP!IInv, NEW a \in Attempts, NEW h \in Holders,
         P!Round2(h, Request[driver][a], Packages(a)), NEW i \in Actions(a)
  PROVE  P!Share(h, RequestOf(h, Request[driver][a]), Packages(a), i) \in released'
<1>1. PICK r \in live[h] :
        /\ r.id = Request[driver][a]
        /\ P!Signable(h, r, Packages(a))
        /\ released' = released \cup {P!Share(h, r, Packages(a), k) : k \in 1 .. Len(r.alphas)}
  BY DEF P!Round2
<1>2. \A q \in live[h] : q.id = r.id => q = r
  BY <1>1 DEF PP!IInv, PP!DrawInv, PP!RequestsDisjoint
<1>3. RequestOf(h, Request[driver][a]) = r
  BY <1>1, <1>2 DEF RequestOf
<1>4. 1 .. Len(r.alphas) = Actions(a)
  BY <1>1, PackagesTyped DEF P!Signable, Actions
<1>. QED
  BY <1>1, <1>3, <1>4

(***************************************************************************)
(* What the coordinators hold of round two changes with an answer only.    *)
(***************************************************************************)
LEMMA Answers ==
  ASSUME Base, PP!IInv, [Next]_vars
  PROVE  \/ r2' = r2
         \/ \E a \in Attempts : \E h \in Chosen(a) : \E shares :
              /\ phase[a] \in Past
              /\ r2' = [r2 EXCEPT ![a][h] = shares]
              /\ shares \in [Actions(a) -> released']
<1>1. ASSUME NEW a \in Attempts, Round2Answered(a), r2' # r2
      PROVE  \E h \in Chosen(a) : \E shares :
               /\ phase[a] \in Past
               /\ r2' = [r2 EXCEPT ![a][h] = shares]
               /\ shares \in [Actions(a) -> released']
  <2>. DEFINE h == Addresses[next[a]]
              shares == [i \in Actions(a) |->
                           P!Share(h, RequestOf(h, Request[driver][a]), Packages(a), i)]
  <2>1. h \in Holders
    BY <1>1, SizeAssumption, AddressesAssumption DEF Base, Round2Answered, MoreToSign
  <2>2. /\ h \in Chosen(a)
        /\ r2' = [r2 EXCEPT ![a][h] = shares]
        /\ P!Round2(h, Request[driver][a], Packages(a))
        /\ phase[a] \in Past
    BY <1>1 DEF Round2Answered, Asking, Past
  <2>3. shares \in [Actions(a) -> released']
    BY <2>1, <2>2, AnswerReleased
  <2>. QED
    BY <2>2, <2>3
<1>2. ASSUME NEW a \in Attempts, Coordinate(a), ~ Round2Answered(a)
      PROVE  r2' = r2
  BY <1>2
  DEF Coordinate, Round1Answered, Round1Refused, Round1Missed, EndRound1, Round2Refused,
      Round2Missed, PassOver, EndRound2, Missed
<1>3. Environment \/ (\E a \in Attempts : Start(a)) => r2' = r2
  BY DEF Environment, LateRound1, LateRound2, Restart, Tick, Start, NothingToSign, Begin
<1>. QED
  BY <1>1, <1>2, <1>3 DEF Next, vars, coordinators

(***************************************************************************)
(* A late frame of round two is one of an attempt whose round one is over. *)
(***************************************************************************)
LEMMA LateKept ==
  ASSUME Base, LateIsSettled, [Next]_vars
  PROVE  LateIsSettled'
<1>1. ASSUME NEW f \in late' \ late, f.round = 2
      PROVE  phase[f.attempt] \in Past
  <2>1. PICK a \in Attempts : Round1Missed(a) \/ Round2Missed(a)
    BY <1>1
    DEF Next, vars, coordinators, Environment, LateRound1, LateRound2, Restart, Tick, Start,
        NothingToSign, Begin, Coordinate, Round1Answered, Round1Refused, EndRound1,
        Round2Answered, Round2Refused, PassOver, EndRound2
  <2>2. CASE Round1Missed(a)
    BY <1>1, <2>2 DEF Round1Missed, Missed
  <2>3. CASE Round2Missed(a)
    BY <1>1, <2>3 DEF Round2Missed, Missed, Asking, Past
  <2>. QED
    BY <2>1, <2>2, <2>3
<1>2. \A f \in late' : f.attempt \in Attempts
  BY BaseKept DEF Base, Frame
<1>. QED
  BY <1>1, <1>2, Settled DEF LateIsSettled

(***************************************************************************)
(* An attempt that is under way has something to sign.                     *)
(***************************************************************************)
LEMMA ToSignKept ==
  ASSUME Base, ToSign, [Next]_vars
  PROVE  ToSign'
<1>1. driver' = driver
  BY Commitments
<1>2. phase \in [Attempts -> {"idle", "nothing", "round1"} \cup Past]
  BY DEF Base
<1>3. ASSUME NEW a \in Attempts, phase'[a] \in Past \cup {"round1"}, phase' # phase
      PROVE  phase[a] \in Past \cup {"round1"} \/ Actions(a) # {}
  <2>1. PICK b \in Attempts : EndRound1(b) \/ EndRound2(b) \/ NothingToSign(b) \/ Begin(b)
    BY <1>3
    DEF Next, vars, coordinators, Environment, LateRound1, LateRound2, Restart, Tick, Start,
        Coordinate, Round1Answered, Round1Refused, Round1Missed, Round2Answered,
        Round2Refused, Round2Missed, PassOver, Asking
  <2>2. CASE EndRound1(b) \/ EndRound2(b)
    BY <1>2, <1>3, <2>2 DEF EndRound1, EndRound2, Past
  <2>3. CASE NothingToSign(b) \/ Begin(b)
    BY <1>2, <1>3, <2>3 DEF NothingToSign, Begin, Past
  <2>. QED
    BY <2>1, <2>2, <2>3
<1>. QED
  BY <1>1, <1>3 DEF ToSign, Actions

(***************************************************************************)
(* What attempts are answered is apart: the participant draws anew.        *)
(***************************************************************************)
LEMMA ApartKept ==
  ASSUME Base, NoncesApart, [Next]_vars
  PROVE  NoncesApart'
<1>1. CASE r1' = r1
  BY <1>1, Commitments DEF NoncesApart
<1>2. CASE r1' # r1
  <2>1. PICK c \in Attempts, g \in Holders :
          r1' = [r1 EXCEPT ![c][g] = drawn[g] + 1]
    BY <1>2, Commitments
  <2>2. /\ r1 \in [Attempts -> [Holders -> Nat]]
        /\ drawn[g] \in Nat
    BY DEF Base, P!TypeOK
  <2>3. \A a \in Attempts : Len(AlphasOf[driver][a]) \in Nat
    BY Asked DEF Base
  <2>4. \A a \in Attempts : r1[a][g] # 0 => r1[a][g] + Len(AlphasOf[driver][a]) <= drawn[g] + 1
    <3> SUFFICES ASSUME NEW a \in Attempts, r1[a][g] # 0
                 PROVE  r1[a][g] + Len(AlphasOf[driver][a]) <= drawn[g] + 1
      OBVIOUS
    <3>1. r1[a][g] + Len(AlphasOf[driver][a]) - 1 <= drawn[g]
      BY Zenon DEF Base, NoncesDrawn
    <3>2. r1[a][g] \in Nat
      BY <2>2
    <3>. QED
      BY <2>2, <2>3, <3>1, <3>2
  <2> SUFFICES ASSUME NEW a \in Attempts, NEW b \in Attempts, NEW h \in Holders,
                      a # b, r1'[a][h] # 0, r1'[b][h] # 0
               PROVE  \/ r1'[a][h] + Len(AlphasOf[driver][a]) <= r1'[b][h]
                      \/ r1'[b][h] + Len(AlphasOf[driver][b]) <= r1'[a][h]
    BY Commitments DEF NoncesApart
  <2>5. /\ r1'[a][h] = IF h = g /\ a = c THEN drawn[g] + 1 ELSE r1[a][h]
        /\ r1'[b][h] = IF h = g /\ b = c THEN drawn[g] + 1 ELSE r1[b][h]
        /\ r1[a][h] \in Nat /\ r1[b][h] \in Nat
    BY <2>1, <2>2
  <2>6. CASE h = g /\ (a = c \/ b = c)
    BY <2>2, <2>3, <2>4, <2>5, <2>6
  <2>7. CASE ~ (h = g /\ (a = c \/ b = c))
    <3>1. r1'[a][h] = r1[a][h] /\ r1'[b][h] = r1[b][h]
      BY <2>5, <2>7
    <3>. QED
      BY <3>1, Zenon DEF NoncesApart
  <2>. QED
    BY <2>6, <2>7
<1>. QED
  BY <1>1, <1>2

(***************************************************************************)
(* Shares released are for what an attempt asks of one it chose.           *)
(***************************************************************************)
LEMMA ChosenKept ==
  ASSUME Base, ToSign, LateIsSettled, OnlyChosenContribute, [Next]_vars
  PROVE  OnlyChosenContribute'
<1>. DEFINE Wanted(s, a) == /\ phase[a] \in Past
                           /\ s.holder \in Chosen(a)
                           /\ \E i \in Actions(a) : s.package = Packages(a)[i]
<1>1. ASSUME NEW s \in released'
      PROVE  \E a \in Attempts : Wanted(s, a)
  <2>1. CASE s \in released
    BY <2>1 DEF OnlyChosenContribute, Past
  <2>2. CASE s \notin released
    BY <2>2, Releases DEF SharesFor
  <2>. QED
    BY <2>1, <2>2
<1>2. ASSUME NEW s, NEW a \in Attempts, Wanted(s, a)
      PROVE  Wanted(s, a)'
  BY <1>2, Settled, Commitments DEF Actions
<1>. QED
  BY <1>1, <1>2 DEF OnlyChosenContribute, Past

(***************************************************************************)
(* Coordinators hold released shares of those they chose.                  *)
(***************************************************************************)
LEMMA SharesStay ==
  ASSUME Base, PP!IInv, ToSign, LateIsSettled, SharesKept, [Next]_vars,
         r2 \in [Attempts -> [Holders -> Seq(P!ShareType)]]
  PROVE  SharesKept' /\ r2' \in [Attempts -> [Holders -> Seq(P!ShareType)]]
<1>1. released \subseteq released'
  BY Releases
<1>2. ASSUME NEW a \in Attempts, NEW h \in Holders, r2'[a][h] = r2[a][h]
      PROVE  /\ \A i \in DOMAIN r2'[a][h] : r2'[a][h][i] \in released'
             /\ r2'[a][h] # << >> => phase'[a] \in Past /\ h \in Chosen(a)'
  BY <1>1, <1>2, Settled DEF SharesKept
<1>3. CASE r2' = r2
  BY <1>2, <1>3 DEF SharesKept
<1>4. CASE r2' # r2
  <2>1. PICK c, g, shares :
          /\ c \in Attempts /\ g \in Chosen(c)
          /\ phase[c] \in Past
          /\ r2' = [r2 EXCEPT ![c][g] = shares]
          /\ shares \in [Actions(c) -> released']
    BY <1>4, Answers
  <2>2. g \in Holders
    BY <2>1 DEF Chosen, Committed
  <2>3. shares \in Seq(P!ShareType)
    <3>1. released' \subseteq P!ShareType
      BY BaseKept DEF Base, P!TypeOK, P!ShareType, P!Package
    <3>2. Len(AlphasOf[driver][c]) \in Nat
      BY <2>1, Asked DEF Base
    <3>3. shares \in [1 .. Len(AlphasOf[driver][c]) -> P!ShareType]
      BY <2>1, <3>1 DEF Actions
    <3>. QED
      BY <3>2, <3>3, SeqDef
  <2>4. r2' \in [Attempts -> [Holders -> Seq(P!ShareType)]]
    BY <2>1, <2>2, <2>3
  <2>5. ASSUME NEW a \in Attempts, NEW h \in Holders
        PROVE  /\ \A i \in DOMAIN r2'[a][h] : r2'[a][h][i] \in released'
               /\ r2'[a][h] # << >> => phase'[a] \in Past /\ h \in Chosen(a)'
    <3>1. CASE a = c /\ h = g
      <4>1. r2'[a][h] = shares
        BY <2>1, <2>2, <3>1
      <4>. QED
        BY <2>1, <3>1, <4>1, Settled
    <3>2. CASE ~ (a = c /\ h = g)
      BY <1>2, <2>1, <2>2, <3>2
    <3>. QED
      BY <3>1, <3>2
  <2>. QED
    BY <2>4, <2>5 DEF SharesKept
<1>. QED
  BY <1>3, <1>4

(***************************************************************************)
(* The inductive invariant, on top of Base and what the participants keep. *)
(***************************************************************************)
THEOREM IInvHolds == Spec => []IInv
<1>1. Init => IInv
  BY EmptySeq
  DEF Init, P!Init, IInv, LateIsSettled, OnlyChosenContribute, NoncesApart, SharesKept,
      ToSign, Past
<1>2. Base /\ PP!IInv /\ IInv /\ [Next]_vars => IInv'
  BY LateKept, ChosenKept, ApartKept, SharesStay, ToSignKept DEF IInv
<1>. QED
  BY <1>1, <1>2, BaseHolds, ParticipantsHold, PTL DEF Spec

(***************************************************************************)
(* Type correctness: the state of coordinators and participants keeps its  *)
(* shape.                                                                  *)
(***************************************************************************)
THEOREM TypeCorrect == Spec => []TypeOK
<1>1. Base /\ IInv => TypeOK
  BY DEF Base, IInv, TypeOK, Past
<1>. QED
  BY <1>1, BaseHolds, IInvHolds, PTL

(***************************************************************************)
(* Shares are released for what an attempt asks of those it chose, and for *)
(* nothing else (RemoteQuorum::round2, sign_across, Participant::round2).  *)
(***************************************************************************)
THEOREM OnlyChosenContributeHolds == Spec => []OnlyChosenContribute
BY IInvHolds, PTL DEF IInv

-----------------------------------------------------------------------------
(***************************************************************************)
(* A coordinator's function moves at the end of a round, or at its start.  *)
(***************************************************************************)
LEMMA PhaseSteps ==
  ASSUME [Next]_vars
  PROVE  \/ phase' = phase
         \/ \E a \in Attempts : EndRound1(a) \/ EndRound2(a) \/ NothingToSign(a) \/ Begin(a)
BY DEF Next, vars, coordinators, Environment, LateRound1, LateRound2, Restart, Tick, Start,
       Coordinate, Round1Answered, Round1Refused, Round1Missed, Round2Answered,
       Round2Refused, Round2Missed, PassOver, Asking

(***************************************************************************)
(* Who has endorsed b if these shares were released.                       *)
(***************************************************************************)
EndorsedOver(b, shares) ==
  {h \in Chosen(b) : \A i \in Actions(b) :
     \E s \in shares : s.holder = h /\ s.package = Packages(b)[i]}

(***************************************************************************)
(* That is who has, once round one of b is over.                           *)
(***************************************************************************)
LEMMA EndorsedAre ==
  ASSUME NEW b \in Attempts
  PROVE  /\ Endorsed(b) = IF phase[b] \in Past THEN EndorsedOver(b, released) ELSE {}
         /\ UNCHANGED <<driver, Chosen(b), Packages(b)>>
              => Endorsed(b)' = IF phase'[b] \in Past THEN EndorsedOver(b, released') ELSE {}
BY DEF Endorsed, EndorsedOver, Past, Actions

(***************************************************************************)
(* A step that leaves every attempt on its side of the end of round one    *)
(* endorses nothing, or one attempt by one holder.                         *)
(***************************************************************************)
LEMMA EndorsedByOne ==
  ASSUME Base, IInv, [Next]_vars,
         \A a \in Attempts : phase[a] \notin Past => phase'[a] \notin Past
  PROVE  \/ \A b \in Attempts : Endorsed(b)' = Endorsed(b)
         \/ \E a \in Attempts : \E h \in Holders :
              /\ Endorsed(a)' = Endorsed(a) \cup {h}
              /\ \A b \in Attempts \ {a} : Endorsed(b)' = Endorsed(b)
<1>1. ASSUME NEW b \in Attempts, phase[b] \notin Past
      PROVE  Endorsed(b)' = Endorsed(b)
  BY <1>1 DEF Endorsed, Past
<1>2. driver' = driver
  BY Commitments
<1>3. ASSUME NEW b \in Attempts, phase[b] \in Past
      PROVE  /\ Endorsed(b) = EndorsedOver(b, released)
             /\ Endorsed(b)' = EndorsedOver(b, released')
  BY <1>2, <1>3, Settled, EndorsedAre
<1>4. CASE released' = released
  BY <1>1, <1>3, <1>4
<1>5. CASE released' # released
  <2>1. PICK a, h, S :
          /\ a \in Attempts /\ h \in Chosen(a)
          /\ phase[a] \in Past
          /\ SharesFor(S, a, h)
          /\ released' = released \cup S
    BY <1>5, Releases DEF IInv
  <2>2. h \in Holders
    BY <2>1 DEF Chosen, Committed
  <2>3. Endorsed(a)' = Endorsed(a) \cup {h}
    <3>1. h \in Endorsed(a)'
      BY <1>3, <2>1 DEF SharesFor, EndorsedOver
    <3>2. Endorsed(a) \subseteq Endorsed(a)'
      BY <1>3, <2>1 DEF EndorsedOver
    <3>3. ASSUME NEW g \in Endorsed(a)', g # h
          PROVE  g \in Endorsed(a)
      BY <1>3, <2>1, <3>3 DEF SharesFor, EndorsedOver
    <3>. QED
      BY <3>1, <3>2, <3>3
  <2>4. ASSUME NEW b \in Attempts, b # a, phase[b] \in Past
        PROVE  Endorsed(b)' = Endorsed(b)
    <3>1. ASSUME NEW s \in S, NEW i \in Actions(b)
          PROVE  s.package # Packages(b)[i]
      BY <2>1, <2>4, PackagesApart DEF SharesFor, IInv
    <3>2. EndorsedOver(b, released') = EndorsedOver(b, released)
      BY <2>1, <3>1 DEF EndorsedOver
    <3>. QED
      BY <1>3, <2>4, <3>2
  <2>. QED
    BY <1>1, <2>1, <2>2, <2>3, <2>4
<1>. QED
  BY <1>4, <1>5

(***************************************************************************)
(* Nobody has endorsed an attempt whose round one ends.                    *)
(***************************************************************************)
LEMMA EndRound1Endorses ==
  ASSUME Base, IInv, NEW a \in Attempts, EndRound1(a), driver' = driver
  PROVE  \A b \in Attempts : Endorsed(b)' = Endorsed(b)
<1>1. UNCHANGED <<r1, released, driver>> /\ phase[a] = "round1"
  BY DEF EndRound1, participants
<1>2. \A b \in Attempts : Chosen(b)' = Chosen(b) /\ Packages(b)' = Packages(b)
                          /\ Actions(b)' = Actions(b)
  BY <1>1 DEF Chosen, Committed, Packages, Actions
<1>3. ASSUME NEW b \in Attempts, b # a
      PROVE  Endorsed(b)' = Endorsed(b)
  <2>1. phase'[b] = phase[b]
    BY <1>3 DEF EndRound1, Base
  <2>. QED
    BY <1>1, <1>2, <2>1, EndorsedAre
<1>4. Endorsed(a) = {}
  BY <1>1 DEF Endorsed
<1>5. Endorsed(a)' = {}
  <2> SUFFICES ASSUME NEW h \in Chosen(a),
                      \A i \in Actions(a) : \E s \in released :
                        s.holder = h /\ s.package = Packages(a)[i]
               PROVE  FALSE
    BY <1>1, <1>2 DEF Endorsed
  <2>1. PICK i \in Actions(a) : TRUE
    BY <1>1 DEF IInv, ToSign
  <2>2. PICK s \in released : s.package = Packages(a)[i]
    BY <2>1
  <2>3. PICK b, j :
          b \in Attempts /\ phase[b] \in Past /\ j \in Actions(b) /\ s.package = Packages(b)[j]
    BY <2>2 DEF IInv, OnlyChosenContribute, Past
  <2>4. a # b
    BY <1>1, <2>3 DEF Past
  <2>. QED
    BY <2>1, <2>2, <2>3, <2>4, PackagesApart DEF IInv
<1>. QED
  BY <1>3, <1>4, <1>5

(***************************************************************************)
(* Shares that aggregate are the endorsement of a threshold.               *)
(***************************************************************************)
LEMMA AggregateIsEndorsed ==
  ASSUME Base, IInv, NEW a \in Attempts, phase[a] = "round2",
         Cardinality(Answered(a)) >= Threshold, Aggregates(a)
  PROVE  Cardinality(Endorsed(a)) >= Threshold
<1>1. Answered(a) \subseteq Chosen(a)
  BY DEF Answered, IInv, SharesKept
<1>2. Chosen(a) \subseteq Endorsed(a)
  <2>1. ASSUME NEW h \in Chosen(a), NEW i \in Actions(a)
        PROVE  \E s \in released : s.holder = h /\ s.package = Packages(a)[i]
    <3>1. h \in Holders
      BY DEF Chosen, Committed
    <3>2. r2[a][h][i] \in released
      BY <3>1 DEF Aggregates, IInv, SharesKept
    <3>. QED
      BY <3>2 DEF Aggregates
  <2>. QED
    BY <2>1 DEF Endorsed
<1>3. Endorsed(a) \subseteq Holders
  BY DEF Endorsed, Chosen, Committed
<1>4. IsFiniteSet(Holders)
  BY FS_Interval, SizeAssumption DEF Holders
<1>5. IsFiniteSet(Endorsed(a))
  BY <1>3, <1>4, FS_Subset
<1>6. /\ Cardinality(Answered(a)) <= Cardinality(Endorsed(a))
      /\ Cardinality(Answered(a)) \in Nat
      /\ Cardinality(Endorsed(a)) \in Nat
  BY <1>1, <1>2, <1>5, FS_Subset, FS_CardinalityType
<1>. QED
  BY <1>6, SizeAssumption

(***************************************************************************)
(* Every step of the attempts is one of threshold signing, or none.        *)
(***************************************************************************)
LEMMA StepsSign ==
  ASSUME Base, IInv, [Next]_vars
  PROVE  [Abstract!Next]_<<[a \in Attempts |-> Endorsed(a)],
                           {a \in Attempts : phase[a] = "signed"}>>
<1>. DEFINE endorsed == [a \in Attempts |-> Endorsed(a)]
            signed == {a \in Attempts : phase[a] = "signed"}
<1>1. phase \in [Attempts -> {"idle", "nothing", "round1"} \cup Past] /\ driver' = driver
  BY Commitments DEF Base
<1>2. ASSUME NEW a \in Attempts, EndRound1(a)
      PROVE  UNCHANGED <<endorsed, signed>>
  <2>1. \A b \in Attempts : Endorsed(b)' = Endorsed(b)
    BY <1>1, <1>2, EndRound1Endorses
  <2>2. \A b \in Attempts : phase'[b] = "signed" <=> phase[b] = "signed"
    BY <1>1, <1>2 DEF EndRound1
  <2>. QED
    BY <2>1, <2>2
<1>3. ASSUME \A a \in Attempts : ~ EndRound1(a), ~ \E a \in Attempts : EndRound2(a)
      PROVE  [Abstract!Next]_<<endorsed, signed>>
  <2>1. \A a \in Attempts : /\ phase[a] \notin Past => phase'[a] \notin Past
                            /\ phase'[a] = "signed" <=> phase[a] = "signed"
    <3>1. CASE phase' = phase
      BY <3>1
    <3>2. CASE \E a \in Attempts : NothingToSign(a) \/ Begin(a)
      BY <1>1, <3>2 DEF NothingToSign, Begin, Past
    <3>. QED
      BY <1>3, <3>1, <3>2, PhaseSteps
  <2>2. signed' = signed
    BY <2>1
  <2>3. CASE \A b \in Attempts : Endorsed(b)' = Endorsed(b)
    BY <2>2, <2>3
  <2>4. CASE ~ \A b \in Attempts : Endorsed(b)' = Endorsed(b)
    <3>1. PICK a \in Attempts, h \in Holders :
            /\ Endorsed(a)' = Endorsed(a) \cup {h}
            /\ \A b \in Attempts \ {a} : Endorsed(b)' = Endorsed(b)
      BY <2>1, <2>4, EndorsedByOne
    <3>2. h \notin endorsed[a]
      BY <2>4, <3>1
    <3>3. endorsed' = [endorsed EXCEPT ![a] = @ \cup {h}]
      BY <3>1
    <3>. QED
      BY <2>2, <3>2, <3>3 DEF Abstract!Next, Abstract!Endorse
  <2>. QED
    BY <2>3, <2>4
<1>4. ASSUME NEW a \in Attempts, EndRound2(a)
      PROVE  [Abstract!Next]_<<endorsed, signed>>
  <2>1. /\ phase[a] = "round2"
        /\ UNCHANGED <<r1, released>>
        /\ \/ /\ phase' = [phase EXCEPT ![a] = "signed"]
              /\ Cardinality(Answered(a)) >= Threshold /\ Aggregates(a)
           \/ phase' = [phase EXCEPT ![a] = "failed"]
    BY <1>4 DEF EndRound2, participants
  <2>2. \A b \in Attempts : phase'[b] \in Past <=> phase[b] \in Past
    BY <1>1, <2>1 DEF Past
  <2>3. \A b \in Attempts : UNCHANGED <<driver, Chosen(b), Packages(b)>>
    BY <1>1, <2>1 DEF Chosen, Committed, Packages, Actions
  <2>4. \A b \in Attempts : Endorsed(b)' = Endorsed(b)
    BY <2>1, <2>2, <2>3, EndorsedAre
  <2>5. endorsed' = endorsed
    BY <2>4
  <2>6. CASE phase' = [phase EXCEPT ![a] = "failed"]
    <3>1. signed' = signed
      BY <1>1, <2>1, <2>6
    <3>. QED
      BY <2>5, <3>1
  <2>7. CASE /\ phase' = [phase EXCEPT ![a] = "signed"]
             /\ Cardinality(Answered(a)) >= Threshold /\ Aggregates(a)
    <3>1. signed' = signed \cup {a}
      BY <1>1, <2>7
    <3>2. Cardinality(endorsed[a]) >= Threshold
      BY <2>1, <2>7, AggregateIsEndorsed
    <3>3. Abstract!Cardinality(endorsed[a]) = Cardinality(endorsed[a])
      BY DEF Abstract!Cardinality, Cardinality, Abstract!IsFiniteSet, IsFiniteSet
    <3>. QED
      BY <2>5, <3>1, <3>2, <3>3 DEF Abstract!Next, Abstract!Sign
  <2>. QED
    BY <2>1, <2>6, <2>7
<1>. QED
  BY <1>2, <1>3, <1>4

(***************************************************************************)
(* Attempts implement threshold signing: none ends in a signature without  *)
(* the shares of a threshold of holders for that very attempt              *)
(* (sign_all_with, sign_across, sign_with).                                *)
(***************************************************************************)
THEOREM SigningImplementsThresholdSigning == Spec => ImplementsThresholdSigning
<1>1. Init => Abstract!Init
  BY DEF Init, Abstract!Init, Endorsed
<1>2. Base /\ IInv /\ [Next]_vars
        => [Abstract!Next]_<<[a \in Attempts |-> Endorsed(a)],
                             {a \in Attempts : phase[a] = "signed"}>>
  BY StepsSign
<1>. QED
  BY <1>1, <1>2, BaseHolds, IInvHolds, PTL DEF Spec, ImplementsThresholdSigning, Abstract!Spec

-----------------------------------------------------------------------------
(***************************************************************************)
(* Failures have causes: what holds of an attempt whose request id is its  *)
(* own, whatever the others do.                                            *)
(***************************************************************************)
Own(a) == \A b \in Attempts \ {a} : Request[driver][b] # Request[driver][a]

(* Whom the present round of an attempt has called. *)
Called(a) == {Addresses[j] : j \in 1 .. next[a] - 1}

Timely(a) == now - began[a] < REQUEST_TTL_SECS

(* The request a participant has open is the one the attempt was answered for. *)
Entry(a, h, r) ==
  /\ r.id = Request[driver][a]
  /\ r.sighash = Sighash[driver][a] /\ r.alphas = AlphasOf[driver][a]
  /\ r.first = r1[a][h] /\ r.opened_at >= began[a]

(* The shares of h are those that aggregation takes from it. *)
Right(a, h) ==
  \A i \in Actions(a) :
    /\ i \in DOMAIN r2[a][h]
    /\ r2[a][h][i].holder = h
    /\ r2[a][h][i].package = Packages(a)[i]
    /\ r2[a][h][i].alpha = AlphasOf[driver][a][i]

(* An attempt begins with nobody called and nothing committed. *)
Starts(a) ==
  /\ began[a] <= now
  /\ phase[a] = "idle" => next[a] = 1 /\ Committed(a) = {}

(* A frame is late only from a custodian that was called and lost. *)
FramesLost(a) ==
  \A f \in late : f.attempt = a =>
    /\ f.to \in lost[a] /\ phase[a] # "idle"
    /\ (phase[a] = "round1" => f.to \in Called(a))

(* Nobody has the request open before it is called. *)
NotYetOpen(a) ==
  phase[a] \in {"idle", "round1"} =>
    \A h \in Holders \ Called(a) : \A r \in live[h] : r.id # Request[driver][a]

(* In round one, whoever was called has answered or was lost. *)
AnsweredOrLost(a) ==
  /\ phase[a] = "round1" => Called(a) \subseteq Committed(a) \cup lost[a]
  /\ phase[a] = "round2" => Cardinality(Committed(a)) >= Threshold

(* Who answered has the request open until round two calls it. *)
StillOpen(a) ==
  Running(a) /\ Timely(a) =>
    \A h \in Committed(a) \ lost[a] :
      (phase[a] = "round2" /\ h \in Called(a)) \/ \E r \in live[h] : Entry(a, h, r)

(* A chosen participant that round two has called has given its shares. *)
SharesRight(a) ==
  phase[a] = "round2" /\ Timely(a) =>
    \A h \in (Chosen(a) \cap Called(a)) \ lost[a] : Right(a, h)

(* What an attempt may fail for. *)
Cause(a) ==
  \/ Cardinality(lost[a] \ Committed(a)) > N - Threshold
  \/ Chosen(a) \cap lost[a] # {}
  \/ now - began[a] >= REQUEST_TTL_SECS

AttemptInv(a) ==
  /\ Starts(a) /\ FramesLost(a) /\ NotYetOpen(a) /\ AnsweredOrLost(a) /\ StillOpen(a)
  /\ SharesRight(a) /\ (phase[a] = "failed" => Cause(a))

OwnInv == \A a \in Attempts : Own(a) => AttemptInv(a)

-----------------------------------------------------------------------------
(***************************************************************************)
(* A step at h under a request id leaves the requests of other ids, and    *)
(* those of other participants, as they are, but for expired ones.         *)
(***************************************************************************)
Elsewhere(h, id) ==
  /\ now' = now
  /\ \A g \in Holders : \A r : (g # h \/ r.id # id) =>
       /\ r \in live'[g] => r \in live[g]
       /\ r \in live[g] /\ ~ P!Expired(r) => r \in live'[g]

(***************************************************************************)
(* Round one opens a request of its id and drops expired ones.             *)
(***************************************************************************)
LEMMA Round1Elsewhere ==
  ASSUME Base, NEW h \in Holders, NEW id, NEW sighash, NEW alphas,
         P!Round1(h, id, sighash, alphas)
  PROVE  Elsewhere(h, id)
<1>. DEFINE request == [id |-> id, sighash |-> sighash, alphas |-> alphas,
                        first |-> drawn[h] + 1, opened_at |-> now]
<1>1. /\ live' = [live EXCEPT ![h] = P!Unexpired(h) \cup {request}]
      /\ now' = now
      /\ request.id = id
      /\ live \in [Holders -> SUBSET P!Live]
  BY DEF P!Round1, Base, P!TypeOK
<1>. HIDE DEF request
<1>2. ASSUME NEW g \in Holders, g # h
      PROVE  live'[g] = live[g]
  BY <1>1, <1>2
<1>3. live'[h] = P!Unexpired(h) \cup {request}
  BY <1>1
<1>. QED
  BY <1>1, <1>2, <1>3 DEF Elsewhere, P!Unexpired

(***************************************************************************)
(* A refused round one drops expired requests only.                        *)
(***************************************************************************)
LEMMA AlreadyOpenElsewhere ==
  ASSUME Base, NEW h \in Holders, NEW id, P!Round1AlreadyOpen(h, id)
  PROVE  Elsewhere(h, id)
<1>1. /\ live' = [live EXCEPT ![h] = P!Unexpired(h)]
      /\ now' = now
      /\ live \in [Holders -> SUBSET P!Live]
  BY DEF P!Round1AlreadyOpen, Base, P!TypeOK
<1>2. ASSUME NEW g \in Holders, g # h
      PROVE  live'[g] = live[g]
  BY <1>1, <1>2
<1>3. live'[h] = P!Unexpired(h)
  BY <1>1
<1>. QED
  BY <1>1, <1>2, <1>3 DEF Elsewhere, P!Unexpired

(***************************************************************************)
(* Round two takes out a request of its id, signed or refused.             *)
(***************************************************************************)
LEMMA Round2Elsewhere ==
  ASSUME Base, NEW h \in Holders, NEW id, NEW packages,
         P!Round2(h, id, packages) \/ P!Round2Refused(h, id, packages)
  PROVE  Elsewhere(h, id)
<1>1. PICK q \in live[h] :
        /\ q.id = id
        /\ live' = [live EXCEPT ![h] = @ \ {q}]
        /\ now' = now
  BY DEF P!Round2, P!Round2Refused
<1>2. live \in [Holders -> SUBSET P!Live]
  BY DEF Base, P!TypeOK
<1>3. ASSUME NEW g \in Holders, g # h
      PROVE  live'[g] = live[g]
  BY <1>1, <1>2, <1>3
<1>4. live'[h] = live[h] \ {q}
  BY <1>1, <1>2
<1>. QED
  BY <1>1, <1>3, <1>4 DEF Elsewhere

(***************************************************************************)
(* Nothing changes elsewhere when nothing changes at all.                  *)
(***************************************************************************)
LEMMA StillElsewhere ==
  ASSUME UNCHANGED participants, NEW h, NEW id
  PROVE  Elsewhere(h, id)
BY DEF Elsewhere, participants

-----------------------------------------------------------------------------
(***************************************************************************)
(* What a step that is not a's own may do to a.                            *)
(***************************************************************************)
Away(a) ==
  /\ UNCHANGED <<driver, phase[a], next[a], r1[a], r2[a], began[a]>>
  /\ lost[a] \subseteq lost'[a]
  /\ phase[a] = "failed" => lost'[a] = lost[a]
  /\ now <= now'
  /\ \A f \in late' : f.attempt = a => f \in late
  /\ phase[a] \in {"idle", "round1"} =>
       \A h \in Holders \ Called(a) : \A r \in live'[h] :
         r.id = Request[driver][a] => r \in live[h]
  /\ Running(a) =>
       \A h \in Committed(a) \ lost'[a] : \A r \in live[h] :
         r.id = Request[driver][a] /\ ~ P!Expired(r) => r \in live'[h]

(***************************************************************************)
(* The request of an attempt within its deadline is not expired.           *)
(***************************************************************************)
LEMMA EntryIsUnexpired ==
  ASSUME Base, NEW a \in Attempts, NEW h \in Holders, NEW r \in live[h],
         Entry(a, h, r), Timely(a)
  PROVE  ~ P!Expired(r)
<1>1. r.opened_at \in Nat /\ now \in Nat /\ began[a] \in Nat /\ REQUEST_TTL_SECS \in Nat \ {0}
  BY TimeAssumption DEF Base, P!TypeOK, P!Live
<1>. QED
  BY <1>1 DEF Entry, Timely, P!Expired, P!Age

(***************************************************************************)
(* What an attempt chose and asks depends on its commitments only.         *)
(***************************************************************************)
LEMMA SameAttempt ==
  ASSUME NEW a \in Attempts, UNCHANGED <<driver, r1[a]>>
  PROVE  /\ Committed(a)' = Committed(a)
         /\ Chosen(a)' = Chosen(a)
         /\ Packages(a)' = Packages(a)
         /\ Actions(a)' = Actions(a)
<1>1. Committed(a)' = Committed(a)
  BY DEF Committed
<1>2. Chosen(a)' = Chosen(a)
  BY <1>1 DEF Chosen
<1>. QED
  BY <1>1, <1>2 DEF Packages, Actions

(***************************************************************************)
(* What holds of an attempt is kept by the steps that are Away from it.    *)
(***************************************************************************)
LEMMA AwayKeeps ==
  ASSUME Base, Base', NEW a \in Attempts, AttemptInv(a), Away(a)
  PROVE  AttemptInv(a)'
<1>. USE DEF AttemptInv
<1>1. /\ UNCHANGED <<driver, phase[a], next[a], r1[a], r2[a], began[a]>>
      /\ lost[a] \subseteq lost'[a]
      /\ now <= now' /\ now \in Nat /\ now' \in Nat /\ began[a] \in Nat
      /\ REQUEST_TTL_SECS \in Nat
  BY TimeAssumption DEF Away, Base, P!TypeOK
<1>2. /\ Committed(a)' = Committed(a)
      /\ Chosen(a)' = Chosen(a)
      /\ Packages(a)' = Packages(a)
      /\ Actions(a)' = Actions(a)
      /\ Called(a)' = Called(a)
      /\ Running(a)' = Running(a)
  BY <1>1, SameAttempt DEF Called, Running
<1>3. Timely(a)' => Timely(a)
  BY <1>1 DEF Timely
<1>4. Starts(a)'
  BY <1>1, <1>2 DEF Starts
<1>5. FramesLost(a)'
  BY <1>1, <1>2 DEF FramesLost, Away
<1>6. NotYetOpen(a)'
  BY <1>1, <1>2 DEF NotYetOpen, Away
<1>7. AnsweredOrLost(a)'
  BY <1>1, <1>2 DEF AnsweredOrLost
<1>8. StillOpen(a)'
  <2> SUFFICES ASSUME Running(a), Timely(a), NEW h \in Committed(a) \ lost'[a],
                      ~ (phase[a] = "round2" /\ h \in Called(a))
               PROVE  \E r \in live'[h] : Entry(a, h, r)'
    BY <1>1, <1>2, <1>3 DEF StillOpen
  <2>1. h \in Holders /\ h \in Committed(a) \ lost[a]
    BY <1>1 DEF Committed
  <2>2. PICK r \in live[h] : Entry(a, h, r)
    BY <2>1 DEF StillOpen
  <2>3. r \in live'[h]
    BY <2>1, <2>2, EntryIsUnexpired DEF Away, Entry
  <2>4. Entry(a, h, r)'
    BY <1>1, <2>2 DEF Entry
  <2>. QED
    BY <2>3, <2>4
<1>9. SharesRight(a)'
  BY <1>1, <1>2, <1>3 DEF SharesRight, Right
<1>10. phase'[a] = "failed" => Cause(a)'
  <2> SUFFICES ASSUME phase[a] = "failed"
               PROVE  Cause(a)'
    BY <1>1
  <2>1. Cause(a) /\ lost'[a] = lost[a]
    BY DEF Away
  <2>. QED
    BY <1>1, <1>2, <2>1 DEF Cause
<1>. QED
  BY <1>4, <1>5, <1>6, <1>7, <1>8, <1>9, <1>10

-----------------------------------------------------------------------------
(***************************************************************************)
(* A call under another request id than a's is Away from a.                *)
(***************************************************************************)
LEMMA ElsewhereIsAway ==
  ASSUME Base, NEW a \in Attempts, NEW h \in Holders, NEW id, Elsewhere(h, id),
         id # Request[driver][a]
         \/ (h \in lost[a] /\ (phase[a] = "round1" => h \in Called(a)) /\ phase[a] # "idle"),
         UNCHANGED <<driver, phase[a], next[a], r1[a], r2[a], began[a], lost[a]>>,
         \A f \in late' : f.attempt = a => f \in late
  PROVE  Away(a)
<1>1. now' = now /\ now \in Nat
  BY DEF Elsewhere, Base, P!TypeOK
<1>2. \A g \in Holders : \A r : (g # h \/ r.id # id) =>
       /\ r \in live'[g] => r \in live[g]
       /\ r \in live[g] /\ ~ P!Expired(r) => r \in live'[g]
  BY DEF Elsewhere
<1>3. \A g \in Committed(a) : g \in Holders
  BY DEF Committed
<1>. QED
  BY <1>1, <1>2, <1>3 DEF Away

(***************************************************************************)
(* So is a step that leaves the participants alone.                        *)
(***************************************************************************)
LEMMA StillIsAway ==
  ASSUME Base, NEW a \in Attempts,
         UNCHANGED <<participants, driver, phase[a], next[a], r1[a], r2[a], began[a],
                     lost[a], late>>
  PROVE  Away(a)
<1>1. live' = live /\ now' = now /\ now \in Nat
  BY DEF Base, P!TypeOK, participants
<1>. QED
  BY <1>1 DEF Away

(***************************************************************************)
(* What another attempt's function does is Away from a.                    *)
(***************************************************************************)
LEMMA OthersAreAway ==
  ASSUME Base, NEW a \in Attempts, Own(a), NEW b \in Attempts \ {a}, Coordinate(b)
  PROVE  Away(a)
<1>. DEFINE h == Addresses[next[b]]
            id == Request[driver][b]
<1>1. id # Request[driver][a] /\ driver' = driver
  BY DEF Own, Coordinate
<1>2. /\ phase \in [Attempts -> {"idle", "nothing", "round1"} \cup Past]
      /\ next \in [Attempts -> 1 .. N + 1]
      /\ lost \in [Attempts -> SUBSET Holders]
      /\ r1 \in [Attempts -> [Holders -> Nat]]
  BY DEF Base
<1>3. next[b] <= N => h \in Holders
  BY <1>2, AddressesAssumption, SizeAssumption
<1>4. 1 \in Holders \/ N = 0
  BY SizeAssumption DEF Holders
<1>5. CASE Round1Answered(b)
  <2>1. h \in Holders /\ Elsewhere(h, id)
    BY <1>3, <1>5, Round1Elsewhere DEF Round1Answered, MoreToCommit
  <2>2. UNCHANGED <<phase[a], next[a], r1[a], r2[a], began[a], lost[a], late>>
    BY <1>2, <1>5 DEF Round1Answered, Asking
  <2>. QED
    BY <1>1, <2>1, <2>2, ElsewhereIsAway
<1>6. CASE Round1Refused(b)
  <2>1. h \in Holders /\ Elsewhere(h, id)
    BY <1>3, <1>6, AlreadyOpenElsewhere DEF Round1Refused, MoreToCommit
  <2>2. UNCHANGED <<phase[a], next[a], r1[a], r2[a], began[a], lost[a], late>>
    BY <1>2, <1>6 DEF Round1Refused, Asking
  <2>. QED
    BY <1>1, <2>1, <2>2, ElsewhereIsAway
<1>7. CASE Round1Missed(b)
  <2>1. h \in Holders /\ Elsewhere(h, id)
    BY <1>3, <1>7, StillElsewhere DEF Round1Missed, MoreToCommit, Missed
  <2>2. /\ UNCHANGED <<phase[a], next[a], r1[a], r2[a], began[a], lost[a]>>
        /\ \A f \in late' : f.attempt = a => f \in late
    BY <1>2, <1>7 DEF Round1Missed, Asking, Missed
  <2>. QED
    BY <1>1, <2>1, <2>2, ElsewhereIsAway
<1>8. CASE Round2Answered(b)
  <2>1. h \in Holders /\ Elsewhere(h, id)
    BY <1>3, <1>8, Round2Elsewhere DEF Round2Answered, MoreToSign
  <2>2. next' = [next EXCEPT ![b] = @ + 1] /\ UNCHANGED <<phase, r1, began, lost, late>>
    BY <1>8 DEF Round2Answered, Asking
  <2>3. r2'[a] = r2[a]
    BY <1>8 DEF Round2Answered
  <2>4. UNCHANGED <<phase[a], next[a], r1[a], r2[a], began[a], lost[a], late>>
    BY <1>2, <2>2, <2>3
  <2>. QED
    BY <1>1, <2>1, <2>4, ElsewhereIsAway
<1>9. CASE Round2Refused(b)
  <2>1. h \in Holders /\ Elsewhere(h, id)
    BY <1>3, <1>9, Round2Elsewhere, StillElsewhere DEF Round2Refused, MoreToSign
  <2>2. UNCHANGED <<phase[a], next[a], r1[a], r2[a], began[a], lost[a], late>>
    BY <1>2, <1>9 DEF Round2Refused, Asking
  <2>. QED
    BY <1>1, <2>1, <2>2, ElsewhereIsAway
<1>10. CASE Round2Missed(b)
  <2>1. h \in Holders /\ Elsewhere(h, id)
    BY <1>3, <1>10, StillElsewhere DEF Round2Missed, MoreToSign, Missed
  <2>2. /\ UNCHANGED <<phase[a], next[a], r1[a], r2[a], began[a], lost[a]>>
        /\ \A f \in late' : f.attempt = a => f \in late
    BY <1>2, <1>10 DEF Round2Missed, Asking, Missed
  <2>. QED
    BY <1>1, <2>1, <2>2, ElsewhereIsAway
<1>11. CASE PassOver(b)
  <2>1. h \in Holders /\ Elsewhere(h, id)
    BY <1>3, <1>11, StillElsewhere DEF PassOver, MoreToSign
  <2>2. UNCHANGED <<phase[a], next[a], r1[a], r2[a], began[a], lost[a], late>>
    BY <1>2, <1>11 DEF PassOver, Asking
  <2>. QED
    BY <1>1, <2>1, <2>2, ElsewhereIsAway
<1>12. CASE EndRound1(b) \/ EndRound2(b)
  <2>1. UNCHANGED <<participants, phase[a], next[a], r1[a], r2[a], began[a], lost[a], late>>
    BY <1>2, <1>12 DEF EndRound1, EndRound2
  <2>. QED
    BY <1>1, <2>1, StillIsAway
<1>. QED
  BY <1>5, <1>6, <1>7, <1>8, <1>9, <1>10, <1>11, <1>12 DEF Coordinate

(***************************************************************************)
(* So is another attempt's beginning.                                      *)
(***************************************************************************)
LEMMA StartIsAway ==
  ASSUME Base, NEW a \in Attempts, NEW b \in Attempts \ {a}, Start(b)
  PROVE  Away(a)
<1>1. UNCHANGED <<driver, participants, phase[a], next[a], r1[a], r2[a], began[a], lost[a], late>>
  BY DEF Start, NothingToSign, Begin, Base
<1>. QED
  BY <1>1, StillIsAway

(***************************************************************************)
(* So is a late frame of another's; one of a's own reaches a custodian     *)
(* that a has given up.                                                    *)
(***************************************************************************)
LEMMA LateIsAway ==
  ASSUME Base, NEW a \in Attempts, Own(a), FramesLost(a), NEW f \in late,
         LateRound1(f) \/ LateRound2(f), driver' = driver
  PROVE  Away(a)
<1>1. /\ f.attempt \in Attempts /\ f.to \in Holders
      /\ UNCHANGED <<phase, next, r1, lost, began>>
      /\ r2' = r2
      /\ late' = late \ {f}
  BY DEF Base, Frame, LateRound1, LateRound2
<1>. DEFINE id == Request[driver][f.attempt]
<1>2. Elsewhere(f.to, id)
  BY <1>1, Round1Elsewhere, AlreadyOpenElsewhere, Round2Elsewhere, StillElsewhere
  DEF LateRound1, LateRound2
<1>3. CASE f.attempt = a
  <2>1. f.to \in lost[a] /\ (phase[a] = "round1" => f.to \in Called(a)) /\ phase[a] # "idle"
    BY <1>3 DEF FramesLost
  <2>. QED
    BY <1>1, <1>2, <2>1, ElsewhereIsAway
<1>4. CASE f.attempt # a
  <2>1. id # Request[driver][a]
    BY <1>1, <1>4 DEF Own
  <2>. QED
    BY <1>1, <1>2, <2>1, ElsewhereIsAway
<1>. QED
  BY <1>3, <1>4

(***************************************************************************)
(* So is a restart: whoever forgets a request of a is lost to it.          *)
(***************************************************************************)
LEMMA RestartIsAway ==
  ASSUME Base, NEW a \in Attempts, NEW h \in Holders, Restart(h), driver' = driver
  PROVE  Away(a)
<1>1. /\ UNCHANGED <<phase, next, r1, r2, late, began, now>>
      /\ live' = [live EXCEPT ![h] = {}]
      /\ lost' = [c \in Attempts |-> IF Loses(c, h) THEN lost[c] \cup {h} ELSE lost[c]]
      /\ live \in [Holders -> SUBSET P!Live] /\ now \in Nat
  BY DEF Restart, P!Restart, Base, P!TypeOK
<1>2. lost'[a] = IF Loses(a, h) THEN lost[a] \cup {h} ELSE lost[a]
  BY <1>1
<1>3. \A g \in Holders : g # h => live'[g] = live[g]
  BY <1>1
<1>4. live'[h] = {}
  BY <1>1
<1>5. \A g \in Holders : live'[g] \subseteq live[g]
  BY <1>3, <1>4
<1>6. Running(a) => \A g \in Committed(a) \ lost'[a] : g \in Holders /\ g # h
  BY <1>2 DEF Loses, Committed
<1>. QED
  BY <1>1, <1>2, <1>3, <1>5, <1>6 DEF Away, Loses, Running

(***************************************************************************)
(* So is the clock.                                                        *)
(***************************************************************************)
LEMMA TickIsAway ==
  ASSUME Base, NEW a \in Attempts, Tick, driver' = driver
  PROVE  Away(a)
<1>1. /\ UNCHANGED <<driver, phase, next, r1, r2, late, lost, began, live>>
      /\ now' = now + 1 /\ now \in Nat
  BY DEF Tick, P!SetClock, Base, P!TypeOK
<1>. QED
  BY <1>1 DEF Away

-----------------------------------------------------------------------------
(***************************************************************************)
(* The custodians are asked in turn, each of them once.                    *)
(***************************************************************************)
LEMMA InTurn ==
  ASSUME Base, NEW a \in Attempts, next[a] <= N
  PROVE  /\ Addresses[next[a]] \in Holders
         /\ Addresses[next[a]] \notin Called(a)
         /\ next' = [next EXCEPT ![a] = @ + 1]
              => Called(a)' = Called(a) \cup {Addresses[next[a]]}
<1>. DEFINE n == next[a]
<1>1. next \in [Attempts -> 1 .. N + 1] /\ N \in Nat
  BY SizeAssumption DEF Base
<1>2. n \in 1 .. N
  BY <1>1
<1>3. Addresses[n] \in Holders
  BY <1>2, AddressesAssumption
<1>4. \A j \in 1 .. n - 1 : j \in 1 .. N /\ j # n
  BY <1>1, <1>2
<1>5. Addresses[n] \notin Called(a)
  BY <1>2, <1>4, AddressesAssumption DEF Called
<1>6. ASSUME next' = [next EXCEPT ![a] = @ + 1]
      PROVE  Called(a)' = Called(a) \cup {Addresses[n]}
  <2>1. next'[a] = n + 1
    BY <1>1, <1>6
  <2>2. 1 .. next'[a] - 1 = (1 .. n - 1) \cup {n}
    BY <1>2, <2>1
  <2>. QED
    BY <2>2 DEF Called
<1>. QED
  BY <1>3, <1>5, <1>6

(***************************************************************************)
(* When every address was asked, everybody was.                            *)
(***************************************************************************)
LEMMA AllCalled ==
  ASSUME Base, NEW a \in Attempts, next[a] > N
  PROVE  Called(a) = Holders
<1>0. next[a] \in 1 .. N + 1 /\ N \in Nat
  BY SizeAssumption DEF Base
<1>1. next[a] - 1 = N /\ N \in Nat
  BY <1>0
<1>2. Addresses \in Injection(Holders, Holders)
  BY AddressesAssumption DEF Injection, IsInjective, Holders
<1>3. IsFiniteSet(Holders)
  BY <1>1, FS_Interval DEF Holders
<1>4. Addresses \in Surjection(Holders, Holders)
  BY <1>2, <1>3, FS_Injection
<1>5. \A h \in Holders : \E j \in Holders : Addresses[j] = h
  BY <1>4 DEF Surjection
<1>6. \A j \in Holders : Addresses[j] \in Holders
  BY AddressesAssumption DEF Holders
<1>. QED
  BY <1>1, <1>5, <1>6 DEF Called, Holders

(***************************************************************************)
(* If enough committed, enough are chosen: the least of those left out     *)
(* would have been chosen before.                                          *)
(***************************************************************************)
LEMMA ChosenEnough ==
  ASSUME Base, NEW a \in Attempts, Cardinality(Committed(a)) >= Threshold
  PROVE  Cardinality(Chosen(a)) >= Threshold
<1>. DEFINE Left == Committed(a) \ Chosen(a)
<1>1. IsFiniteSet(Holders) /\ Threshold \in Nat /\ Holders \subseteq Nat
  BY FS_Interval, SizeAssumption DEF Holders
<1>2. Chosen(a) \subseteq Committed(a) /\ Committed(a) \subseteq Holders
  BY DEF Chosen, Committed
<1>3. \A S \in SUBSET Holders : IsFiniteSet(S) /\ Cardinality(S) \in Nat
  BY <1>1, FS_Subset, FS_CardinalityType
<1>4. CASE Left = {}
  BY <1>2, <1>4
<1>5. CASE Left # {}
  <2>1. PICK m \in Left : \A g \in Left : m <= g
    BY <1>1, <1>2, <1>5, LeastNat
  <2>. DEFINE Below == {g \in Committed(a) : g < m}
  <2>2. Cardinality(Below) >= Threshold
    BY <1>1, <1>2, <1>3, <2>1 DEF Chosen
  <2>3. Below \subseteq Chosen(a)
    <3> SUFFICES ASSUME NEW g \in Below, g \notin Chosen(a)
                 PROVE  FALSE
      OBVIOUS
    <3>1. g \in Left /\ g < m /\ g \in Nat /\ m \in Nat
      BY <1>1, <1>2
    <3>. QED
      BY <2>1, <3>1
  <2>4. Cardinality(Below) <= Cardinality(Chosen(a))
    BY <1>2, <1>3, <2>3, FS_Subset
  <2>. QED
    BY <1>1, <1>2, <1>3, <2>2, <2>3, <2>4
<1>. QED
  BY <1>4, <1>5

-----------------------------------------------------------------------------
(***************************************************************************)
(* An attempt begins.                                                      *)
(***************************************************************************)
LEMMA BeginKeeps ==
  ASSUME Base, NEW a \in Attempts, AttemptInv(a), Start(a)
  PROVE  AttemptInv(a)'
<1>1. /\ phase[a] = "idle" /\ phase'[a] \in {"round1", "nothing"}
      /\ UNCHANGED <<driver, next, r1, r2, late, lost, live, now>>
      /\ began'[a] = now \/ began'[a] = began[a]
      /\ now \in Nat
  BY DEF Start, NothingToSign, Begin, Base, P!TypeOK, participants
<1>2. Committed(a)' = Committed(a) /\ Called(a)' = Called(a)
  BY <1>1 DEF Committed, Called
<1>3. Committed(a) = {} /\ next[a] = 1
  BY <1>1 DEF AttemptInv, Starts
<1>4. Called(a) = {}
  BY <1>3 DEF Called
<1>5. Starts(a)'
  BY <1>1 DEF AttemptInv, Starts
<1>6. FramesLost(a)'
  BY <1>1 DEF AttemptInv, FramesLost
<1>7. NotYetOpen(a)'
  BY <1>1, <1>2 DEF AttemptInv, NotYetOpen
<1>8. AnsweredOrLost(a)'
  BY <1>1, <1>2, <1>4 DEF AnsweredOrLost
<1>9. StillOpen(a)'
  BY <1>2, <1>3 DEF StillOpen
<1>10. SharesRight(a)' /\ phase'[a] # "failed"
  BY <1>1 DEF SharesRight
<1>. QED
  BY <1>5, <1>6, <1>7, <1>8, <1>9, <1>10 DEF AttemptInv

(***************************************************************************)
(* A participant answers round one: it has the request open, under nonces  *)
(* it drew for it.                                                         *)
(***************************************************************************)
LEMMA Round1AnsweredKeeps ==
  ASSUME Base, NEW a \in Attempts, AttemptInv(a), Round1Answered(a), driver' = driver
  PROVE  AttemptInv(a)'
<1>. DEFINE h == Addresses[next[a]]
            id == Request[driver][a]
<1>0. PICK request : request = [id |-> id, sighash |-> Sighash[driver][a],
                                alphas |-> AlphasOf[driver][a],
                                first |-> drawn[h] + 1, opened_at |-> now]
  OBVIOUS
<1>1. /\ phase[a] = "round1" /\ next[a] <= N
      /\ next' = [next EXCEPT ![a] = @ + 1]
      /\ UNCHANGED <<phase, began, r2, late, lost, now>>
      /\ r1' = [r1 EXCEPT ![a][h] = drawn[h] + 1]
      /\ live' = [live EXCEPT ![h] = P!Unexpired(h) \cup {request}]
  BY <1>0 DEF Round1Answered, MoreToCommit, Asking, P!Round1
<1>2. /\ r1 \in [Attempts -> [Holders -> Nat]]
      /\ live \in [Holders -> SUBSET P!Live]
      /\ now \in Nat /\ drawn \in [Holders -> Nat]
  BY DEF Base, P!TypeOK
<1>3. /\ h \in Holders /\ h \notin Called(a)
      /\ Called(a)' = Called(a) \cup {h}
  BY <1>1, InTurn
<1>4. Elsewhere(h, id)
  BY <1>3, Round1Elsewhere DEF Round1Answered
<1>5. /\ \A g \in Holders : r1'[a][g] = IF g = h THEN drawn[h] + 1 ELSE r1[a][g]
      /\ drawn[h] + 1 # 0
      /\ request \in live'[h]
  BY <1>1, <1>2, <1>3
<1>6. /\ request.id = id /\ request.sighash = Sighash[driver][a]
      /\ request.alphas = AlphasOf[driver][a]
      /\ request.first = drawn[h] + 1 /\ request.opened_at = now
  BY <1>0
<1>. HIDE DEF h, id
<1>7. Committed(a)' = Committed(a) \cup {h}
  BY <1>3, <1>5 DEF Committed
<1>8. Starts(a)'
  BY <1>1 DEF AttemptInv, Starts
<1>9. FramesLost(a)'
  BY <1>1, <1>3 DEF AttemptInv, FramesLost
<1>10. NotYetOpen(a)'
  BY <1>1, <1>3, <1>4 DEF AttemptInv, NotYetOpen, Elsewhere
<1>11. AnsweredOrLost(a)'
  BY <1>1, <1>3, <1>7 DEF AttemptInv, AnsweredOrLost
<1>12. StillOpen(a)'
  <2> SUFFICES ASSUME Timely(a), NEW g \in (Committed(a) \cup {h}) \ lost[a]
               PROVE  \E r \in live'[g] : Entry(a, g, r)'
    BY <1>1, <1>7 DEF StillOpen, Timely
  <2>1. CASE g = h
    <3>1. Entry(a, g, request)'
      BY <1>1, <1>2, <1>3, <1>5, <1>6, <2>1 DEF Entry, AttemptInv, Starts, id
    <3>. QED
      BY <1>5, <2>1, <3>1
  <2>2. CASE g # h
    <3>1. g \in Holders
      BY <2>2 DEF Committed
    <3>2. PICK r \in live[g] : Entry(a, g, r)
      BY <1>1, <2>2 DEF AttemptInv, StillOpen, Running
    <3>3. r \in live'[g]
      BY <1>4, <2>2, <3>1, <3>2, EntryIsUnexpired DEF Elsewhere
    <3>4. Entry(a, g, r)'
      BY <1>1, <1>5, <2>2, <3>1, <3>2 DEF Entry
    <3>. QED
      BY <3>3, <3>4
  <2>. QED
    BY <2>1, <2>2
<1>13. SharesRight(a)' /\ phase'[a] # "failed"
  BY <1>1 DEF SharesRight
<1>. QED
  BY <1>8, <1>9, <1>10, <1>11, <1>12, <1>13 DEF AttemptInv

(***************************************************************************)
(* No participant refuses round one of a request id that nobody shares.    *)
(***************************************************************************)
LEMMA Round1RefusesNobody ==
  ASSUME Base, NEW a \in Attempts, AttemptInv(a), Round1Refused(a)
  PROVE  FALSE
<1>1. phase[a] = "round1" /\ next[a] <= N
  BY DEF Round1Refused, MoreToCommit, Asking
<1>2. Addresses[next[a]] \in Holders \ Called(a)
  BY <1>1, InTurn
<1>3. PICK r \in live[Addresses[next[a]]] : r.id = Request[driver][a]
  BY DEF Round1Refused, P!Round1AlreadyOpen, P!Unexpired
<1>. QED
  BY <1>1, <1>2, <1>3 DEF AttemptInv, NotYetOpen

(***************************************************************************)
(* A call of round one is missed.                                          *)
(***************************************************************************)
LEMMA Round1MissedKeeps ==
  ASSUME Base, NEW a \in Attempts, AttemptInv(a), Round1Missed(a), driver' = driver
  PROVE  AttemptInv(a)'
<1>. DEFINE h == Addresses[next[a]]
<1>1. /\ phase[a] = "round1" /\ next[a] <= N
      /\ next' = [next EXCEPT ![a] = @ + 1]
      /\ UNCHANGED <<phase, began, r1, r2, live, now>>
      /\ lost' = [lost EXCEPT ![a] = @ \cup {h}]
      /\ \A f \in late' : f \in late \/ f.to = h
  BY DEF Round1Missed, MoreToCommit, Asking, Missed, participants
<1>2. lost'[a] = lost[a] \cup {h}
  BY <1>1 DEF Base
<1>3. /\ h \in Holders
      /\ Called(a)' = Called(a) \cup {h}
  BY <1>1, InTurn
<1>4. Committed(a)' = Committed(a)
  BY <1>1, SameAttempt
<1>. HIDE DEF h
<1>8. Starts(a)'
  BY <1>1 DEF AttemptInv, Starts
<1>9. FramesLost(a)'
  BY <1>1, <1>2, <1>3 DEF AttemptInv, FramesLost
<1>10. NotYetOpen(a)'
  BY <1>1, <1>3 DEF AttemptInv, NotYetOpen
<1>11. AnsweredOrLost(a)'
  BY <1>1, <1>2, <1>3, <1>4 DEF AttemptInv, AnsweredOrLost
<1>12. StillOpen(a)'
  BY <1>1, <1>2, <1>4 DEF AttemptInv, StillOpen, Running, Timely, Entry
<1>13. SharesRight(a)' /\ phase'[a] # "failed"
  BY <1>1 DEF SharesRight
<1>. QED
  BY <1>8, <1>9, <1>10, <1>11, <1>12, <1>13 DEF AttemptInv

(***************************************************************************)
(* Round one ends: whoever was asked and did not answer was lost, so an    *)
(* attempt that has too few answers has lost too many.                     *)
(***************************************************************************)
LEMMA EndRound1Keeps ==
  ASSUME Base, NEW a \in Attempts, AttemptInv(a), EndRound1(a), driver' = driver
  PROVE  AttemptInv(a)'
<1>1. /\ phase[a] = "round1" /\ ~ MoreToCommit(a)
      /\ UNCHANGED <<r1, r2, late, lost, began, live, now>>
      /\ \/ /\ Cardinality(Committed(a)) < Threshold
            /\ phase'[a] = "failed" /\ next' = next
         \/ /\ ~ (Cardinality(Committed(a)) < Threshold)
            /\ phase'[a] = "round2" /\ next'[a] = 1
  BY DEF EndRound1, participants, Base
<1>2. /\ Committed(a)' = Committed(a)
      /\ Chosen(a)' = Chosen(a)
  BY <1>1, SameAttempt
<1>3. IsFiniteSet(Holders) /\ Cardinality(Holders) = N /\ N \in Nat /\ Threshold \in Nat
  BY FS_Interval, SizeAssumption DEF Holders
<1>4. /\ Committed(a) \subseteq Holders /\ lost[a] \subseteq Holders
      /\ IsFiniteSet(Committed(a)) /\ Cardinality(Committed(a)) \in Nat
  BY <1>3, FS_Subset, FS_CardinalityType DEF Committed, Base
<1>5. /\ Starts(a)' /\ FramesLost(a)' /\ NotYetOpen(a)'
  BY <1>1 DEF AttemptInv, Starts, FramesLost, NotYetOpen
<1>6. CASE phase'[a] = "failed"
  <2>1. next[a] > N /\ Cardinality(Committed(a)) < Threshold
    BY <1>1, <1>3, <1>4, <1>6 DEF MoreToCommit, Base
  <2>2. Called(a) = Holders
    BY <2>1, AllCalled
  <2>3. lost[a] \ Committed(a) = Holders \ Committed(a)
    BY <1>1, <1>4, <2>2 DEF AttemptInv, AnsweredOrLost
  <2>4. Cardinality(Holders \ Committed(a)) = N - Cardinality(Committed(a))
    <3>1. Holders \cap Committed(a) = Committed(a)
      BY <1>4
    <3>. QED
      BY <1>3, <3>1, FS_Difference
  <2>5. (lost[a] \ Committed(a))' = Holders \ Committed(a)
    BY <1>1, <1>2, <2>3
  <2>6. Cardinality(Holders \ Committed(a)) > N - Threshold
    BY <1>3, <1>4, <2>1, <2>4
  <2>7. Cause(a)'
    BY <2>5, <2>6 DEF Cause
  <2>. QED
    BY <1>5, <1>6, <2>7 DEF AttemptInv, AnsweredOrLost, StillOpen, SharesRight, Running
<1>7. CASE phase'[a] = "round2"
  <2>1. Cardinality(Committed(a)) >= Threshold
    BY <1>1, <1>3, <1>4, <1>7
  <2>2. Called(a)' = {}
    BY <1>1, <1>7 DEF Called
  <2>3. StillOpen(a)'
    BY <1>1, <1>2, <1>7 DEF AttemptInv, StillOpen, Running, Timely, Entry
  <2>4. SharesRight(a)'
    BY <2>2 DEF SharesRight
  <2>. QED
    BY <1>2, <1>5, <1>7, <2>1, <2>3, <2>4 DEF AttemptInv, AnsweredOrLost
<1>. QED
  BY <1>1, <1>6, <1>7

-----------------------------------------------------------------------------
(***************************************************************************)
(* What a step of round two that calls h at most leaves as it was.         *)
(***************************************************************************)
Round2Steps(a, h) ==
  /\ phase[a] = "round2" /\ next[a] <= N
  /\ next' = [next EXCEPT ![a] = @ + 1]
  /\ UNCHANGED <<driver, phase, began, r1>>
  /\ h = Addresses[next[a]]
  /\ Elsewhere(h, Request[driver][a])
  /\ lost[a] \subseteq lost'[a]
  /\ \A f \in late' : f \in late \/ f.attempt # a \/ f.to \in lost'[a]
  /\ \A g \in Holders : g # h => r2'[a][g] = r2[a][g]

(***************************************************************************)
(* It keeps what holds of the attempt if the shares of h are right, or     *)
(* nothing is expected of h.                                               *)
(***************************************************************************)
LEMMA Round2Keeps ==
  ASSUME Base, Base', NEW a \in Attempts, AttemptInv(a), NEW h, Round2Steps(a, h),
         h \in Chosen(a) \ lost'[a] /\ Timely(a) => Right(a, h)'
  PROVE  AttemptInv(a)'
<1>1. /\ phase[a] = "round2" /\ next[a] <= N /\ phase'[a] = "round2"
      /\ next' = [next EXCEPT ![a] = @ + 1]
      /\ UNCHANGED <<driver, phase, began, r1, now>>
      /\ lost[a] \subseteq lost'[a]
      /\ h = Addresses[next[a]]
  BY DEF Round2Steps, Elsewhere
<1>2. h \in Holders /\ Called(a)' = Called(a) \cup {h}
  BY <1>1, InTurn
<1>3. /\ Committed(a)' = Committed(a)
      /\ Chosen(a)' = Chosen(a)
      /\ Packages(a)' = Packages(a)
      /\ Actions(a)' = Actions(a)
  BY <1>1, SameAttempt
<1>4. Starts(a)'
  BY <1>1 DEF AttemptInv, Starts
<1>5. FramesLost(a)'
  <2> SUFFICES ASSUME NEW f \in late', f.attempt = a
               PROVE  f.to \in lost'[a]
    BY <1>1 DEF FramesLost
  <2>. QED
    BY <1>1 DEF AttemptInv, FramesLost, Round2Steps
<1>6. NotYetOpen(a)'
  BY <1>1 DEF NotYetOpen
<1>7. AnsweredOrLost(a)'
  BY <1>1, <1>3 DEF AttemptInv, AnsweredOrLost
<1>8. StillOpen(a)'
  <2> SUFFICES ASSUME Timely(a), NEW g \in Committed(a) \ lost'[a],
                      g \notin Called(a) \cup {h}
               PROVE  \E r \in live'[g] : Entry(a, g, r)'
    BY <1>1, <1>2, <1>3 DEF StillOpen, Timely
  <2>1. g \in Holders /\ g \in Committed(a) \ lost[a] /\ g # h
    BY <1>1 DEF Committed
  <2>2. PICK r \in live[g] : Entry(a, g, r)
    BY <1>1, <2>1 DEF AttemptInv, StillOpen, Running
  <2>3. r \in live'[g]
    BY <2>1, <2>2, EntryIsUnexpired DEF Round2Steps, Elsewhere
  <2>4. Entry(a, g, r)'
    BY <1>1, <2>2 DEF Entry
  <2>. QED
    BY <2>3, <2>4
<1>9. SharesRight(a)'
  <2> SUFFICES ASSUME Timely(a), NEW g \in (Chosen(a) \cap (Called(a) \cup {h})) \ lost'[a]
               PROVE  Right(a, g)'
    BY <1>1, <1>2, <1>3 DEF SharesRight, Timely
  <2>1. CASE g = h
    BY <2>1
  <2>2. CASE g # h
    <3>1. g \in Holders
      BY DEF Chosen, Committed
    <3>2. r2'[a][g] = r2[a][g]
      BY <2>2, <3>1 DEF Round2Steps
    <3>3. Right(a, g)
      BY <1>1, <2>2 DEF AttemptInv, SharesRight
    <3>. QED
      BY <1>1, <1>3, <3>2, <3>3 DEF Right
  <2>. QED
    BY <2>1, <2>2
<1>. QED
  BY <1>1, <1>4, <1>5, <1>6, <1>7, <1>8, <1>9 DEF AttemptInv

(***************************************************************************)
(* A participant that an attempt chose, and has not lost, has its request  *)
(* open until round two calls it, and finds its packages as they should be.*)
(***************************************************************************)
LEMMA ChosenSigns ==
  ASSUME Base, PP!IInv, NEW a \in Attempts, AttemptInv(a), phase[a] = "round2", Timely(a),
         NEW h \in Chosen(a) \ lost[a], h \notin Called(a)
  PROVE  \E r \in live[h] :
           /\ Entry(a, h, r)
           /\ \A q \in live[h] : q.id = Request[driver][a] => q = r
           /\ P!Signable(h, r, Packages(a))
<1>1. h \in Committed(a) /\ h \in Holders
  BY DEF Chosen, Committed
<1>2. PICK r \in live[h] : Entry(a, h, r)
  BY <1>1 DEF AttemptInv, StillOpen, Running
<1>3. \A q \in live[h] : q.id = Request[driver][a] => q = r
  BY <1>1, <1>2 DEF Entry, PP!IInv, PP!DrawInv, PP!RequestsDisjoint
<1>4. r.alphas = AlphasOf[driver][a] /\ r.sighash = Sighash[driver][a] /\ r.first = r1[a][h]
  BY <1>2 DEF Entry
<1>5. Len(Packages(a)) = Len(r.alphas) /\ 1 .. Len(r.alphas) = Actions(a)
  BY <1>4, PackagesTyped DEF Actions
<1>6. Cardinality(Chosen(a)) >= Threshold
  BY ChosenEnough DEF AttemptInv, AnsweredOrLost
<1>7. ASSUME NEW i \in Actions(a)
      PROVE  /\ Packages(a)[i].message = r.sighash
             /\ P!Listed(h, Packages(a)[i], P!Nonce(r, i))
  <2>1. Packages(a)[i] = [message |-> Sighash[driver][a],
                          commitments |-> [g \in Chosen(a) |-> r1[a][g] + i - 1]]
    BY DEF Packages
  <2>2. /\ DOMAIN Packages(a)[i].commitments = Chosen(a)
        /\ Packages(a)[i].commitments[h] = r1[a][h] + i - 1
    BY <2>1
  <2>3. P!Cardinality(Chosen(a)) = Cardinality(Chosen(a))
    BY DEF P!Cardinality, Cardinality, P!IsFiniteSet, IsFiniteSet
  <2>. QED
    BY <1>4, <1>6, <2>1, <2>2, <2>3 DEF P!Listed, P!Nonce
<1>8. P!Signable(h, r, Packages(a))
  BY <1>5, <1>7 DEF P!Signable
<1>. QED
  BY <1>2, <1>3, <1>8

(***************************************************************************)
(* A participant answers round two: with the right shares, if chosen.      *)
(***************************************************************************)
LEMMA Round2AnsweredKeeps ==
  ASSUME Base, Base', PP!IInv, NEW a \in Attempts, AttemptInv(a), Round2Answered(a),
         driver' = driver, r2 \in [Attempts -> [Holders -> Seq(P!ShareType)]]
  PROVE  AttemptInv(a)'
<1>0. PICK h : h = Addresses[next[a]]
  OBVIOUS
<1>. DEFINE id == Request[driver][a]
            shares == [i \in Actions(a) |-> P!Share(h, RequestOf(h, id), Packages(a), i)]
<1>1. /\ phase[a] = "round2" /\ next[a] <= N
      /\ next' = [next EXCEPT ![a] = @ + 1]
      /\ UNCHANGED <<phase, began, r1, late, lost>>
      /\ P!Round2(h, id, Packages(a))
      /\ r2' = IF h \in Chosen(a) THEN [r2 EXCEPT ![a][h] = shares] ELSE r2
  BY <1>0 DEF Round2Answered, MoreToSign, Asking
<1>2. h \in Holders /\ h \notin Called(a)
  BY <1>0, <1>1, InTurn
<1>3. Elsewhere(h, id)
  BY <1>1, <1>2, Round2Elsewhere
<1>4. \A g \in Holders : g # h => r2'[a][g] = r2[a][g]
  BY <1>1
<1>5. Round2Steps(a, h)
  BY <1>0, <1>1, <1>3, <1>4 DEF Round2Steps
<1>6. ASSUME h \in Chosen(a) \ lost[a], Timely(a)
      PROVE  Right(a, h)'
  <2>1. PICK r \in live[h] :
          /\ Entry(a, h, r)
          /\ \A q \in live[h] : q.id = id => q = r
    BY <1>1, <1>2, <1>6, ChosenSigns
  <2>2. RequestOf(h, id) = r
    BY <2>1 DEF RequestOf, Entry
  <2>3. r2'[a][h] = shares
    BY <1>1, <1>2, <1>6
  <2>4. /\ Packages(a)' = Packages(a)
        /\ Actions(a)' = Actions(a)
    BY <1>1, SameAttempt
  <2>. QED
    BY <1>1, <2>1, <2>2, <2>3, <2>4 DEF Right, Entry, P!Share
<1>. QED
  BY <1>1, <1>5, <1>6, Round2Keeps

(***************************************************************************)
(* A participant that was chosen and not lost does not refuse round two    *)
(* before the deadline.                                                    *)
(***************************************************************************)
LEMMA Round2RefusedKeeps ==
  ASSUME Base, Base', PP!IInv, NEW a \in Attempts, AttemptInv(a), Round2Refused(a),
         driver' = driver
  PROVE  AttemptInv(a)'
<1>0. PICK h : h = Addresses[next[a]]
  OBVIOUS
<1>. DEFINE id == Request[driver][a]
<1>1. /\ phase[a] = "round2" /\ next[a] <= N
      /\ next' = [next EXCEPT ![a] = @ + 1]
      /\ UNCHANGED <<phase, began, r1, r2, late, lost>>
      /\ \/ P!Round2Refused(h, id, Packages(a))
         \/ NoSuchRequest(h, id) /\ UNCHANGED participants
  BY <1>0 DEF Round2Refused, MoreToSign, Asking
<1>2. h \in Holders /\ h \notin Called(a)
  BY <1>0, <1>1, InTurn
<1>3. Elsewhere(h, id)
  BY <1>1, <1>2, Round2Elsewhere, StillElsewhere
<1>4. Round2Steps(a, h)
  BY <1>0, <1>1, <1>3 DEF Round2Steps
<1>5. ASSUME h \in Chosen(a) \ lost[a], Timely(a)
      PROVE  FALSE
  <2>1. PICK r \in live[h] :
          /\ Entry(a, h, r)
          /\ \A q \in live[h] : q.id = id => q = r
          /\ P!Signable(h, r, Packages(a))
    BY <1>1, <1>2, <1>5, ChosenSigns
  <2>2. ~ NoSuchRequest(h, id)
    BY <2>1 DEF NoSuchRequest, Entry
  <2>3. ~ P!Round2Refused(h, id, Packages(a))
    BY <2>1 DEF P!Round2Refused
  <2>. QED
    BY <1>1, <2>2, <2>3
<1>. QED
  BY <1>1, <1>4, <1>5, Round2Keeps

(***************************************************************************)
(* Nothing is expected of a participant whose call is missed, or that was  *)
(* not chosen and is passed over.                                          *)
(***************************************************************************)
LEMMA Round2MissedKeeps ==
  ASSUME Base, Base', NEW a \in Attempts, AttemptInv(a), Round2Missed(a) \/ PassOver(a),
         driver' = driver
  PROVE  AttemptInv(a)'
<1>0. PICK h : h = Addresses[next[a]]
  OBVIOUS
<1>1. /\ phase[a] = "round2" /\ next[a] <= N
      /\ next' = [next EXCEPT ![a] = @ + 1]
      /\ UNCHANGED <<phase, began, r1, r2, participants>>
      /\ \/ /\ lost' = [lost EXCEPT ![a] = @ \cup {h}]
            /\ \A f \in late' : f \in late \/ f.to = h
         \/ UNCHANGED <<lost, late>> /\ h \notin Asks(a)
  BY <1>0 DEF Round2Missed, PassOver, Missed, MoreToSign, Asking
<1>2. h \in Holders
  BY <1>0, <1>1, InTurn
<1>3. \/ lost'[a] = lost[a] \cup {h} /\ \A f \in late' : f \in late \/ f.to = h
      \/ UNCHANGED <<lost, late>> /\ h \notin Chosen(a)
  BY <1>1, <1>2 DEF Asks, Base
<1>4. Elsewhere(h, Request[driver][a])
  BY <1>1, StillElsewhere
<1>5. Round2Steps(a, h)
  BY <1>0, <1>1, <1>3, <1>4 DEF Round2Steps
<1>6. h \notin Chosen(a) \ lost'[a]
  BY <1>3
<1>. QED
  BY <1>5, <1>6, Round2Keeps

(***************************************************************************)
(* Round two ends: an attempt that chose enough, lost none of them and is  *)
(* within its deadline has every share that aggregation checks.            *)
(***************************************************************************)
LEMMA EndRound2Keeps ==
  ASSUME Base, ToSign, NEW a \in Attempts, AttemptInv(a), EndRound2(a), driver' = driver
  PROVE  AttemptInv(a)'
<1>1. /\ phase[a] = "round2" /\ ~ MoreToSign(a)
      /\ UNCHANGED <<next, r1, r2, late, lost, began, live, now>>
      /\ phase'[a] \in {"signed", "failed"}
      /\ phase'[a] = "failed" => ~ (Cardinality(Answered(a)) >= Threshold /\ Aggregates(a))
  BY DEF EndRound2, participants, Base
<1>2. /\ Committed(a)' = Committed(a)
      /\ Chosen(a)' = Chosen(a)
  BY <1>1, SameAttempt
<1>3. ASSUME ~ Cause(a)
      PROVE  Cardinality(Answered(a)) >= Threshold /\ Aggregates(a)
  <2>1. Chosen(a) \cap lost[a] = {} /\ Timely(a)
    <3>1. now \in Nat /\ began[a] \in Nat /\ REQUEST_TTL_SECS \in Nat
      BY TimeAssumption DEF Base, P!TypeOK
    <3>. QED
      BY <1>3, <3>1 DEF Cause, Timely
  <2>2. Called(a) = Holders
    <3>1. next[a] \in 1 .. N + 1 /\ N \in Nat
      BY SizeAssumption DEF Base
    <3>. QED
      BY <1>1, <3>1, AllCalled DEF MoreToSign
  <2>3. Chosen(a) \subseteq Holders
    BY DEF Chosen, Committed
  <2>4. \A h \in Chosen(a) : Right(a, h)
    BY <1>1, <2>1, <2>2, <2>3 DEF AttemptInv, SharesRight
  <2>5. Aggregates(a)
    BY <2>4 DEF Aggregates, Right
  <2>6. Chosen(a) \subseteq Answered(a)
    <3>1. PICK i \in Actions(a) : TRUE
      BY <1>1 DEF ToSign, Past
    <3>2. ASSUME NEW h \in Chosen(a)
          PROVE  r2[a][h] # << >>
      <4>1. i \in DOMAIN r2[a][h]
        BY <2>4, <3>1 DEF Right
      <4>. QED
        BY <4>1, EmptySeq
    <3>. QED
      BY <2>3, <3>2 DEF Answered
  <2>7. Cardinality(Chosen(a)) >= Threshold
    BY <1>1, ChosenEnough DEF AttemptInv, AnsweredOrLost
  <2>8. IsFiniteSet(Holders)
    BY FS_Interval, SizeAssumption DEF Holders
  <2>9. Answered(a) \subseteq Holders
    BY DEF Answered
  <2>10. /\ Cardinality(Chosen(a)) <= Cardinality(Answered(a))
         /\ Cardinality(Chosen(a)) \in Nat /\ Cardinality(Answered(a)) \in Nat
    BY <2>3, <2>6, <2>8, <2>9, FS_Subset, FS_CardinalityType
  <2>. QED
    BY <2>5, <2>7, <2>10, SizeAssumption
<1>4. phase'[a] = "failed" => Cause(a)'
  <2>1. phase'[a] = "failed" => Cause(a)
    BY <1>1, <1>3
  <2>. QED
    BY <1>1, <1>2, <2>1 DEF Cause
<1>5. /\ Starts(a)' /\ FramesLost(a)' /\ NotYetOpen(a)' /\ AnsweredOrLost(a)'
      /\ StillOpen(a)' /\ SharesRight(a)'
  BY <1>1
  DEF AttemptInv, Starts, FramesLost, NotYetOpen, AnsweredOrLost, StillOpen, SharesRight,
      Running
<1>. QED
  BY <1>4, <1>5 DEF AttemptInv

-----------------------------------------------------------------------------
(***************************************************************************)
(* Every step keeps what holds of the attempts with an id of their own.    *)
(***************************************************************************)
LEMMA OwnKept ==
  ASSUME Base, Base', PP!IInv, IInv, OwnInv, [Next]_vars
  PROVE  OwnInv'
<1>1. driver' = driver
  BY Commitments
<1> SUFFICES ASSUME NEW a \in Attempts, Own(a)
             PROVE  AttemptInv(a)'
  BY <1>1 DEF OwnInv, Own
<1>2. AttemptInv(a)
  BY DEF OwnInv
<1>3. CASE Start(a)
  BY <1>2, <1>3, BeginKeeps
<1>4. CASE Coordinate(a)
  <2>1. ToSign /\ r2 \in [Attempts -> [Holders -> Seq(P!ShareType)]]
    BY DEF IInv
  <2>. QED
    BY <1>1, <1>2, <1>4, <2>1, Round1AnsweredKeeps, Round1RefusesNobody, Round1MissedKeeps,
       EndRound1Keeps, Round2AnsweredKeeps, Round2RefusedKeeps, Round2MissedKeeps,
       EndRound2Keeps
    DEF Coordinate
<1>5. CASE \E b \in Attempts \ {a} : Start(b) \/ Coordinate(b)
  BY <1>2, <1>5, StartIsAway, OthersAreAway, AwayKeeps
<1>6. CASE Environment
  <2>1. Away(a)
    BY <1>1, <1>2, <1>6, LateIsAway, RestartIsAway, TickIsAway DEF Environment, AttemptInv
  <2>. QED
    BY <1>2, <2>1, AwayKeeps
<1>7. CASE UNCHANGED vars
  <2>1. Away(a)
    BY <1>7, StillIsAway DEF vars, coordinators
  <2>. QED
    BY <1>2, <2>1, AwayKeeps
<1>. QED
  BY <1>3, <1>4, <1>5, <1>6, <1>7 DEF Next

(***************************************************************************)
(* The inductive invariant of the attempts with an id of their own.        *)
(***************************************************************************)
THEOREM OwnInvHolds == Spec => []OwnInv
<1>1. Init => OwnInv
  <2> SUFFICES ASSUME Init, NEW a \in Attempts
               PROVE  AttemptInv(a)
    BY DEF OwnInv
  <2>1. /\ phase[a] = "idle" /\ next[a] = 1 /\ began[a] = 0 /\ now = 0 /\ late = {}
        /\ \A h \in Holders : r1[a][h] = 0 /\ live[h] = {}
    BY DEF Init, P!Init
  <2>2. Committed(a) = {}
    BY <2>1 DEF Committed
  <2>. QED
    BY <2>1, <2>2
    DEF AttemptInv, Starts, FramesLost, NotYetOpen, AnsweredOrLost, StillOpen, SharesRight,
        Running
<1>2. Base /\ Base' /\ PP!IInv /\ IInv /\ OwnInv /\ [Next]_vars => OwnInv'
  BY OwnKept
<1>. QED
  BY <1>1, <1>2, BaseHolds, IInvHolds, ParticipantsHold, PTL DEF Spec

(***************************************************************************)
(* An attempt under a request id of its own fails only because more        *)
(* custodians missed round one than the vault has to spare, one of those   *)
(* it chose was lost, or the deadline passed, whatever the other attempts  *)
(* and late frames do (payout.rs: a fresh id "so a retry never collides    *)
(* with nonces a custodian may still hold").                               *)
(***************************************************************************)
THEOREM FailsForCauseHolds == Spec => []FailsForCause
<1>1. OwnInv => FailsForCause
  BY DEF OwnInv, Own, AttemptInv, Cause, FailsForCause
<1>. QED
  BY <1>1, OwnInvHolds, PTL
================================================================================
