-------------------------------- MODULE Signing --------------------------------
(***************************************************************************)
(* Attempts to sign with a vault: coordinators that drive the participants *)
(* of module Participant through the two rounds, over sockets or in one    *)
(* process.  A coordinator holds no share and keeps nothing but the        *)
(* answers of its current attempt; a retry is another attempt.             *)
(*                                                                         *)
(* Three drivers share the rounds and differ in whom they ask:             *)
(*   "remote"    sign_all_with (src/payout.rs) or sign_with                *)
(*               (src/ed25519.rs) over a RemoteQuorum                      *)
(*               (src/custody_net.rs): both rounds ask every address;      *)
(*   "local"     the same over a LocalQuorum (src/signing.rs): calls       *)
(*               cannot be lost, and round two asks the chosen only;       *)
(*   "treasury"  sign_across (src/ed25519.rs): round one stops at the      *)
(*               threshold, round two asks every address, and the caller,  *)
(*               not the code, picks the request id.                       *)
(*                                                                         *)
(* A call is one step: send, handle under the daemon's mutex, reply.  That *)
(* loses nothing, since the coordinator's side of it is local.  A call may *)
(* also be missed: the coordinator gives up at its timeout, and the frame  *)
(* is either gone or handled later, when nobody waits for the reply.       *)
(***************************************************************************)
EXTENDS Integers, Sequences, FiniteSetsExt

CONSTANTS
  N,                 \* the number of participants; they are 1 .. N
  Threshold,         \* the threshold the coordinator is given
  Attempts,          \* the attempts coordinators make
  Drivers,           \* the drivers to consider
  Request,           \* Request[d][a]: the request id of the attempt under d
  Sighash,           \* Sighash[d][a]: the message it wants signed
  AlphasOf,          \* AlphasOf[d][a]: the randomizers of the actions to sign
  Addresses,         \* the custodians in the order they are configured
  REQUEST_TTL_SECS,
  MaxNonces,         \* bound: nonces one participant draws
  MaxLost,           \* bound: MaxLost[d]: custodians the attempts may lose under d
  Horizon            \* bound: Horizon[d]: the clock

Holders == 1 .. N

ASSUME SizeAssumption == N \in Nat /\ Threshold \in Nat \ {0}
ASSUME AttemptsAssumption == IsFiniteSet(Attempts)
ASSUME AddressesAssumption ==
  /\ Addresses \in [1 .. N -> Holders]
  /\ \A i, j \in 1 .. N : Addresses[i] = Addresses[j] => i = j
ASSUME DriverAssumption ==
  Drivers # {} /\ Drivers \subseteq {"remote", "local", "treasury"}
ASSUME AlphasAssumption ==
  \A d \in Drivers, a \in Attempts :
    /\ DOMAIN AlphasOf[d][a] = 1 .. Len(AlphasOf[d][a])
    /\ Len(AlphasOf[d][a]) \in Nat
ASSUME TimeAssumption ==
  /\ REQUEST_TTL_SECS \in Nat \ {0} /\ MaxNonces \in Nat
  /\ MaxLost \in [Drivers -> Nat] /\ Horizon \in [Drivers -> Nat]

VARIABLES
  driver,    \* what drives the attempts of this vault
  phase,     \* phase[a]: where the attempt's function is
  next,      \* next[a]: the index of the address it asks next
  r1,        \* r1[a][h]: the first of the nonces h committed to, 0 if none
  r2,        \* r2[a][h]: the shares h answered with, << >> if none
  late,      \* frames whose coordinator gave up and that may still arrive
  lost,      \* history: holders that missed a call of a, or restarted with
             \*   its request open
  began,     \* history: when a began
  live, drawn, opened, released, now   \* the participants

participants == <<live, drawn, opened, released, now>>
coordinators == <<driver, phase, next, r1, r2, late, lost, began>>
vars == <<coordinators, participants>>

\* What the coordinators ask of the participants.
RequestIds == UNION {{Request[d][a] : a \in Attempts} : d \in Drivers}
Sighashes == UNION {{Sighash[d][a] : a \in Attempts} : d \in Drivers}
AlphaVectors == UNION {{AlphasOf[d][a] : a \in Attempts} : d \in Drivers}
CommitmentMaps == UNION {[S -> 1 .. MaxNonces] : S \in SUBSET Holders}
PackageLists == Seq([message : Sighashes, commitments : CommitmentMaps])
MaxTime == Max({Horizon[d] : d \in Drivers})

P == INSTANCE Participant

Actions(a) == 1 .. Len(AlphasOf[driver][a])

Frame == [attempt : Attempts, round : {1, 2}, to : Holders]

Init ==
  /\ driver \in Drivers
  /\ phase = [a \in Attempts |-> "idle"]
  /\ next = [a \in Attempts |-> 1]
  /\ r1 = [a \in Attempts |-> [h \in Holders |-> 0]]
  /\ r2 = [a \in Attempts |-> [h \in Holders |-> << >>]]
  /\ late = {}
  /\ lost = [a \in Attempts |-> {}]
  /\ began = [a \in Attempts |-> 0]
  /\ P!Init

-----------------------------------------------------------------------------
Committed(a) == {h \in Holders : r1[a][h] # 0}
Answered(a) == {h \in Holders : r2[a][h] # << >>}

(***************************************************************************)
(* The first Threshold of those that answered, in the order of identifiers *)
(* (r1 is a BTreeMap).                                                     *)
(***************************************************************************)
Chosen(a) ==
  {h \in Committed(a) : Cardinality({g \in Committed(a) : g < h}) < Threshold}

(***************************************************************************)
(* One package per action, from the chosen ones' i-th commitments.         *)
(***************************************************************************)
Packages(a) ==
  [i \in Actions(a) |->
     [message |-> Sighash[driver][a],
      commitments |-> [h \in Chosen(a) |-> r1[a][h] + i - 1]]]

(***************************************************************************)
(* Whether round one, and round two, has another address to ask.           *)
(***************************************************************************)
MoreToCommit(a) ==
  /\ next[a] <= N
  /\ driver = "treasury" => Cardinality(Committed(a)) # Threshold

MoreToSign(a) == next[a] <= N

Asks(a) == IF driver = "local" THEN Chosen(a) ELSE Holders

\* Bound: the attempts lose at most MaxLost[driver] custodians together.
Losses == {loss \in Attempts \X Holders : loss[2] \in lost[loss[1]]}
MayLose(a, h) == h \in lost[a] \/ Cardinality(Losses) < MaxLost[driver]

-----------------------------------------------------------------------------
(***************************************************************************)
(* A payout without a spend of the vault's needs no signature.             *)
(***************************************************************************)
NothingToSign(a) ==
  /\ phase[a] = "idle"
  /\ Actions(a) = {}
  /\ phase' = [phase EXCEPT ![a] = "nothing"]
  /\ UNCHANGED <<next, r1, r2, late, lost, began, participants>>

Begin(a) ==
  /\ phase[a] = "idle"
  /\ Actions(a) # {}
  /\ phase' = [phase EXCEPT ![a] = "round1"]
  /\ began' = [began EXCEPT ![a] = now]
  /\ UNCHANGED <<next, r1, r2, late, lost, participants>>

(***************************************************************************)
(* The calls of round one, to the next address: answered with commitments, *)
(* refused (AlreadyOpen), or missed.                                       *)
(***************************************************************************)
Asking(a, round) ==
  /\ phase[a] = round
  /\ next' = [next EXCEPT ![a] = @ + 1]
  /\ UNCHANGED <<phase, began>>

Round1Answered(a) ==
  LET h == Addresses[next[a]]
  IN /\ MoreToCommit(a)
     /\ Asking(a, "round1")
     /\ P!Round1(h, Request[driver][a], Sighash[driver][a], AlphasOf[driver][a])
     /\ r1' = [r1 EXCEPT ![a][h] = drawn[h] + 1]
     /\ UNCHANGED <<r2, late, lost>>

Round1Refused(a) ==
  /\ MoreToCommit(a)
  /\ Asking(a, "round1")
  /\ P!Round1AlreadyOpen(Addresses[next[a]], Request[driver][a])
  /\ UNCHANGED <<r1, r2, late, lost>>

\* Mutant of Missed: a late frame that counts rounds from two.
MissedOffByOne(a, h, round) ==
  /\ driver # "local"
  /\ MayLose(a, h)
  /\ lost' = [lost EXCEPT ![a] = @ \cup {h}]
  /\ late' = late \cup {[attempt |-> a, round |-> round + 1, to |-> h]}
  /\ UNCHANGED <<r1, r2, participants>>

Missed(a, h, round) ==
  /\ driver # "local"
  /\ MayLose(a, h)
  /\ lost' = [lost EXCEPT ![a] = @ \cup {h}]
  /\ \/ late' = late
     \/ late' = late \cup {[attempt |-> a, round |-> round, to |-> h]}
  /\ UNCHANGED <<r1, r2, participants>>

Round1Missed(a) ==
  /\ MoreToCommit(a)
  /\ Asking(a, "round1")
  /\ Missed(a, Addresses[next[a]], 1)

\* Mutant of EndRound1: too few answers are waited for.
EndRound1Waits(a) ==
  /\ phase[a] = "round1"
  /\ ~ MoreToCommit(a)
  /\ Cardinality(Committed(a)) >= Threshold
  /\ phase' = [phase EXCEPT ![a] = "round2"]
  /\ next' = [next EXCEPT ![a] = 1]
  /\ UNCHANGED <<r1, r2, late, lost, began, participants>>

(***************************************************************************)
(* Round one is over: too few answered, or the packages are built and      *)
(* round two starts over the addresses.                                    *)
(***************************************************************************)
EndRound1(a) ==
  /\ phase[a] = "round1"
  /\ ~ MoreToCommit(a)
  /\ IF Cardinality(Committed(a)) < Threshold
       THEN phase' = [phase EXCEPT ![a] = "failed"] /\ next' = next
       ELSE phase' = [phase EXCEPT ![a] = "round2"] /\ next' = [next EXCEPT ![a] = 1]
  /\ UNCHANGED <<r1, r2, late, lost, began, participants>>

(***************************************************************************)
(* The calls of round two.  An answer counts if it comes from a chosen     *)
(* participant.                                                            *)
(***************************************************************************)
RequestOf(h, id) == CHOOSE r \in live[h] : r.id = id

NoSuchRequest(h, id) == \A r \in live[h] : r.id # id

Round2Answered(a) ==
  LET h == Addresses[next[a]]
      shares == [i \in Actions(a) |-> P!Share(h, RequestOf(h, Request[driver][a]), Packages(a), i)]
  IN /\ MoreToSign(a)
     /\ Asking(a, "round2")
     /\ h \in Asks(a)
     /\ P!Round2(h, Request[driver][a], Packages(a))
     /\ r2' = IF h \in Chosen(a) THEN [r2 EXCEPT ![a][h] = shares] ELSE r2
     /\ UNCHANGED <<r1, late, lost>>

Round2Refused(a) ==
  LET h == Addresses[next[a]]
  IN /\ MoreToSign(a)
     /\ Asking(a, "round2")
     /\ h \in Asks(a)
     /\ \/ P!Round2Refused(h, Request[driver][a], Packages(a))
        \/ NoSuchRequest(h, Request[driver][a]) /\ UNCHANGED participants
     /\ UNCHANGED <<r1, r2, late, lost>>

Round2Missed(a) ==
  LET h == Addresses[next[a]]
  IN /\ MoreToSign(a)
     /\ Asking(a, "round2")
     /\ h \in Asks(a)
     /\ Missed(a, h, 2)

\* LocalQuorum passes over the participants that were not chosen.
PassOver(a) ==
  /\ MoreToSign(a)
  /\ Asking(a, "round2")
  /\ Addresses[next[a]] \notin Asks(a)
  /\ UNCHANGED <<r1, r2, late, lost, participants>>

(***************************************************************************)
(* Aggregation verifies every share against its package and randomizer.    *)
(***************************************************************************)
Aggregates(a) ==
  LET packages == Packages(a)
  IN \A h \in Chosen(a) : \A i \in Actions(a) :
       /\ i \in DOMAIN r2[a][h]
       /\ r2[a][h][i].holder = h
       /\ r2[a][h][i].package = packages[i]
       /\ r2[a][h][i].alpha = AlphasOf[driver][a][i]

\* Mutant of EndRound2: the commitments are counted instead of the shares.
EndRound2Unchecked(a) ==
  /\ phase[a] = "round2"
  /\ ~ MoreToSign(a)
  /\ IF Cardinality(Committed(a)) >= Threshold
       THEN phase' = [phase EXCEPT ![a] = "signed"]
       ELSE phase' = [phase EXCEPT ![a] = "failed"]
  /\ UNCHANGED <<next, r1, r2, late, lost, began, participants>>

EndRound2(a) ==
  /\ phase[a] = "round2"
  /\ ~ MoreToSign(a)
  /\ IF Cardinality(Answered(a)) >= Threshold /\ Aggregates(a)
       THEN phase' = [phase EXCEPT ![a] = "signed"]
       ELSE phase' = [phase EXCEPT ![a] = "failed"]
  /\ UNCHANGED <<next, r1, r2, late, lost, began, participants>>

-----------------------------------------------------------------------------
(***************************************************************************)
(* A frame its coordinator no longer waits for is handled.                 *)
(***************************************************************************)
LateRound1(f) ==
  /\ f.round = 1
  /\ \/ P!Round1(f.to, Request[driver][f.attempt], Sighash[driver][f.attempt], AlphasOf[driver][f.attempt])
     \/ P!Round1AlreadyOpen(f.to, Request[driver][f.attempt])
  /\ late' = late \ {f}
  /\ UNCHANGED <<phase, next, r1, r2, lost, began>>

LateRound2(f) ==
  /\ f.round = 2
  /\ \/ P!Round2(f.to, Request[driver][f.attempt], Packages(f.attempt))
     \/ P!Round2Refused(f.to, Request[driver][f.attempt], Packages(f.attempt))
     \/ NoSuchRequest(f.to, Request[driver][f.attempt]) /\ UNCHANGED participants
  /\ late' = late \ {f}
  /\ UNCHANGED <<phase, next, r1, r2, lost, began>>

(***************************************************************************)
(* A custodian restarts and forgets its requests; in one process there is  *)
(* no participant that restarts alone.                                     *)
(***************************************************************************)
Running(a) == phase[a] \in {"round1", "round2"}
Loses(a, h) == Running(a) /\ h \in Committed(a)

Restart(h) ==
  /\ driver # "local"
  /\ \A a \in Attempts : Loses(a, h) => MayLose(a, h)
  /\ P!Restart(h)
  /\ lost' = [a \in Attempts |-> IF Loses(a, h) THEN lost[a] \cup {h} ELSE lost[a]]
  /\ UNCHANGED <<phase, next, r1, r2, late, began>>

Tick ==
  /\ now < Horizon[driver]
  /\ P!SetClock(now + 1)
  /\ UNCHANGED <<phase, next, r1, r2, late, lost, began>>

-----------------------------------------------------------------------------
Coordinate(a) ==
  /\ UNCHANGED driver
  /\ \/ Round1Answered(a) \/ Round1Refused(a) \/ Round1Missed(a) \/ EndRound1(a)
     \/ Round2Answered(a) \/ Round2Refused(a) \/ Round2Missed(a) \/ PassOver(a)
     \/ EndRound2(a)

Environment ==
  /\ UNCHANGED driver
  /\ \/ \E f \in late : LateRound1(f) \/ LateRound2(f)
     \/ \E h \in Holders : Restart(h)
     \/ Tick

Start(a) == UNCHANGED driver /\ (NothingToSign(a) \/ Begin(a))

Next == (\E a \in Attempts : Start(a) \/ Coordinate(a)) \/ Environment

Spec == Init /\ [][Next]_vars

(***************************************************************************)
(* The coordinator's function runs on: every call returns, at the latest   *)
(* by its timeout.  Nothing is assumed of frames, restarts or the clock.   *)
(***************************************************************************)
FairSpec == Spec /\ \A a \in Attempts : WF_vars(Coordinate(a))

-----------------------------------------------------------------------------
(* The type invariant, with that of the participants the attempts drive. *)
TypeOK ==
  /\ driver \in Drivers
  /\ phase \in [Attempts -> {"idle", "nothing", "round1", "round2", "signed", "failed"}]
  /\ next \in [Attempts -> 1 .. N + 1]
  /\ r1 \in [Attempts -> [Holders -> Nat]]
  /\ r2 \in [Attempts -> [Holders -> Seq(P!ShareType)]]
  /\ late \subseteq Frame
  /\ lost \in [Attempts -> SUBSET Holders]
  /\ began \in [Attempts -> Nat]
  /\ P!TypeOK

(***************************************************************************)
(* Shares are released by those a coordinator chose, for the packages it   *)
(* built, and nobody else: a participant that answered round one too late, *)
(* or holds another attempt's request under the same id, contributes       *)
(* nothing although round two asks it (RemoteQuorum::round2, sign_across). *)
(***************************************************************************)
OnlyChosenContribute ==
  \A s \in released : \E a \in Attempts :
    /\ phase[a] \in {"round2", "signed", "failed"}
    /\ s.holder \in Chosen(a)
    /\ LET packages == Packages(a) IN \E i \in Actions(a) : s.package = packages[i]

(***************************************************************************)
(* An attempt under a request id of its own fails only for a cause: more   *)
(* custodians missed round one than the vault has to spare, one of those   *)
(* chosen was lost afterwards, or the deadline passed.  Other attempts at  *)
(* the same custodians, retries and late frames do not make it fail        *)
(* (payout.rs: a fresh id "so a retry never collides with nonces a         *)
(* custodian may still hold").                                             *)
(***************************************************************************)
FailsForCause ==
  \A a \in Attempts :
    /\ phase[a] = "failed"
    /\ \A b \in Attempts \ {a} : Request[driver][b] # Request[driver][a]
    =>
      \/ Cardinality(lost[a] \ Committed(a)) > N - Threshold
      \/ Chosen(a) \cap lost[a] # {}
      \/ now - began[a] >= REQUEST_TTL_SECS

(***************************************************************************)
(* Every attempt comes to an end, whatever custodians do.                  *)
(***************************************************************************)
AttemptEnds ==
  \A a \in Attempts : phase[a] = "round1" ~> phase[a] \in {"signed", "failed"}

(***************************************************************************)
(* The attempts implement threshold signing: a holder has endorsed an      *)
(* attempt when it has released a share for each of its packages.          *)
(***************************************************************************)
Endorsed(a) ==
  LET packages == Packages(a)
  IN IF phase[a] \in {"round2", "signed", "failed"}
       THEN {h \in Chosen(a) : \A i \in Actions(a) :
               \E s \in released : s.holder = h /\ s.package = packages[i]}
       ELSE {}

Abstract == INSTANCE ThresholdSigning WITH
              endorsed <- [a \in Attempts |-> Endorsed(a)],
              signed <- {a \in Attempts : phase[a] = "signed"}

(* An attempt is signed only once a threshold has endorsed that very attempt. *)
ImplementsThresholdSigning == Abstract!Spec
=============================================================================
