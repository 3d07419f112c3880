------------------------------ MODULE Participant ------------------------------
(***************************************************************************)
(* The share holders of a vault, each the `Participant` of                 *)
(* src/custodian.rs: one FROST share and, in memory, the signing requests  *)
(* it has open.  Round one of a request commits to one fresh nonce per     *)
(* action of the payout; round two consumes the request and releases one   *)
(* signature share per action.  A nonce under which two different shares   *)
(* are released gives the key share away, so everything here is about how  *)
(* often, and over what, a committed nonce signs.                          *)
(*                                                                         *)
(* The caller is the most general one: any coordinator, honest or not, may *)
(* call either round of any participant at any time with any arguments     *)
(* (the wire is src/custody_net.rs; a mutex makes each call one step).     *)
(* Module Signing puts the real coordinators in its place.                 *)
(*                                                                         *)
(* The Ed25519 participant (custodian.rs, mod ed25519) is the case of one  *)
(* action without a randomizer: AlphaVectors = {<<none>>}.                 *)
(*                                                                         *)
(* Abstracted: a nonce is a number, never drawn twice by one participant   *)
(* (OsRng, 256 bits); a message, a randomizer and a request id are model   *)
(* values; a share is the record of what it was computed from.             *)
(***************************************************************************)
EXTENDS Integers, Sequences, FiniteSets

CONSTANTS
  Holders,           \* the participants of the vault
  RequestIds,        \* the ids coordinators use (u64)
  Sighashes,         \* the messages coordinators ask signatures over
  Threshold,         \* min_signers of every key package
  AlphaVectors,      \* randomizer lists a round one may carry, one per action
  CommitmentMaps,    \* commitment lists a coordinator may put in a package
  PackageLists,      \* package lists a round two may carry
  REQUEST_TTL_SECS,  \* how long a request may stay open
  MaxNonces,         \* bound: nonces one participant draws
  MaxTime            \* bound: the clock

Nonces == 1 .. MaxNonces

(***************************************************************************)
(* A signing package: the message and, for each signer it lists, the nonce *)
(* that signer committed to (frost_core::SigningPackage).                  *)
(***************************************************************************)
Package == [message : Sighashes, commitments : CommitmentMaps]

ASSUME ThresholdAssumption == Threshold \in Nat
ASSUME TtlAssumption == REQUEST_TTL_SECS \in Nat \ {0}
ASSUME BoundsAssumption == MaxNonces \in Nat /\ MaxTime \in Nat
ASSUME AlphaVectorsAssumption ==
  \A alphas \in AlphaVectors : /\ DOMAIN alphas = 1 .. Len(alphas)
                               /\ Len(alphas) \in Nat
ASSUME PackageListsAssumption ==
  \A packages \in PackageLists : \A i \in DOMAIN packages : packages[i] \in Package

VARIABLES
  live,      \* live[h]: the requests h has open (Participant::live)
  drawn,     \* drawn[h]: how many nonces h has drawn since its key exists
  opened,    \* history: every request ever opened, with what it committed to
  released,  \* history: every signature share ever released
  now        \* the clock the callers pass in

vars == <<live, drawn, opened, released, now>>

(***************************************************************************)
(* The nonces of a request: one session per action, drawn together.        *)
(***************************************************************************)
Nonce(r, i) == r.first + i - 1
NoncesOf(r) == {Nonce(r, i) : i \in 1 .. Len(r.alphas)}

Live == [id : RequestIds, sighash : Sighashes, alphas : AlphaVectors,
         first : Nat, opened_at : Nat]

(***************************************************************************)
(* drop_expired keeps a request while its age, saturating at zero when the *)
(* clock went back, is below the deadline.                                 *)
(***************************************************************************)
Age(r, t) == IF t >= r.opened_at THEN t - r.opened_at ELSE 0
\* Mutant of Expired: one second early.
ExpiredEarly(r) == Age(r, now) + 1 >= REQUEST_TTL_SECS

Expired(r) == Age(r, now) >= REQUEST_TTL_SECS
Unexpired(h) == {r \in live[h] : ~ Expired(r)}

Init ==
  /\ live = [h \in Holders |-> {}]
  /\ drawn = [h \in Holders |-> 0]
  /\ opened = {}
  /\ released = {}
  /\ now = 0

\* Mutant of Round1: the last nonce is drawn again.
Round1Overlapping(h, id, sighash, alphas) ==
  /\ \A r \in Unexpired(h) : r.id # id
  /\ drawn[h] + Len(alphas) <= MaxNonces
  /\ live' = [live EXCEPT ![h] = Unexpired(h) \cup
                {[id |-> id, sighash |-> sighash, alphas |-> alphas,
                  first |-> drawn[h], opened_at |-> now]}]
  /\ drawn' = [drawn EXCEPT ![h] = @ + Len(alphas)]
  /\ opened' = opened \cup {[holder |-> h, sighash |-> sighash, alphas |-> alphas,
                              first |-> drawn[h]]}
  /\ UNCHANGED <<released, now>>

(***************************************************************************)
(* Round one: sweep the expired requests, refuse an id that is still open, *)
(* else draw one nonce per action and answer with the commitments.         *)
(***************************************************************************)
Round1(h, id, sighash, alphas) ==
  LET request == [id |-> id, sighash |-> sighash, alphas |-> alphas,
                  first |-> drawn[h] + 1, opened_at |-> now]
  IN /\ \A r \in Unexpired(h) : r.id # id
     /\ drawn[h] + Len(alphas) <= MaxNonces
     /\ live' = [live EXCEPT ![h] = Unexpired(h) \cup {request}]
     /\ drawn' = [drawn EXCEPT ![h] = @ + Len(alphas)]
     /\ opened' = opened \cup {[holder |-> h, sighash |-> sighash, alphas |-> alphas,
                                 first |-> drawn[h] + 1]}
     /\ UNCHANGED <<released, now>>

(***************************************************************************)
(* Round one of an id that is still open: AlreadyOpen, after the sweep.    *)
(***************************************************************************)
Round1AlreadyOpen(h, id) ==
  /\ \E r \in Unexpired(h) : r.id = id
  /\ live' = [live EXCEPT ![h] = Unexpired(h)]
  /\ UNCHANGED <<drawn, opened, released, now>>

\* Mutant of Listed: a package need not list its signer.
ListedByAnyone(h, package, nonce) ==
  Cardinality(DOMAIN package.commitments) >= Threshold

(***************************************************************************)
(* What sign_share, that is frost's round two, refuses: a package with     *)
(* fewer commitments than min_signers, without the signer's commitment, or *)
(* with another than the one its nonce gives.                              *)
(***************************************************************************)
Listed(h, package, nonce) ==
  /\ Cardinality(DOMAIN package.commitments) >= Threshold
  /\ h \in DOMAIN package.commitments
  /\ package.commitments[h] = nonce

\* Mutant of Signable: no WrongMessage.
SignableAnyMessage(h, r, packages) ==
  /\ Len(packages) = Len(r.alphas)
  /\ \A i \in 1 .. Len(r.alphas) : Listed(h, packages[i], Nonce(r, i))

(***************************************************************************)
(* The checks of round two, in the code's order: as many packages as       *)
(* actions (ShapeMismatch), every package over the message round one named *)
(* (WrongMessage), and every share computed (Crypto).                      *)
(***************************************************************************)
Signable(h, r, packages) ==
  /\ Len(packages) = Len(r.alphas)
  /\ \A i \in 1 .. Len(r.alphas) : packages[i].message = r.sighash
  /\ \A i \in 1 .. Len(r.alphas) : Listed(h, packages[i], Nonce(r, i))

Share(h, r, packages, i) ==
  [holder |-> h, nonce |-> Nonce(r, i), alpha |-> r.alphas[i], package |-> packages[i]]

\* Mutants of Round2: the request is read, not taken out; all are taken out.
Round2Reads(h, id, packages) ==
  \E r \in live[h] :
    /\ r.id = id
    /\ Signable(h, r, packages)
    /\ released' = released \cup {Share(h, r, packages, i) : i \in 1 .. Len(r.alphas)}
    /\ UNCHANGED <<live, drawn, opened, now>>

Round2TakesAll(h, id, packages) ==
  \E r \in live[h] :
    /\ r.id = id
    /\ Signable(h, r, packages)
    /\ live' = [live EXCEPT ![h] = {}]
    /\ released' = released \cup {Share(h, r, packages, i) : i \in 1 .. Len(r.alphas)}
    /\ UNCHANGED <<drawn, opened, now>>

(***************************************************************************)
(* Round two: the request is taken out first; if every check passes, one   *)
(* share per action is released, otherwise none.  An id that is not open   *)
(* is NoSuchRequest and changes nothing.  There is no sweep here.          *)
(***************************************************************************)
Round2(h, id, packages) ==
  \E r \in live[h] :
    /\ r.id = id
    /\ Signable(h, r, packages)
    /\ live' = [live EXCEPT ![h] = @ \ {r}]
    /\ released' = released \cup {Share(h, r, packages, i) : i \in 1 .. Len(r.alphas)}
    /\ UNCHANGED <<drawn, opened, now>>

\* Mutant of Round2Refused: the shares before the refused package are out.
Round2RefusedLate(h, id, packages) ==
  \E r \in live[h] :
    /\ r.id = id
    /\ Len(packages) = Len(r.alphas)
    /\ ~ Signable(h, r, packages)
    /\ live' = [live EXCEPT ![h] = @ \ {r}]
    /\ released' = released \cup
         {Share(h, r, packages, i) : i \in {j \in 1 .. Len(r.alphas) :
            \A k \in 1 .. j : /\ packages[k].message = r.sighash
                              /\ Listed(h, packages[k], Nonce(r, k))}}
    /\ UNCHANGED <<drawn, opened, now>>

Round2Refused(h, id, packages) ==
  \E r \in live[h] :
    /\ r.id = id
    /\ ~ Signable(h, r, packages)
    /\ live' = [live EXCEPT ![h] = @ \ {r}]
    /\ UNCHANGED <<drawn, opened, released, now>>

(***************************************************************************)
(* drop_expired, as the program that hosts the participant may call it.    *)
(***************************************************************************)
DropExpired(h) ==
  /\ live' = [live EXCEPT ![h] = Unexpired(h)]
  /\ UNCHANGED <<drawn, opened, released, now>>

(***************************************************************************)
(* The process restarts: requests live only in memory.                     *)
(***************************************************************************)
Restart(h) ==
  /\ live' = [live EXCEPT ![h] = {}]
  /\ UNCHANGED <<drawn, opened, released, now>>

\* Mutant of SetClock: the time since the clock was last read.
SetClockBack(t) ==
  /\ now' = t - now
  /\ UNCHANGED <<live, drawn, opened, released>>

(***************************************************************************)
(* The callers' clock moves; a wall clock may also be set back.            *)
(***************************************************************************)
SetClock(t) ==
  /\ now' = t
  /\ UNCHANGED <<live, drawn, opened, released>>

Next ==
  \/ \E h \in Holders, id \in RequestIds :
       \/ \E sighash \in Sighashes, alphas \in AlphaVectors : Round1(h, id, sighash, alphas)
       \/ Round1AlreadyOpen(h, id)
       \/ \E packages \in PackageLists :
            Round2(h, id, packages) \/ Round2Refused(h, id, packages)
  \/ \E h \in Holders : DropExpired(h) \/ Restart(h)
  \/ \E t \in 0 .. MaxTime : SetClock(t)

Spec == Init /\ [][Next]_vars

-----------------------------------------------------------------------------
ShareType == [holder : Holders, nonce : Nat, alpha : UNION {{a[i] : i \in DOMAIN a} : a \in AlphaVectors},
              package : Package]

(* The type invariant: requests and shares are made of what callers and holders gave. *)
TypeOK ==
  /\ live \in [Holders -> SUBSET Live]
  /\ drawn \in [Holders -> Nat]
  /\ opened \subseteq [holder : Holders, sighash : Sighashes, alphas : AlphaVectors,
                     first : Nat]
  /\ released \subseteq ShareType
  /\ now \in Nat

SharesOf(h) == {s \in released : s.holder = h}
SignedNonces(h) == {s.nonce : s \in SharesOf(h)}
LiveNonces(h) == UNION {NoncesOf(r) : r \in live[h]}

(***************************************************************************)
(* "A nonce is committed once and signed once" (custodian.rs, The one      *)
(* discipline): however calls, retries, expiries and restarts interleave,  *)
(* no two different shares of a participant were made with one nonce.      *)
(***************************************************************************)
NonceSignsOnce ==
  \A s, t \in released : s.holder = t.holder /\ s.nonce = t.nonce => s = t

(***************************************************************************)
(* A share is over the message, and under the randomizer, that its nonce   *)
(* was committed for: a coordinator that swaps either between the rounds   *)
(* gets nothing (WrongMessage; Live.alphas is what round one was given).   *)
(***************************************************************************)
ShareKeepsCommitment ==
  \A s \in released : \A o \in opened :
    o.holder = s.holder =>
      \A i \in 1 .. Len(o.alphas) :
        Nonce(o, i) = s.nonce =>
          /\ s.package.message = o.sighash
          /\ s.alpha = o.alphas[i]

(***************************************************************************)
(* round2 returns a share for every action of the request or an error: no  *)
(* payout is left with some of its actions signed by a participant.        *)
(***************************************************************************)
AllSharesOrNone ==
  \A o \in opened :
    \/ NoncesOf(o) \subseteq SignedNonces(o.holder)
    \/ NoncesOf(o) \cap SignedNonces(o.holder) = {}

(***************************************************************************)
(* A nonce that was committed and then lost unsigned (refused in round     *)
(* two, expired, or forgotten by a restart) is never open again and never  *)
(* signs: there is no path back into `live`.                               *)
(***************************************************************************)
LostNonceStaysLost ==
  [][\A h \in Holders : \A n \in 1 .. drawn[h] :
       n \notin LiveNonces(h) \cup SignedNonces(h)
         => n \notin (LiveNonces(h) \cup SignedNonces(h))']_vars

(***************************************************************************)
(* A request leaves the participant for its own reasons only: its deadline *)
(* passed, the process restarted, or it alone was consumed by a round two. *)
(* No call about another id, and no sweep, costs a coordinator the nonces  *)
(* it is still entitled to.                                                *)
(***************************************************************************)
RequestsKeptUntilDeadline ==
  [][\A h \in Holders : \A r \in live[h] \ live'[h] :
       \/ now - r.opened_at >= REQUEST_TTL_SECS
       \/ live'[h] = {}
       \/ live'[h] = live[h] \ {r}]_vars
=============================================================================
