-------------------------------- MODULE Payout --------------------------------
(***************************************************************************)
(* Payouts of a shielded vault, from the selection of notes to the chain   *)
(* (src/payout.rs), on one note store (src/notes.rs, module NoteStore).    *)
(*                                                                         *)
(* `build` selects notes for a payment and the fee, and the fee depends on *)
(* what is selected: the loop's passes are steps, during which the store   *)
(* is borrowed.  A payout is then sealed by the signers (module Signing)   *)
(* or not, broadcast, forgotten by the store, and mined before its expiry  *)
(* or never.  These interleave, among payouts too.                         *)
(*                                                                         *)
(* The owner and the chain are external.  The owner rebuilds what failed   *)
(* to sign at once, and what was broadcast from its expiry on, as Envelope *)
(* says; the chain takes a payout below its expiry if its notes are        *)
(* unspent.  Module Scanner says how the store comes to know; here it      *)
(* knows with the block.                                                   *)
(***************************************************************************)
EXTENDS NoteStore

CONSTANTS
  Wants,           \* the lists of payments to make
  Owed,            \* Owed[w]: what they come to
  Shielded,        \* Shielded[w]: how many pay a shielded address
  Transparent,     \* Transparent[w]: how many pay a transparent one
  Wallets,         \* the values of the notes the vault may begin with
  CrossAddress,    \* whether a pool's bundles pay addresses: {TRUE}, {FALSE}, both
  MARGINAL_FEE,
  EXPIRY_DELTA,
  MaxBuilds,       \* bound: payouts built
  MaxHeight        \* bound: the chain

ASSUME WantsAssumption ==
  /\ IsFiniteSet(Wants) /\ Owed \in [Wants -> Nat]
  /\ Shielded \in [Wants -> Nat] /\ Transparent \in [Wants -> Nat]
  /\ \A w \in Wants : Shielded[w] + Transparent[w] > 0
ASSUME WalletsAssumption ==
  Wallets \subseteq Seq(Nat \ {0})
ASSUME PayoutAssumption ==
  /\ CrossAddress \subseteq BOOLEAN
  /\ MARGINAL_FEE \in Nat \ {0} /\ EXPIRY_DELTA \in Nat
  /\ MaxBuilds \in Nat /\ MaxHeight \in Nat

VARIABLES
  cross,     \* cross_address_enabled() of the vault's pool
  store,     \* the store; its notes are numbered as they are appended
  value,     \* value[n]: the value of note n
  building,  \* the call of build under way
  payouts,   \* the payouts that were assembled, in order
  refused,   \* the wants that build refused, and why
  height     \* the tip

vars == <<cross, store, value, building, payouts, refused, height>>

NoBuild == [want |-> "none", pass |-> 0, fee |-> 0]

Greater(a, b) == IF a >= b THEN a ELSE b
Worth(ns) == SumFunctionOnSet(value, ns)

Zip317Fee(actions, transparent) == MARGINAL_FEE * Greater(actions + transparent, 2)

Init ==
  \E wallet \in Wallets :
    /\ cross \in CrossAddress
    /\ value = wallet
    /\ store = [FromFrontier([n \in 1 .. Len(wallet) |-> n], 0) EXCEPT !.held = 1 .. Len(wallet)]
    /\ building = NoBuild
    /\ payouts = << >>
    /\ refused = {}
    /\ height = 0

-----------------------------------------------------------------------------
(***************************************************************************)
(* select: notes largest first, until they cover the amount; so a note is  *)
(* taken if those before it do not.                                        *)
(***************************************************************************)
Before(n) ==
  {m \in store.held : value[m] > value[n] \/ (value[m] = value[n] /\ m < n)}

Insufficient(amount) == Worth(store.held) < amount

Selected(amount) == {n \in store.held : Worth(Before(n)) < amount}

(***************************************************************************)
(* One pass of build's loop: with a fee, which notes, what change, and     *)
(* which fee that makes due.                                               *)
(***************************************************************************)
Spent(w, fee) == Selected(Owed[w] + fee)
Change(w, fee) == Worth(Spent(w, fee)) - Owed[w] - fee

Outputs(w, change) == Shielded[w] + IF change > 0 THEN 1 ELSE 0

Actions(spends, outputs) == IF cross THEN Greater(spends, outputs) ELSE spends + outputs

\* Mutant of Needed: the change is not counted.
NeededNoChange(w, fee) ==
  Zip317Fee(Greater(Actions(Cardinality(Spent(w, fee)), Shielded[w]), 2), Transparent[w])

Needed(w, fee) ==
  LET actions == Actions(Cardinality(Spent(w, fee)), Outputs(w, Change(w, fee)))
  IN Zip317Fee(Greater(actions, 2), Transparent[w])

Covers(w, fee) == ~ Insufficient(Owed[w] + fee)
Settles(w, fee) == Covers(w, fee) /\ Needed(w, fee) = fee

-----------------------------------------------------------------------------
(***************************************************************************)
(* The owner has a payment made, for the first time or again.              *)
(***************************************************************************)
Alive(payout) ==
  \/ payout.stage \in {"built", "sealed", "mined"}
  \/ payout.stage \in {"sent", "forgotten"} /\ height < payout.built + EXPIRY_DELTA

Due(w) ==
  /\ \A i \in DOMAIN payouts : payouts[i].want = w => ~ Alive(payouts[i])
  /\ \A r \in refused : r.want # w

Begin(w) ==
  /\ building = NoBuild
  /\ Len(payouts) < MaxBuilds
  /\ Due(w)
  /\ Shielded[w] > 0 => cross
  /\ building' = [want |-> w, pass |-> 1, fee |-> Zip317Fee(2, Transparent[w])]
  /\ UNCHANGED <<cross, store, value, payouts, refused, height>>

Want == building.want

Refuse(w, reason) ==
  /\ refused' = refused \cup {[want |-> w, why |-> reason]}
  /\ building' = NoBuild
  /\ UNCHANGED <<cross, store, value, payouts, height>>

RefusePool(w) ==
  /\ building = NoBuild
  /\ Due(w)
  /\ Shielded[w] > 0 /\ ~ cross
  /\ Refuse(w, "pool")

-----------------------------------------------------------------------------
RefuseInsufficient ==
  /\ building # NoBuild
  /\ ~ Covers(Want, building.fee)
  /\ Refuse(Want, "insufficient")

\* Mutant of RaiseFee: as often as it takes.
RaiseFeeAgain ==
  /\ building # NoBuild
  /\ Covers(Want, building.fee) /\ ~ Settles(Want, building.fee)
  /\ building' = [building EXCEPT !.pass = @ + 1, !.fee = Needed(Want, building.fee)]
  /\ UNCHANGED <<cross, store, value, payouts, refused, height>>

RaiseFee ==
  /\ building # NoBuild /\ building.pass = 1
  /\ Covers(Want, building.fee) /\ ~ Settles(Want, building.fee)
  /\ building' = [building EXCEPT !.pass = 2, !.fee = Needed(Want, building.fee)]
  /\ UNCHANGED <<cross, store, value, payouts, refused, height>>

RefuseUnsettled ==
  /\ building # NoBuild /\ building.pass = 2
  /\ Covers(Want, building.fee) /\ ~ Settles(Want, building.fee)
  /\ Refuse(Want, "fee did not converge")

\* Mutant of Expiry: a payout that is valid for ever.
NoExpiry(built) == MaxHeight + 2

(***************************************************************************)
(* Envelope::at: the height from which a payout built now is invalid.      *)
(***************************************************************************)
Expiry(built) == built + EXPIRY_DELTA

\* Mutant of Assemble: the fee the first pass began with.
AssembleFirstFee ==
  /\ building # NoBuild
  /\ Settles(Want, building.fee)
  /\ payouts' = Append(payouts,
       [want |-> Want, spent |-> Spent(Want, building.fee),
        change |-> Change(Want, building.fee),
        fee |-> Zip317Fee(2, Transparent[Want]),
        built |-> height, expiry |-> Expiry(height), stage |-> "built"])
  /\ building' = NoBuild
  /\ UNCHANGED <<cross, store, value, refused, height>>

(***************************************************************************)
(* The fee is the one due: the bundle is assembled, and its envelope made  *)
(* at the height of now.                                                   *)
(***************************************************************************)
Assemble ==
  /\ building # NoBuild
  /\ Settles(Want, building.fee)
  /\ payouts' = Append(payouts,
       [want |-> Want, spent |-> Spent(Want, building.fee),
        change |-> Change(Want, building.fee), fee |-> building.fee,
        built |-> height, expiry |-> Expiry(height), stage |-> "built"])
  /\ building' = NoBuild
  /\ UNCHANGED <<cross, store, value, refused, height>>

-----------------------------------------------------------------------------
Stage(i, from, to) ==
  /\ payouts[i].stage = from
  /\ payouts' = [payouts EXCEPT ![i].stage = to]
  /\ UNCHANGED <<cross, value, building, refused>>

(***************************************************************************)
(* The signers authorise the payout, or an attempt failed and it is        *)
(* dropped: nothing was taken from the store.                              *)
(***************************************************************************)
Seal(i) == Stage(i, "built", "sealed") /\ UNCHANGED <<store, height>>
Fail(i) == Stage(i, "built", "failed") /\ UNCHANGED <<store, height>>

Send(i) == Stage(i, "sealed", "sent") /\ UNCHANGED <<store, height>>

\* Mutant of TakeNotes: a note that is no longer held is put in flight all the same.
TakeAnyway(s, ns) == [s EXCEPT !.held = @ \ ns, !.in_flight = @ \cup ns]

(***************************************************************************)
(* "Forget them from the store once it is broadcast": each note is spent   *)
(* if it is still held.                                                    *)
(***************************************************************************)
TakeNotes(s, ns) ==
  FoldSet(LAMBDA n, t : IF n \in t.held THEN Spend(t, n) ELSE t, s, ns)

Forget(i) ==
  /\ building = NoBuild
  /\ Stage(i, "sent", "forgotten")
  /\ store' = TakeNotes(store, payouts[i].spent)
  /\ UNCHANGED height

(***************************************************************************)
(* A block, empty or with a payout, whose store sees its nullifiers and    *)
(* its change.                                                             *)
(***************************************************************************)
SeeNullifiers(s, ns) == FoldSet(LAMBDA n, t : SpendNullifier(t, n), s, ns)

Tick ==
  /\ height < MaxHeight
  /\ height' = height + 1
  /\ UNCHANGED <<cross, store, value, building, payouts, refused>>

Minable(i) ==
  /\ payouts[i].stage \in {"sent", "forgotten"}
  /\ height + 1 < payouts[i].expiry
  /\ \A j \in DOMAIN payouts :
       payouts[j].stage = "mined" => payouts[j].spent \cap payouts[i].spent = {}

Mine(i) ==
  LET seen == SeeNullifiers(store, payouts[i].spent)
  IN /\ building = NoBuild
     /\ height < MaxHeight
     /\ Minable(i)
     /\ height' = height + 1
     /\ payouts' = [payouts EXCEPT ![i].stage = "mined"]
     /\ IF payouts[i].change > 0
          THEN /\ store' = AppendNote(seen, Len(seen.tree) + 1, TRUE)
               /\ value' = Append(value, payouts[i].change)
          ELSE store' = seen /\ value' = value
     /\ UNCHANGED <<cross, building, refused>>

Next ==
  \/ \E w \in Wants : Begin(w) \/ RefusePool(w)
  \/ RefuseInsufficient \/ RaiseFee \/ RefuseUnsettled \/ Assemble
  \/ \E i \in DOMAIN payouts : Seal(i) \/ Fail(i) \/ Send(i) \/ Forget(i) \/ Mine(i)
  \/ Tick

Spec == Init /\ [][Next]_vars

-----------------------------------------------------------------------------
(* The type invariant: notes are in the store's tree, and build takes two passes. *)
TypeOK ==
  /\ cross \in BOOLEAN /\ height \in 0 .. MaxHeight
  /\ value \in Seq(Nat \ {0})
  /\ store.tree = [n \in 1 .. Len(value) |-> n]
  /\ store.held \cup store.in_flight \cup store.spent \subseteq 1 .. Len(value)
  /\ building.pass \in 0 .. 2 /\ building.fee \in Nat
  /\ \A i \in DOMAIN payouts :
       /\ payouts[i].want \in Wants /\ payouts[i].spent \subseteq 1 .. Len(value)
       /\ payouts[i].change \in Nat /\ payouts[i].fee \in Nat
       /\ payouts[i].stage \in {"built", "sealed", "failed", "sent", "forgotten", "mined"}

Mined == {i \in DOMAIN payouts : payouts[i].stage = "mined"}

(***************************************************************************)
(* "Nothing becomes an accidental fee" (the test change_returns_to_the_    *)
(* vault): what the vault holds, has in flight, has paid, and paid in the  *)
(* fees its payouts state, is what it began with.                          *)
(***************************************************************************)
Conserved ==
  LET changes == {i \in Mined : payouts[i].change > 0}
      began == 1 .. Len(value) - Cardinality(changes)
  IN Worth(store.held \cup store.in_flight)
       + SumFunctionOnSet([i \in DOMAIN payouts |-> Owed[payouts[i].want] + payouts[i].fee], Mined)
     = Worth(began)

(***************************************************************************)
(* What a payout leaves to the miner is exactly the conventional fee of    *)
(* the actions the builder makes of it, padded to two, and of its          *)
(* transparent output: less and nodes refuse it.                           *)
(***************************************************************************)
FeeIsDue ==
  \A i \in DOMAIN payouts :
    LET w == payouts[i].want
        spends == Cardinality(payouts[i].spent)
        actions == Actions(spends, Outputs(w, payouts[i].change))
    IN Worth(payouts[i].spent) - Owed[w] - payouts[i].change
         = Zip317Fee(Greater(actions, 2), Transparent[w])

(***************************************************************************)
(* "A payout that did not land by then can be rebuilt without fear of both *)
(* landing": whatever is rebuilt and sent when, a want is paid once.       *)
(***************************************************************************)
PaidOnce == \A i, j \in Mined : payouts[i].want = payouts[j].want => i = j

(***************************************************************************)
(* "What left the balance and is not yet final": a note in flight is spent *)
(* by a payout that was sent, and neither it nor a note that is held is    *)
(* spent on the chain, although payouts built from the same store may      *)
(* spend the same notes and are sent and forgotten in any order.           *)
(***************************************************************************)
InFlightIsPending ==
  /\ \A n \in store.in_flight :
       \E i \in DOMAIN payouts : payouts[i].stage = "forgotten" /\ n \in payouts[i].spent
  /\ \A i \in Mined : payouts[i].spent \cap (store.held \cup store.in_flight) = {}
=============================================================================
