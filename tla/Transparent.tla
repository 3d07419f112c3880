------------------------------ MODULE Transparent ------------------------------
(***************************************************************************)
(* Sweeping the transparent outputs of a wallet into one shielded note     *)
(* (transparent.rs): the plan a holder is shown and the transaction shield *)
(* makes of it.  An output is [value, script]; a script is the address it  *)
(* pays where it is a standard one.  Proofs, signatures and encodings are  *)
(* the libraries'.                                                         *)
(***************************************************************************)
EXTENDS Integers, SequencesExt, FiniteSetsExt

CONSTANTS
  MarginalFee,   \* zatoshi an action
  MaxMoney,      \* the most a Zatoshis holds
  ValueWord      \* one more than the largest u64

ASSUME TransparentAssumption ==
  /\ MarginalFee \in Nat \ {0}
  /\ MaxMoney \in Nat
  /\ ValueWord \in Nat /\ ValueWord > MaxMoney

PADDED_ORCHARD_ACTIONS == 2

\* Mutant of SweepFee: the one shielded output is counted instead of the two actions.
SweepFeeUnpadded(count) == MarginalFee * Max({Max({count, 1}) + 1, 2})

SweepFee(count) == MarginalFee * Max({Max({count, 1}) + PADDED_ORCHARD_ACTIONS, 2})

(* plan.  The total is that of a build without overflow checks; one with them stops. *)
Plan(utxos) ==
  LET sum[i \in 0 .. Len(utxos)] ==
        IF i = 0 THEN 0 ELSE (sum[i - 1] + utxos[i].value) % ValueWord
      total == sum[Len(utxos)]
      fee   == SweepFee(Len(utxos))
  IN [total |-> total, fee |-> fee, net |-> Max({total - fee, 0})]

(* script_pays and the receiver shield finds for an output; receivers have addresses. *)
Spends(receiver, utxo) == utxo.script = receiver.address

Spendable(receivers, utxo) ==
  /\ \E i \in DOMAIN receivers : Spends(receivers[i], utxo)
  /\ utxo.value <= MaxMoney

Spender(receivers, utxo) ==
  receivers[Min({i \in DOMAIN receivers : Spends(receivers[i], utxo)})]

(* shield: every output an input, signed for with the key of the receiver it pays, and
   what is left over a note of the holder's; empty where it is refused.  A note's value
   must be one a transaction can balance. *)
Shield(receivers, utxos) ==
  LET plan == Plan(utxos)
      Input(u) == [utxo |-> u, key |-> Spender(receivers, u).secret]
  IN IF /\ utxos # << >>
        /\ plan.net \in 1 .. MaxMoney
        /\ \A i \in DOMAIN utxos : Spendable(receivers, utxos[i])
       THEN {[inputs |-> [i \in DOMAIN utxos |-> Input(utxos[i])], output |-> plan.net]}
       ELSE {}

-----------------------------------------------------------------------------

(* What outputs are worth, in integers of any size. *)
Given(utxos) ==
  LET sum[i \in 0 .. Len(utxos)] == IF i = 0 THEN 0 ELSE sum[i - 1] + utxos[i].value
  IN sum[Len(utxos)]

(* ZIP-317, of a transaction with these inputs and one shielded output, whose bundle the
   library pads to two actions. *)
DueFee(sweep) == MarginalFee * Max({2, Len(sweep.inputs) + Max({2, 1})})

(* A sweep that is made moves everything it was given, pays the fee the node asks for
   and no more, is the one the holder was shown, and signs each input with the key of
   the address it pays. *)
SweepMovesAll(receivers, utxos) ==
  \A sweep \in Shield(receivers, utxos) :
    LET given == Given(utxos)
    IN /\ [i \in DOMAIN sweep.inputs |-> sweep.inputs[i].utxo] = utxos
       /\ given = sweep.output + DueFee(sweep)
       /\ given = Plan(utxos).total /\ sweep.output = Plan(utxos).net
       /\ \A i \in DOMAIN sweep.inputs :
            \E r \in Range(receivers) :
              r.address = utxos[i].script /\ r.secret = sweep.inputs[i].key
================================================================================
