------------------------------ MODULE PayoutProofs ------------------------------
(***************************************************************************)
(* What is proved of Payout for every wallet, payment list, expiry and     *)
(* number of payouts.                                                      *)
(*                                                                         *)
(* PaidOnce: a want is paid once, however payouts are rebuilt, sent late,  *)
(* forgotten and mined.  A payout that is not alive, because its attempt   *)
(* failed or its expiry has come, is never alive again (DeadStays) and is  *)
(* not mined.  The owner begins a want only when none of its payouts is    *)
(* alive, and build begins no other before it ends, so of the payouts of a *)
(* want all but the last are dead (OneAlive).                              *)
(*                                                                         *)
(* TypeOK, FeeIsDue, InFlightIsPending and Conserved: what is inductive is *)
(* Books.  The store is fixed by what is held, in flight and spent, since  *)
(* folding its operations over a payout's notes is taking them from these  *)
(* sets (NotesTaken, NullifiersSeen).  Notes selected largest first cover  *)
(* any amount the held ones cover (SelectedCovers), so each payout's notes *)
(* are worth what it pays, its change and its fee (Priced).  A note is     *)
(* unspent or a mined payout's (Accounted), so a payout that is mined      *)
(* takes all its notes from what is unspent.                               *)
(***************************************************************************)
EXTENDS Payout, DataLemmas

Stages == {"built", "sealed", "failed", "sent", "forgotten", "mined"}

(* A payout: what its fate does not depend on is of some set S. *)
Record(S) == [want : S, spent : S, change : S, fee : S,
              built : Nat, expiry : Nat, stage : Stages]

Shape ==
  /\ height \in Nat
  /\ \E S : payouts \in Seq(Record(S))
  /\ \A i \in DOMAIN payouts : payouts[i].expiry = payouts[i].built + EXPIRY_DELTA

(* Of the payouts of a want, all but the last are dead; all are while it is built again. *)
OneAlive ==
  /\ \A i, j \in DOMAIN payouts :
       i < j /\ payouts[i].want = payouts[j].want => ~ Alive(payouts[i])
  /\ building # NoBuild =>
       \A i \in DOMAIN payouts : payouts[i].want = Want => ~ Alive(payouts[i])

IInv == Shape /\ OneAlive

-----------------------------------------------------------------------------
(***************************************************************************)
(* Steps on payouts: none, one more, or one that moves to another stage.   *)
(***************************************************************************)
LEMMA Steps ==
  ASSUME Shape, [Next]_vars
  PROVE  /\ height' \in Nat /\ height <= height'
         /\ \/ payouts' = payouts
            \/ /\ height' = height /\ building # NoBuild /\ building' = NoBuild
               /\ \E spent, change, fee : payouts' = Append(payouts,
                    [want |-> Want, spent |-> spent, change |-> change, fee |-> fee,
                     built |-> height, expiry |-> height + EXPIRY_DELTA, stage |-> "built"])
            \/ \E i \in DOMAIN payouts : \E to \in Stages :
                 /\ payouts' = [payouts EXCEPT ![i].stage = to]
                 /\ \/ payouts[i].stage = "built" /\ to \in {"sealed", "failed"}
                    \/ payouts[i].stage = "sealed" /\ to = "sent"
                    \/ payouts[i].stage = "sent" /\ to = "forgotten"
                    \/ Minable(i) /\ to = "mined"
<1>. DEFINE Moves(i, to) == payouts' = [payouts EXCEPT ![i].stage = to]
<1>1. height \in Nat
  BY DEF Shape
<1>2. ASSUME NEW i \in DOMAIN payouts, Seal(i) \/ Fail(i) \/ Send(i) \/ Forget(i) \/ Mine(i)
      PROVE  /\ height' \in Nat /\ height <= height'
             /\ \E to \in Stages :
                  /\ payouts' = [payouts EXCEPT ![i].stage = to]
                  /\ \/ payouts[i].stage = "built" /\ to \in {"sealed", "failed"}
                     \/ payouts[i].stage = "sealed" /\ to = "sent"
                     \/ payouts[i].stage = "sent" /\ to = "forgotten"
                     \/ Minable(i) /\ to = "mined"
  <2>1. CASE Seal(i)
    <3>1. payouts[i].stage = "built" /\ Moves(i, "sealed") /\ height' = height
      BY <2>1 DEF Seal, Stage
    <3>. QED
      BY <1>1, <3>1 DEF Stages
  <2>2. CASE Fail(i)
    <3>1. payouts[i].stage = "built" /\ Moves(i, "failed") /\ height' = height
      BY <2>2 DEF Fail, Stage
    <3>. QED
      BY <1>1, <3>1 DEF Stages
  <2>3. CASE Send(i)
    <3>1. payouts[i].stage = "sealed" /\ Moves(i, "sent") /\ height' = height
      BY <2>3 DEF Send, Stage
    <3>. QED
      BY <1>1, <3>1 DEF Stages
  <2>4. CASE Forget(i)
    <3>1. payouts[i].stage = "sent" /\ Moves(i, "forgotten") /\ height' = height
      BY <2>4, Zenon DEF Forget, Stage
    <3>. QED
      BY <1>1, <3>1 DEF Stages
  <2>5. CASE Mine(i)
    <3>1. Minable(i) /\ Moves(i, "mined") /\ height' = height + 1
      BY <2>5, Zenon DEF Mine
    <3>. QED
      BY <1>1, <3>1 DEF Stages
  <2>. QED
    BY <1>2, <2>1, <2>2, <2>3, <2>4, <2>5
<1>3. ASSUME Assemble
      PROVE  /\ height' = height /\ building # NoBuild /\ building' = NoBuild
             /\ \E spent, change, fee : payouts' = Append(payouts,
                  [want |-> Want, spent |-> spent, change |-> change, fee |-> fee,
                   built |-> height, expiry |-> height + EXPIRY_DELTA, stage |-> "built"])
  <2>1. payouts' = Append(payouts,
          [want |-> Want, spent |-> Spent(Want, building.fee),
           change |-> Change(Want, building.fee), fee |-> building.fee,
           built |-> height, expiry |-> height + EXPIRY_DELTA, stage |-> "built"])
    BY <1>3, Zenon DEF Assemble, Expiry
  <2>2. height' = height /\ building # NoBuild /\ building' = NoBuild
    BY <1>3, Zenon DEF Assemble
  <2>. QED
    BY <2>1, <2>2, Zenon
<1>4. ASSUME \/ \E w \in Wants : Begin(w) \/ RefusePool(w)
             \/ RefuseInsufficient \/ RaiseFee \/ RefuseUnsettled \/ Tick
             \/ UNCHANGED vars
      PROVE  payouts' = payouts /\ height' \in Nat /\ height <= height'
  <2>1. payouts' = payouts /\ (height' = height \/ height' = height + 1)
    <3>1. ASSUME NEW w \in Wants, Begin(w) \/ RefusePool(w)
          PROVE  payouts' = payouts /\ height' = height
      BY <3>1, Zenon DEF Begin, RefusePool, Refuse
    <3>2. ASSUME RefuseInsufficient \/ RaiseFee \/ RefuseUnsettled
          PROVE  payouts' = payouts /\ height' = height
      BY <3>2, Zenon DEF RefuseInsufficient, RaiseFee, RefuseUnsettled, Refuse
    <3>3. ASSUME Tick PROVE payouts' = payouts /\ height' = height + 1
      BY <3>3, Zenon DEF Tick
    <3>4. ASSUME UNCHANGED vars PROVE payouts' = payouts /\ height' = height
      BY <3>4, Zenon DEF vars
    <3>. QED
      BY <1>4, <3>1, <3>2, <3>3, <3>4, Zenon
  <2>. QED
    BY <1>1, <2>1
<1>5. CASE \E i \in DOMAIN payouts : Seal(i) \/ Fail(i) \/ Send(i) \/ Forget(i) \/ Mine(i)
  BY <1>2, <1>5, Zenon
<1>6. CASE Assemble
  <2>1. height' \in Nat /\ height <= height'
    BY <1>1, <1>3, <1>6
  <2>. QED
    BY <1>3, <1>6, <2>1, Zenon
<1>7. CASE \/ \E w \in Wants : Begin(w) \/ RefusePool(w)
           \/ RefuseInsufficient \/ RaiseFee \/ RefuseUnsettled \/ Tick
           \/ UNCHANGED vars
  BY <1>4, <1>7, Zenon
<1>. QED
  BY <1>5, <1>6, <1>7, Zenon DEF Next

(***************************************************************************)
(* The call of build under way is for one want, none of whose payouts was  *)
(* alive when it began.                                                    *)
(***************************************************************************)
LEMMA BuildingSteps ==
  ASSUME [Next]_vars, building' # NoBuild
  PROVE  \/ building # NoBuild /\ Want' = Want
         \/ \A i \in DOMAIN payouts : payouts[i].want = Want' => ~ Alive(payouts[i])
<1>1. ASSUME NEW w \in Wants, Begin(w)
      PROVE  \A i \in DOMAIN payouts : payouts[i].want = Want' => ~ Alive(payouts[i])
  <2>1. Due(w) /\ building' = [want |-> w, pass |-> 1, fee |-> Zip317Fee(2, Transparent[w])]
    BY <1>1, Zenon DEF Begin
  <2>2. Want' = w
    BY <2>1 DEF Want
  <2>. QED
    BY <2>1, <2>2, Zenon DEF Due
<1>2. ASSUME RaiseFee
      PROVE  building # NoBuild /\ Want' = Want
  <2>1. /\ building # NoBuild /\ building.pass = 1
        /\ building' = [building EXCEPT !.pass = 2, !.fee = Needed(Want, building.fee)]
    BY <1>2, Zenon DEF RaiseFee
  <2>. QED
    BY <2>1 DEF Want
<1>3. ASSUME \/ \E w \in Wants : RefusePool(w)
             \/ RefuseInsufficient \/ RefuseUnsettled \/ Assemble
      PROVE  FALSE
  BY <1>3, Zenon DEF RefusePool, RefuseInsufficient, RefuseUnsettled, Refuse, Assemble
<1>4. ASSUME \/ \E i \in DOMAIN payouts : Seal(i) \/ Fail(i) \/ Send(i) \/ Forget(i) \/ Mine(i)
             \/ Tick \/ UNCHANGED vars
      PROVE  building' = building
  BY <1>4, Zenon DEF Seal, Fail, Send, Forget, Mine, Stage, Tick, vars
<1>5. CASE building' = building
  BY <1>5, Zenon DEF Want
<1>. QED
  BY <1>1, <1>2, <1>3, <1>4, <1>5, Zenon DEF Next

-----------------------------------------------------------------------------
(***************************************************************************)
(* A step that builds no payout keeps each of them, and a dead one dead.   *)
(***************************************************************************)
LEMMA DeadStays ==
  ASSUME Shape, height' \in Nat, height <= height',
         \/ payouts' = payouts
         \/ \E i \in DOMAIN payouts : \E to \in Stages :
              /\ payouts' = [payouts EXCEPT ![i].stage = to]
              /\ \/ payouts[i].stage = "built" /\ to \in {"sealed", "failed"}
                 \/ payouts[i].stage = "sealed" /\ to = "sent"
                 \/ payouts[i].stage = "sent" /\ to = "forgotten"
                 \/ Minable(i) /\ to = "mined"
  PROVE  /\ Shape' /\ DOMAIN payouts' = DOMAIN payouts
         /\ \A i \in DOMAIN payouts :
              /\ payouts'[i].want = payouts[i].want
              /\ ~ Alive(payouts[i]) => ~ Alive(payouts[i])'
<1>0. EXPIRY_DELTA \in Nat
  BY PayoutAssumption
<1>1. CASE payouts' = payouts
  <2>1. PICK S : payouts \in Seq(Record(S))
    BY DEF Shape
  <2>2. ASSUME NEW i \in DOMAIN payouts PROVE payouts[i].built \in Nat
    <3>1. payouts[i] \in Record(S)
      BY <2>1
    <3>. QED
      BY <3>1 DEF Record
  <2>3. Shape'
    BY <1>1, <2>1 DEF Shape
  <2>4. ASSUME NEW i \in DOMAIN payouts, ~ Alive(payouts[i])
        PROVE  ~ Alive(payouts[i])'
    BY <1>0, <1>1, <2>2, <2>4 DEF Alive, Shape
  <2>. QED
    BY <1>1, <2>3, <2>4
<1>2. ASSUME NEW k \in DOMAIN payouts, NEW to \in Stages,
             payouts' = [payouts EXCEPT ![k].stage = to],
             \/ payouts[k].stage = "built" /\ to \in {"sealed", "failed"}
             \/ payouts[k].stage = "sealed" /\ to = "sent"
             \/ payouts[k].stage = "sent" /\ to = "forgotten"
             \/ Minable(k) /\ to = "mined"
      PROVE  /\ Shape' /\ DOMAIN payouts' = DOMAIN payouts
             /\ \A i \in DOMAIN payouts :
                  /\ payouts'[i].want = payouts[i].want
                  /\ ~ Alive(payouts[i]) => ~ Alive(payouts[i])'
  <2>1. PICK S : payouts \in Seq(Record(S))
    BY DEF Shape
  <2>2. payouts[k] \in Record(S)
    BY <2>1
  <2> DEFINE moved == [payouts[k] EXCEPT !.stage = to]
  <2>3. /\ moved \in Record(S)
        /\ moved.want = payouts[k].want /\ moved.built = payouts[k].built
        /\ moved.expiry = payouts[k].expiry /\ moved.stage = to
    BY <2>2 DEF Record
  <2>4. payouts' = [payouts EXCEPT ![k] = moved]
    BY <1>2, Zenon
  <2> HIDE DEF moved
  <2>5. /\ payouts' \in Seq(Record(S)) /\ DOMAIN payouts' = DOMAIN payouts
        /\ \A i \in DOMAIN payouts : payouts'[i] = IF i = k THEN moved ELSE payouts[i]
    BY <2>1, <2>3, <2>4
  <2>6. Shape'
    BY <2>3, <2>5 DEF Shape
  <2>7. \A i \in DOMAIN payouts : payouts'[i].want = payouts[i].want
    BY <2>3, <2>5
  <2>8. ASSUME NEW i \in DOMAIN payouts, ~ Alive(payouts[i])
        PROVE  ~ Alive(payouts[i])'
    <3>1. /\ payouts[i].built \in Nat
          /\ payouts[i].expiry = payouts[i].built + EXPIRY_DELTA
      <4>1. payouts[i] \in Record(S)
        BY <2>1
      <4>. QED
        BY <4>1 DEF Shape, Record
    <3>2. CASE i # k
      BY <1>0, <2>5, <2>8, <3>1, <3>2 DEF Alive, Shape
    <3>3. CASE i = k
      <4>1. payouts'[i].built = payouts[i].built /\ payouts'[i].stage = to
        BY <2>3, <2>5, <3>3
      <4>. QED
        BY <1>0, <1>2, <2>8, <3>1, <3>3, <4>1 DEF Alive, Minable, Shape
    <3>. QED
      BY <3>2, <3>3
  <2>. QED
    BY <2>5, <2>6, <2>7, <2>8
<1>. QED
  BY <1>1, <1>2, Zenon

(***************************************************************************)
(* A payout that is built comes after all others, which stay as they are.  *)
(***************************************************************************)
LEMMA BuiltLast ==
  ASSUME Shape, height' = height,
         NEW spent, NEW change, NEW fee,
         payouts' = Append(payouts,
           [want |-> Want, spent |-> spent, change |-> change, fee |-> fee,
            built |-> height, expiry |-> height + EXPIRY_DELTA, stage |-> "built"])
  PROVE  /\ Shape'
         /\ Len(payouts) \in Nat /\ DOMAIN payouts = 1 .. Len(payouts)
         /\ DOMAIN payouts' = 1 .. Len(payouts) + 1
         /\ payouts'[Len(payouts) + 1].want = Want
         /\ \A i \in DOMAIN payouts :
              /\ payouts'[i] = payouts[i]
              /\ ~ Alive(payouts[i]) => ~ Alive(payouts[i])'
<1>0. EXPIRY_DELTA \in Nat /\ height \in Nat
  BY PayoutAssumption DEF Shape
<1>1. PICK S : payouts \in Seq(Record(S))
  BY DEF Shape
<1> DEFINE T == S \cup {Want, spent, change, fee}
           new == [want |-> Want, spent |-> spent, change |-> change, fee |-> fee,
                   built |-> height, expiry |-> height + EXPIRY_DELTA, stage |-> "built"]
<1>2. new \in Record(T)
  BY <1>0 DEF Record, Stages
<1>3. new.want = Want /\ new.expiry = new.built + EXPIRY_DELTA
  OBVIOUS
<1>4. Record(S) \subseteq Record(T)
  BY DEF Record
<1>5. payouts \in Seq(Record(T))
  BY <1>1, <1>4, SeqMonotonic, Zenon
<1>6. payouts' = Append(payouts, new)
  OBVIOUS
<1> HIDE DEF T, new
<1>7. /\ payouts' \in Seq(Record(T))
      /\ Len(payouts) \in Nat /\ DOMAIN payouts = 1 .. Len(payouts)
      /\ DOMAIN payouts' = 1 .. Len(payouts) + 1
      /\ payouts'[Len(payouts) + 1] = new
      /\ \A i \in DOMAIN payouts : payouts'[i] = payouts[i]
  BY <1>2, <1>5, <1>6
<1>8. \A i \in DOMAIN payouts' : payouts'[i].expiry = payouts'[i].built + EXPIRY_DELTA
  <2>1. \A i \in DOMAIN payouts' : i \in DOMAIN payouts \/ i = Len(payouts) + 1
    BY <1>7
  <2>. QED
    BY <1>3, <1>7, <2>1 DEF Shape
<1>9. Shape'
  BY <1>0, <1>7, <1>8 DEF Shape
<1>10. \A i \in DOMAIN payouts : ~ Alive(payouts[i]) => ~ Alive(payouts[i])'
  BY <1>7 DEF Alive
<1>. QED
  BY <1>3, <1>7, <1>9, <1>10

(***************************************************************************)
(* Before anything is built, all of it holds.                              *)
(***************************************************************************)
THEOREM InitIInv == Init => IInv
<1>. SUFFICES ASSUME Init PROVE IInv
  OBVIOUS
<1>1. payouts = << >> /\ building = NoBuild /\ height = 0
  BY Zenon DEF Init
<1>2. payouts \in Seq(Record({})) /\ DOMAIN payouts = {}
  BY <1>1
<1>. QED
  BY <1>1, <1>2 DEF IInv, Shape, OneAlive

(***************************************************************************)
(* A step that builds no payout brings none back to life, and one that     *)
(* builds one ends the call, which found the want's payouts dead.          *)
(***************************************************************************)
THEOREM NextIInv == IInv /\ [Next]_vars => IInv'
<1>. SUFFICES ASSUME Shape, OneAlive, [Next]_vars PROVE IInv'
  BY DEF IInv
<1>1. CASE \/ payouts' = payouts
           \/ \E i \in DOMAIN payouts : \E to \in Stages :
                /\ payouts' = [payouts EXCEPT ![i].stage = to]
                /\ \/ payouts[i].stage = "built" /\ to \in {"sealed", "failed"}
                   \/ payouts[i].stage = "sealed" /\ to = "sent"
                   \/ payouts[i].stage = "sent" /\ to = "forgotten"
                   \/ Minable(i) /\ to = "mined"
  <2>1. height' \in Nat /\ height <= height'
    BY Steps, Zenon
  <2>2. /\ Shape' /\ DOMAIN payouts' = DOMAIN payouts
        /\ \A i \in DOMAIN payouts :
             /\ payouts'[i].want = payouts[i].want
             /\ ~ Alive(payouts[i]) => ~ Alive(payouts[i])'
    BY <1>1, <2>1, DeadStays, Zenon
  <2>3. \A i, j \in DOMAIN payouts' :
          i < j /\ payouts'[i].want = payouts'[j].want => ~ Alive(payouts[i])'
    BY <2>2 DEF OneAlive
  <2>4. ASSUME building' # NoBuild, NEW i \in DOMAIN payouts', payouts'[i].want = Want'
        PROVE  ~ Alive(payouts[i])'
    <3>1. ~ Alive(payouts[i])
      BY <2>2, <2>4, BuildingSteps, Zenon DEF OneAlive
    <3>. QED
      BY <2>2, <2>4, <3>1, Zenon
  <2>. QED
    BY <2>2, <2>3, <2>4, Zenon DEF IInv, OneAlive
<1>2. CASE /\ height' = height /\ building # NoBuild /\ building' = NoBuild
           /\ \E spent, change, fee : payouts' = Append(payouts,
                [want |-> Want, spent |-> spent, change |-> change, fee |-> fee,
                 built |-> height, expiry |-> height + EXPIRY_DELTA, stage |-> "built"])
  <2> DEFINE last == Len(payouts) + 1
  <2>1. /\ Shape'
        /\ Len(payouts) \in Nat /\ DOMAIN payouts = 1 .. Len(payouts)
        /\ DOMAIN payouts' = 1 .. last
        /\ payouts'[last].want = Want
        /\ \A i \in DOMAIN payouts :
             /\ payouts'[i] = payouts[i]
             /\ ~ Alive(payouts[i]) => ~ Alive(payouts[i])'
    BY <1>2, BuiltLast, Zenon
  <2>2. ASSUME NEW i \in DOMAIN payouts', NEW j \in DOMAIN payouts',
               i < j, payouts'[i].want = payouts'[j].want
        PROVE  ~ Alive(payouts[i])'
    <3>1. i \in DOMAIN payouts /\ (j \in DOMAIN payouts \/ j = last)
      BY <2>1, <2>2
    <3>2. CASE j \in DOMAIN payouts
      BY <2>1, <2>2, <3>1, <3>2 DEF OneAlive
    <3>3. CASE j = last
      <4>1. payouts[i].want = Want
        BY <2>1, <2>2, <3>1, <3>3
      <4>. QED
        BY <1>2, <2>1, <3>1, <4>1, Zenon DEF OneAlive
    <3>. QED
      BY <3>1, <3>2, <3>3
  <2>. QED
    BY <1>2, <2>1, <2>2, Zenon DEF IInv, OneAlive
<1>. QED
  BY <1>1, <1>2, Steps, Zenon

(***************************************************************************)
(* So whatever the owner, the signers and the chain do, of the payouts of  *)
(* one want at most the last is alive.                                     *)
(***************************************************************************)
THEOREM IInvHolds == Spec => []IInv
BY InitIInv, NextIInv, PTL DEF Spec

(***************************************************************************)
(* "A payout that did not land by then can be rebuilt without fear of both *)
(* landing": a want is paid once, as a payout that is mined is alive.      *)
(***************************************************************************)
THEOREM PaidOnceHolds == Spec => []PaidOnce
<1>1. IInv => PaidOnce
  <2>. SUFFICES ASSUME IInv, NEW i \in Mined, NEW j \in Mined,
                       payouts[i].want = payouts[j].want
                PROVE  i = j
    BY DEF PaidOnce
  <2>1. PICK S : payouts \in Seq(Record(S))
    BY DEF IInv, Shape
  <2>2. i \in DOMAIN payouts /\ j \in DOMAIN payouts /\ i \in Nat /\ j \in Nat
    BY <2>1 DEF Mined
  <2>3. Alive(payouts[i]) /\ Alive(payouts[j])
    BY DEF Mined, Alive
  <2>. QED
    BY <2>2, <2>3 DEF IInv, OneAlive
<1>. QED
  BY <1>1, IInvHolds, PTL

-----------------------------------------------------------------------------
(***************************************************************************)
(* The books: what the store, the call of build and the payouts say of     *)
(* each other.                                                             *)
(***************************************************************************)
Notes == 1 .. Len(value)

StoreOf(size, held, in_flight, spent) ==
  [tree |-> [n \in 1 .. size |-> n], checkpoints |-> << >>, held |-> held,
   in_flight |-> in_flight, spent |-> spent, synced_to |-> 0]

StoreShape ==
  /\ value \in Seq(Nat \ {0})
  /\ store = StoreOf(Len(value), store.held, store.in_flight, store.spent)
  /\ store.held \subseteq Notes /\ store.in_flight \subseteq Notes /\ store.spent \subseteq Notes
  /\ store.held \cap store.in_flight = {}

BuildShape ==
  /\ cross \in BOOLEAN /\ height \in 0 .. MaxHeight
  /\ building \in [want : Wants \cup {"none"}, pass : 0 .. 2, fee : Nat]
  /\ building # NoBuild => Want \in Wants

PayoutRecord == [want : Wants, spent : SUBSET Nat, change : Nat, fee : Nat,
                 built : Nat, expiry : Nat, stage : Stages]

PayoutShape ==
  /\ payouts \in Seq(PayoutRecord)
  /\ \A i \in DOMAIN payouts : payouts[i].spent \subseteq Notes

(* A payout's notes are worth what it pays, its change and its fee, which is the one due. *)
Pays(q) == Worth(q.spent) = Owed[q.want] + q.fee + q.change

FeePaid(q) ==
  LET actions == Actions(Cardinality(q.spent), Outputs(q.want, q.change))
  IN q.fee = Zip317Fee(Greater(actions, 2), Transparent[q.want])

Priced == \A i \in DOMAIN payouts : Pays(payouts[i]) /\ FeePaid(payouts[i])

(* A note of the vault is unspent, or spent by a payout that was mined. *)
Accounted ==
  \A n \in Notes :
    n \in store.held \cup store.in_flight \/ \E i \in Mined : n \in payouts[i].spent

Books ==
  /\ StoreShape /\ BuildShape /\ PayoutShape
  /\ Priced /\ Accounted /\ InFlightIsPending

-----------------------------------------------------------------------------
(***************************************************************************)
(* What the passes over a payout's notes come to.                          *)
(***************************************************************************)
Whole(s) ==
  s = [tree |-> s.tree, checkpoints |-> s.checkpoints, held |-> s.held,
       in_flight |-> s.in_flight, spent |-> s.spent, synced_to |-> s.synced_to]

(***************************************************************************)
(* The parts of a store, and a record with parts like them.                *)
(***************************************************************************)
LEMMA StoreParts ==
  ASSUME NEW size, NEW h, NEW f, NEW p, NEW s, s = StoreOf(size, h, f, p)
  PROVE  s.held = h /\ s.in_flight = f /\ s.spent = p /\ Whole(s)
<1> DEFINE t == [n \in 1 .. size |-> n]
<1>1. s = [tree |-> t, checkpoints |-> << >>, held |-> h,
           in_flight |-> f, spent |-> p, synced_to |-> 0]
  BY Zenon DEF StoreOf
<1> HIDE DEF t
<1>. QED
  BY <1>1 DEF Whole

(***************************************************************************)
(* A record whose tree, checkpoints and height are a store's is a store.   *)
(***************************************************************************)
LEMMA StoreAgain ==
  ASSUME NEW size, NEW h, NEW f, NEW p, NEW s, s = StoreOf(size, h, f, p), NEW t, Whole(t),
         t.tree = s.tree, t.checkpoints = s.checkpoints, t.synced_to = s.synced_to
  PROVE  t = StoreOf(size, t.held, t.in_flight, t.spent)
<1> DEFINE c == [n \in 1 .. size |-> n]
<1>1. \A u, v, w : StoreOf(size, u, v, w) =
        [tree |-> c, checkpoints |-> << >>, held |-> u,
         in_flight |-> v, spent |-> w, synced_to |-> 0]
  BY Zenon DEF StoreOf
<1> HIDE DEF c
<1>2. s = [tree |-> c, checkpoints |-> << >>, held |-> h,
           in_flight |-> f, spent |-> p, synced_to |-> 0]
  BY <1>1, Zenon
<1>3. t.tree = c /\ t.checkpoints = << >> /\ t.synced_to = 0
  BY <1>2
<1>4. t = [tree |-> c, checkpoints |-> << >>, held |-> t.held,
           in_flight |-> t.in_flight, spent |-> t.spent, synced_to |-> 0]
  BY <1>3, Zenon DEF Whole
<1>. QED
  BY <1>1, <1>4, Zenon

(***************************************************************************)
(* A payout takes a note.                                                  *)
(***************************************************************************)
LEMMA NoteTaken ==
  ASSUME NEW size, NEW h, NEW f, NEW p, NEW s, s = StoreOf(size, h, f, p), NEW n
  PROVE  Spend(s, n) = StoreOf(size, h \ {n}, f \cup {n}, p)
<1> DEFINE t == Spend(s, n)
           x == h \ {n}
           y == f \cup {n}
<1>1. s.held = h /\ s.in_flight = f /\ s.spent = p /\ Whole(s)
  BY StoreParts
<1>2. t = [s EXCEPT !.held = x, !.in_flight = y]
  BY <1>1, Zenon DEF Spend
<1> HIDE DEF t, x, y
<1>3. /\ t.held = x /\ t.in_flight = y /\ t.spent = p
      /\ t.tree = s.tree /\ t.checkpoints = s.checkpoints /\ t.synced_to = s.synced_to
      /\ Whole(t)
  BY <1>1, <1>2 DEF Whole
<1>4. t = StoreOf(size, t.held, t.in_flight, t.spent)
  BY <1>3, StoreAgain
<1>. QED
  BY <1>3, <1>4, Zenon DEF t, x, y

(***************************************************************************)
(* Forgetting puts in flight those of the notes that are still held.       *)
(***************************************************************************)
LEMMA NotesTaken ==
  ASSUME NEW size, NEW held, NEW in_flight, NEW spent, NEW ns, IsFiniteSet(ns)
  PROVE  TakeNotes(StoreOf(size, held, in_flight, spent), ns)
           = StoreOf(size, held \ ns, in_flight \cup (ns \cap held), spent)
<1> DEFINE s == StoreOf(size, held, in_flight, spent)
           c(u) == CHOOSE x \in u : TRUE
           G(u) == StoreOf(size, held \ u, in_flight \cup (u \cap held), spent)
           Step(n, t) == IF n \in t.held THEN Spend(t, n) ELSE t
           Body(f, u) == IF u = {} THEN s ELSE Step(c(u), f[u \ {c(u)}])
           fold == CHOOSE f : f = [u \in SUBSET ns |-> Body(f, u)]
           T == {u \in SUBSET ns : fold[u] = G(u)}
<1>1. ASSUME NEW u, NEW n \in u PROVE Step(n, G(u \ {n})) = G(u)
  <2> DEFINE h == held \ (u \ {n})
             i == in_flight \cup ((u \ {n}) \cap held)
  <2>1. CASE n \in held
    <3>1. n \in h /\ h \ {n} = held \ u /\ i \cup {n} = in_flight \cup (u \cap held)
      BY <2>1
    <3> HIDE DEF h, i
    <3>2. StoreOf(size, h, i, spent).held = h
      BY StoreParts
    <3>3. Spend(StoreOf(size, h, i, spent), n) = StoreOf(size, h \ {n}, i \cup {n}, spent)
      BY NoteTaken
    <3>. QED
      BY <3>1, <3>2, <3>3, Zenon DEF h, i
  <2>2. CASE n \notin held
    <3>1. n \notin h /\ h = held \ u /\ i = in_flight \cup (u \cap held)
      BY <2>2
    <3> HIDE DEF h, i
    <3>2. StoreOf(size, h, i, spent).held = h
      BY StoreParts
    <3>. QED
      BY <3>1, <3>2, Zenon DEF h, i
  <2>. QED
    BY <2>1, <2>2
<1>2. G({}) = s
  <2>1. held \ {} = held /\ in_flight \cup ({} \cap held) = in_flight
    OBVIOUS
  <2>. QED
    BY <2>1, Zenon
<1>3. \E f : f = [u \in SUBSET ns |-> Body(f, u)]
  <2> DEFINE g == [u \in SUBSET ns |-> G(u)]
  <2> HIDE DEF G, Step, s
  <2>1. ASSUME NEW u \in SUBSET ns PROVE G(u) = Body(g, u)
    <3>1. CASE u = {}
      BY <1>2, <3>1
    <3>2. CASE u # {}
      <4>1. c(u) \in u
        BY <3>2
      <4>2. g[u \ {c(u)}] = G(u \ {c(u)})
        OBVIOUS
      <4> HIDE DEF c, g
      <4>. QED
        BY <1>1, <3>2, <4>1, <4>2
    <3>. QED
      BY <3>1, <3>2
  <2> HIDE DEF Body
  <2>2. g = [u \in SUBSET ns |-> Body(g, u)]
    BY <2>1
  <2> HIDE DEF g
  <2>. QED
    BY <2>2, Zenon
<1>4. fold = [u \in SUBSET ns |-> Body(fold, u)]
  <2> HIDE DEF Body
  <2>. QED
    BY <1>3, Zenon
<1>5. TakeNotes(s, ns) = fold[ns]
  BY Zenon DEF TakeNotes, FoldSet, MapThenFoldSet
<1> HIDE DEF fold, G, Step, s
<1>6. ASSUME NEW u \in SUBSET ns, \A x \in u : u \ {x} \in T PROVE u \in T
  <2>1. fold[u] = Body(fold, u)
    <3> HIDE DEF Body
    <3>. QED
      BY <1>4, Zenon
  <2>2. CASE u = {}
    BY <1>2, <2>1, <2>2
  <2>3. CASE u # {}
    <3>1. c(u) \in u
      BY <2>3
    <3> HIDE DEF c
    <3>2. fold[u \ {c(u)}] = G(u \ {c(u)})
      BY <1>6, <3>1
    <3>3. fold[u] = G(u)
      BY <1>1, <2>1, <2>3, <3>1, <3>2, Zenon
    <3>. QED
      BY <3>3
  <2>. QED
    BY <2>2, <2>3
<1>7. fold[ns] = G(ns)
  <2> HIDE DEF T
  <2>1. \A u \in SUBSET ns : u \in T
    BY <1>6, SubsetInduction, Zenon
  <2>. QED
    BY <2>1 DEF T
<1>. QED
  BY <1>5, <1>7 DEF G, s

(***************************************************************************)
(* Notes of a store of so many, that are held and in flight.               *)
(***************************************************************************)
Apart(held, in_flight, size) ==
  held \subseteq 1 .. size /\ in_flight \subseteq 1 .. size /\ held \cap in_flight = {}

(***************************************************************************)
(* The chain shows a note spent: it leaves what is held and in flight.     *)
(***************************************************************************)
LEMMA NullifierSeen ==
  ASSUME NEW size, NEW h, NEW f, NEW p, NEW s, s = StoreOf(size, h, f, p), NEW n,
         Apart(h, f, size)
  PROVE  SpendNullifier(s, n) = StoreOf(size, h \ {n}, f \ {n}, p \cup ({n} \cap (h \cup f)))
<1> DEFINE First(ps) == CHOOSE q \in ps : \A o \in ps : q <= o
           t == SpendNullifier(s, n)
           flying == Positions(s, f, n)
           holding == Positions(s, h, n)
<1>1. s.held = h /\ s.in_flight = f /\ s.spent = p /\ Whole(s)
  BY StoreParts
<1>a. h \subseteq 1 .. size /\ f \subseteq 1 .. size /\ h \cap f = {}
  BY DEF Apart
<1>2. s.tree = [q \in 1 .. size |-> q]
  <2> DEFINE c == [q \in 1 .. size |-> q]
  <2>1. s = [tree |-> c, checkpoints |-> << >>, held |-> h,
             in_flight |-> f, spent |-> p, synced_to |-> 0]
    BY Zenon DEF StoreOf
  <2> HIDE DEF c
  <2>2. s.tree = c
    BY <2>1
  <2>. QED
    BY <2>2 DEF c
<1>3. flying = f \cap {n} /\ holding = h \cap {n}
  <2>1. DOMAIN s.tree = 1 .. size /\ \A q \in 1 .. size : s.tree[q] = q
    BY <1>2
  <2>. QED
    BY <1>a, <2>1 DEF Positions
<1>4. n \in 1 .. size => First({n}) = n
  <2>1. ASSUME n \in 1 .. size PROVE First({n}) = n
    <3>1. n \in Int
      BY <2>1
    <3>2. \E q \in {n} : \A o \in {n} : q <= o
      BY <3>1
    <3>3. First({n}) \in {n}
      BY <3>2, Zenon
    <3>. QED
      BY <3>3
  <2>. QED
    BY <2>1
<1>5. t = CASE flying # {} ->
                 [s EXCEPT !.in_flight = s.in_flight \ {First(flying)},
                           !.spent = s.spent \cup {n}]
            [] flying = {} /\ holding # {} ->
                 [s EXCEPT !.held = s.held \ {First(holding)}, !.spent = s.spent \cup {n}]
            [] OTHER -> s
  BY <1>1, Zenon DEF SpendNullifier
<1> HIDE DEF t, flying, holding, First
<1>6. CASE n \in f
  <2> DEFINE x == f \ {n}
             y == p \cup {n}
  <2>1. flying = {n} /\ flying # {} /\ First(flying) = n
    BY <1>a, <1>3, <1>4, <1>6
  <2>2. t = [s EXCEPT !.in_flight = x, !.spent = y]
    BY <1>1, <1>5, <2>1
  <2>3. x = f \ {n} /\ h = h \ {n} /\ y = p \cup ({n} \cap (h \cup f))
    BY <1>a, <1>6
  <2> HIDE DEF x, y
  <2>4. /\ t.held = h /\ t.in_flight = x /\ t.spent = y
        /\ t.tree = s.tree /\ t.checkpoints = s.checkpoints /\ t.synced_to = s.synced_to
        /\ Whole(t)
    BY <1>1, <2>2 DEF Whole
  <2>5. t = StoreOf(size, t.held, t.in_flight, t.spent)
    BY <2>4, StoreAgain
  <2>. QED
    BY <2>3, <2>4, <2>5, Zenon DEF t
<1>7. CASE n \in h
  <2> DEFINE x == h \ {n}
             y == p \cup {n}
  <2>1. flying = {} /\ holding = {n} /\ holding # {} /\ First(holding) = n
    BY <1>a, <1>3, <1>4, <1>7
  <2>2. t = [s EXCEPT !.held = x, !.spent = y]
    BY <1>1, <1>5, <2>1
  <2>3. x = h \ {n} /\ f = f \ {n} /\ y = p \cup ({n} \cap (h \cup f))
    BY <1>a, <1>7
  <2> HIDE DEF x, y
  <2>4. /\ t.held = x /\ t.in_flight = f /\ t.spent = y
        /\ t.tree = s.tree /\ t.checkpoints = s.checkpoints /\ t.synced_to = s.synced_to
        /\ Whole(t)
    BY <1>1, <2>2 DEF Whole
  <2>5. t = StoreOf(size, t.held, t.in_flight, t.spent)
    BY <2>4, StoreAgain
  <2>. QED
    BY <2>3, <2>4, <2>5, Zenon DEF t
<1>8. CASE n \notin f /\ n \notin h
  <2>1. flying = {} /\ holding = {}
    BY <1>3, <1>8
  <2>2. t = s
    BY <1>5, <2>1
  <2>3. h = h \ {n} /\ f = f \ {n} /\ p = p \cup ({n} \cap (h \cup f))
    BY <1>8
  <2>. QED
    BY <2>2, <2>3, Zenon DEF t
<1>. QED
  BY <1>6, <1>7, <1>8

(***************************************************************************)
(* A block with a payout shows each of its notes spent.                    *)
(***************************************************************************)
LEMMA NullifiersSeen ==
  ASSUME NEW size, NEW held, NEW in_flight, NEW spent, NEW ns, IsFiniteSet(ns),
         Apart(held, in_flight, size)
  PROVE  SeeNullifiers(StoreOf(size, held, in_flight, spent), ns)
           = StoreOf(size, held \ ns, in_flight \ ns, spent \cup (ns \cap (held \cup in_flight)))
<1> DEFINE s == StoreOf(size, held, in_flight, spent)
           c(u) == CHOOSE x \in u : TRUE
           G(u) == StoreOf(size, held \ u, in_flight \ u, spent \cup (u \cap (held \cup in_flight)))
           Body(f, u) == IF u = {} THEN s ELSE SpendNullifier(f[u \ {c(u)}], c(u))
           fold == CHOOSE f : f = [u \in SUBSET ns |-> Body(f, u)]
           T == {u \in SUBSET ns : fold[u] = G(u)}
<1>1. ASSUME NEW u, NEW n \in u PROVE SpendNullifier(G(u \ {n}), n) = G(u)
  <2> DEFINE h == held \ (u \ {n})
             i == in_flight \ (u \ {n})
             p == spent \cup ((u \ {n}) \cap (held \cup in_flight))
             g == StoreOf(size, h, i, p)
  <2>1. /\ h \ {n} = held \ u /\ i \ {n} = in_flight \ u
        /\ p \cup ({n} \cap (h \cup i)) = spent \cup (u \cap (held \cup in_flight))
        /\ Apart(h, i, size)
    BY DEF Apart
  <2>2. g = G(u \ {n}) /\ g = StoreOf(size, h, i, p)
    OBVIOUS
  <2> HIDE DEF h, i, p, g
  <2>3. SpendNullifier(g, n) = StoreOf(size, h \ {n}, i \ {n}, p \cup ({n} \cap (h \cup i)))
    BY <2>1, <2>2, NullifierSeen
  <2>. QED
    BY <2>1, <2>2, <2>3, Zenon
<1>2. G({}) = s
  <2>1. /\ held \ {} = held /\ in_flight \ {} = in_flight
        /\ spent \cup ({} \cap (held \cup in_flight)) = spent
    OBVIOUS
  <2>. QED
    BY <2>1, Zenon
<1>3. \E f : f = [u \in SUBSET ns |-> Body(f, u)]
  <2> DEFINE g == [u \in SUBSET ns |-> G(u)]
  <2> HIDE DEF G, s
  <2>1. ASSUME NEW u \in SUBSET ns PROVE G(u) = Body(g, u)
    <3>1. CASE u = {}
      BY <1>2, <3>1
    <3>2. CASE u # {}
      <4>1. c(u) \in u
        BY <3>2
      <4>2. g[u \ {c(u)}] = G(u \ {c(u)})
        OBVIOUS
      <4> HIDE DEF c, g
      <4>. QED
        BY <1>1, <3>2, <4>1, <4>2
    <3>. QED
      BY <3>1, <3>2
  <2> HIDE DEF Body
  <2>2. g = [u \in SUBSET ns |-> Body(g, u)]
    BY <2>1
  <2> HIDE DEF g
  <2>. QED
    BY <2>2, Zenon
<1>4. fold = [u \in SUBSET ns |-> Body(fold, u)]
  <2> HIDE DEF Body
  <2>. QED
    BY <1>3, Zenon
<1>5. SeeNullifiers(s, ns) = fold[ns]
  BY Zenon DEF SeeNullifiers, FoldSet, MapThenFoldSet
<1> HIDE DEF fold, G, s
<1>6. ASSUME NEW u \in SUBSET ns, \A x \in u : u \ {x} \in T PROVE u \in T
  <2>1. fold[u] = Body(fold, u)
    <3> HIDE DEF Body
    <3>. QED
      BY <1>4, Zenon
  <2>2. CASE u = {}
    BY <1>2, <2>1, <2>2
  <2>3. CASE u # {}
    <3>1. c(u) \in u
      BY <2>3
    <3> HIDE DEF c
    <3>2. fold[u \ {c(u)}] = G(u \ {c(u)})
      BY <1>6, <3>1
    <3>3. fold[u] = G(u)
      BY <1>1, <2>1, <2>3, <3>1, <3>2, Zenon
    <3>. QED
      BY <3>3
  <2>. QED
    BY <2>2, <2>3
<1>7. fold[ns] = G(ns)
  <2> HIDE DEF T
  <2>1. \A u \in SUBSET ns : u \in T
    BY <1>6, SubsetInduction, Zenon
  <2>. QED
    BY <2>1 DEF T
<1>. QED
  BY <1>5, <1>7, Zenon DEF G, s

-----------------------------------------------------------------------------
(***************************************************************************)
(* What the selection of notes comes to.                                   *)
(***************************************************************************)
(***************************************************************************)
(* Any notes of the vault are finitely many, and worth a number.           *)
(***************************************************************************)
LEMMA WorthNat ==
  ASSUME value \in Seq(Nat \ {0}), NEW ns, ns \subseteq Notes
  PROVE  IsFiniteSet(ns) /\ (\A n \in ns : value[n] \in Nat) /\ Worth(ns) \in Nat
<1>1. Len(value) \in Nat
  BY LenProperties
<1>2. IsFiniteSet(Notes)
  BY <1>1, FS_Interval DEF Notes
<1>3. IsFiniteSet(ns)
  BY <1>2, FS_Subset
<1>4. \A n \in ns : value[n] \in Nat
  BY ElementOfSeq DEF Notes
<1>5. Worth(ns) \in Nat
  BY <1>3, <1>4, SumNat DEF Worth
<1>. QED
  BY <1>3, <1>4, <1>5

(***************************************************************************)
(* Largest first, the notes selected cover an amount that the notes held   *)
(* cover.  Of the notes held that are not selected, one has the fewest     *)
(* before it; all of those are selected, and they cover the amount.        *)
(***************************************************************************)
THEOREM SelectedCovers ==
  ASSUME StoreShape, NEW amount \in Nat, ~ Insufficient(amount)
  PROVE  Worth(Selected(amount)) \in Nat /\ Worth(Selected(amount)) >= amount
<1> DEFINE taken == Selected(amount)
           left == store.held \ taken
           C(n) == Cardinality(Before(n))
<1>0. value \in Seq(Nat \ {0}) /\ store.held \subseteq Notes
  BY DEF StoreShape
<1>1. taken \subseteq store.held /\ taken \subseteq Notes
  BY <1>0 DEF Selected
<1>2. Worth(taken) \in Nat /\ Worth(store.held) \in Nat
  BY <1>0, <1>1, WorthNat
<1>3. CASE left = {}
  <2>1. taken = store.held
    BY <1>1, <1>3
  <2>2. Worth(store.held) >= amount
    BY <1>2 DEF Insufficient
  <2>3. Worth(taken) >= amount
    BY <2>1, <2>2, Zenon
  <2>. QED
    BY <1>2, <2>3
<1>4. CASE left # {}
  <2>1. \A n \in store.held : Before(n) \subseteq Notes /\ IsFiniteSet(Before(n))
    <3>1. ASSUME NEW n \in store.held PROVE Before(n) \subseteq Notes
      BY <1>0 DEF Before
    <3>. QED
      BY <1>0, <3>1, WorthNat
  <2>2. \A n \in store.held : C(n) \in Nat
    BY <2>1, FS_CardinalityType
  <2>3. PICK n \in left : \A m \in left : C(n) <= C(m)
    <3> DEFINE T == {C(m) : m \in left}
    <3>1. T \subseteq Nat /\ T # {}
      BY <1>4, <2>2
    <3>2. PICK k \in T : \A j \in T : k <= j
      <4> HIDE DEF T
      <4>. QED
        BY <3>1, LeastNat
    <3>3. PICK n \in left : k = C(n)
      OBVIOUS
    <3> HIDE DEF C, left
    <3>. QED
      BY <3>2, <3>3
  <2>4. ASSUME NEW m \in Before(n) PROVE m \in taken
    <3>1. m \in store.held
      BY DEF Before
    <3>2. Before(m) \subseteq Before(n) /\ m \notin Before(m)
      <4>1. \A x \in store.held : value[x] \in Nat /\ x \in Nat
        BY <1>0, ElementOfSeq DEF Notes
      <4>2. n \in store.held
        OBVIOUS
      <4> HIDE DEF left, taken
      <4>. QED
        BY <3>1, <4>1, <4>2 DEF Before
    <3>3. C(m) <= C(n) /\ C(m) # C(n)
      BY <2>1, <3>2, FS_Subset
    <3>4. C(m) \in Nat /\ C(n) \in Nat
      BY <2>2, <3>1
    <3>5. m \notin left
      <4> HIDE DEF C, left
      <4>. QED
        BY <2>3, <3>3, <3>4
    <3>. QED
      BY <3>1, <3>5
  <2>5. Worth(Before(n)) <= Worth(taken)
    <3>1. IsFiniteSet(taken) /\ (\A x \in taken : value[x] \in Nat)
      BY <1>0, <1>1, WorthNat
    <3>2. Before(n) \in SUBSET taken
      BY <2>4
    <3>3. SumFunctionOnSet(value, Before(n)) <= SumFunctionOnSet(value, taken)
      <4> HIDE DEF taken
      <4>. QED
        BY <3>1, <3>2, SumSubset
    <3>. QED
      BY <3>3 DEF Worth
  <2>6. Worth(Before(n)) \in Nat
    BY <1>0, <2>1, WorthNat
  <2>7. ~ (Worth(Before(n)) < amount)
    BY DEF Selected
  <2> HIDE DEF taken, left
  <2>8. Worth(taken) >= amount
    BY <1>2, <2>5, <2>6, <2>7
  <2>. QED
    BY <1>2, <2>8, Zenon DEF taken
<1> HIDE DEF taken
<1>5. Worth(taken) >= amount
  BY <1>3, <1>4 DEF taken
<1>. QED
  BY <1>2, <1>5 DEF taken

-----------------------------------------------------------------------------
(***************************************************************************)
(* What steps do to the store, the values and the payouts.                 *)
(***************************************************************************)
(***************************************************************************)
(* A store after a note of the vault.                                      *)
(***************************************************************************)
After(s) == AppendNote(s, Len(s.tree) + 1, TRUE)

(***************************************************************************)
(* The note of a payout's change comes after all others, and is held.      *)
(***************************************************************************)
LEMMA NoteAppended ==
  ASSUME NEW size \in Nat, NEW h, NEW f, NEW p, NEW s, s = StoreOf(size, h, f, p),
         NEW k, k = size + 1
  PROVE  After(s) = StoreOf(k, h \cup {k}, f, p)
<1> DEFINE c == [n \in 1 .. size |-> n]
           d == [n \in 1 .. k |-> n]
           g == h \cup {k}
           t == After(s)
<1>1. c \in Seq(Nat) /\ Len(c) = size
  <2>1. c \in [1 .. size -> Nat]
    OBVIOUS
  <2>. QED
    BY <2>1, FunctionIsSequence
<1>2. Append(c, k) = d
  <2>1. /\ Append(c, k) \in Seq(Nat) /\ Len(Append(c, k)) = k
        /\ \A n \in 1 .. size : Append(c, k)[n] = c[n]
        /\ Append(c, k)[k] = k
    BY <1>1, AppendProperties
  <2>2. d \in Seq(Nat) /\ Len(d) = k
    <3>1. d \in [1 .. k -> Nat] /\ k \in Nat
      OBVIOUS
    <3>. QED
      BY <3>1, FunctionIsSequence
  <2>3. ASSUME NEW n \in 1 .. k PROVE Append(c, k)[n] = d[n]
    <3>1. d[n] = n
      OBVIOUS
    <3>2. n \in 1 .. size => c[n] = n
      OBVIOUS
    <3>3. n \in 1 .. size \/ n = k
      OBVIOUS
    <3> HIDE DEF c, d
    <3>. QED
      BY <2>1, <3>1, <3>2, <3>3
  <2> HIDE DEF c, d
  <2>. QED
    BY <2>1, <2>2, <2>3, SeqEqual
<1>3. s = [tree |-> c, checkpoints |-> << >>, held |-> h,
           in_flight |-> f, spent |-> p, synced_to |-> 0]
  BY Zenon DEF StoreOf
<1>4. StoreOf(k, g, f, p) = [tree |-> d, checkpoints |-> << >>, held |-> g,
                             in_flight |-> f, spent |-> p, synced_to |-> 0]
  BY Zenon DEF StoreOf
<1>5. /\ s.tree = c /\ s.held = h /\ s.checkpoints = << >> /\ s.in_flight = f
      /\ s.spent = p /\ s.synced_to = 0 /\ Whole(s)
  <2> HIDE DEF c
  <2>. QED
    BY <1>3 DEF Whole
<1>6. t = [s EXCEPT !.tree = d, !.held = g]
  <2>1. Len(s.tree) + 1 = k
    BY <1>1, <1>5
  <2>2. t = [s EXCEPT !.tree = Append(s.tree, k), !.held = s.held \cup {k}]
    BY <2>1, <1>5, Zenon DEF AppendNote, After
  <2>. QED
    BY <1>2, <1>5, <2>2, Zenon
<1> HIDE DEF c, d, g, t
<1>7. /\ t.tree = d /\ t.held = g /\ t.checkpoints = << >> /\ t.in_flight = f
      /\ t.spent = p /\ t.synced_to = 0 /\ Whole(t)
  BY <1>5, <1>6 DEF Whole
<1>. QED
  BY <1>4, <1>7, Zenon DEF Whole, g, t

(***************************************************************************)
(* The value of a payout's change comes after all others.                  *)
(***************************************************************************)
LEMMA ValueAppended ==
  ASSUME value \in Seq(Nat \ {0}), NEW x \in Nat \ {0}, value' = Append(value, x)
  PROVE  /\ value' \in Seq(Nat \ {0}) /\ Len(value) \in Nat /\ Len(value') = Len(value) + 1
         /\ Notes' = Notes \cup {Len(value) + 1} /\ Len(value) + 1 \notin Notes
         /\ \A n \in Notes : value'[n] = value[n]
         /\ value'[Len(value) + 1] = x
<1>1. /\ Len(value) \in Nat
      /\ value' \in Seq(Nat \ {0}) /\ Len(value') = Len(value) + 1
      /\ \A n \in 1 .. Len(value) : value'[n] = value[n]
      /\ value'[Len(value) + 1] = x
  BY LenProperties, AppendProperties
<1>2. Notes' = Notes \cup {Len(value) + 1} /\ Len(value) + 1 \notin Notes
  BY <1>1 DEF Notes
<1>. QED
  BY <1>1, <1>2, Zenon DEF Notes

(***************************************************************************)
(* A note stays worth what it is, whichever are appended.                  *)
(***************************************************************************)
LEMMA WorthKept ==
  ASSUME value \in Seq(Nat \ {0}), \A n \in Notes : value'[n] = value[n]
  PROVE  \A ns \in SUBSET Notes : Worth(ns)' = Worth(ns)
<1> SUFFICES ASSUME NEW ns \in SUBSET Notes PROVE Worth(ns)' = Worth(ns)
  OBVIOUS
<1>1. IsFiniteSet(ns)
  BY WorthNat
<1>2. \A n \in ns : value'[n] = value[n]
  OBVIOUS
<1>3. SumFunctionOnSet(value', ns) = SumFunctionOnSet(value, ns)
  BY <1>1, <1>2, SumSame
<1>. QED
  BY <1>3 DEF Worth

(***************************************************************************)
(* A payout that moves to another stage is otherwise what it was.          *)
(***************************************************************************)
Kin(p, q) ==
  /\ p.want = q.want /\ p.spent = q.spent /\ p.change = q.change /\ p.fee = q.fee
  /\ p.built = q.built /\ p.expiry = q.expiry

LEMMA Moved ==
  ASSUME payouts \in Seq(PayoutRecord), NEW i \in DOMAIN payouts, NEW to \in Stages,
         payouts' = [payouts EXCEPT ![i].stage = to]
  PROVE  /\ payouts' \in Seq(PayoutRecord) /\ DOMAIN payouts' = DOMAIN payouts
         /\ \A j \in DOMAIN payouts :
              /\ Kin(payouts'[j], payouts[j])
              /\ payouts'[j].stage = IF j = i THEN to ELSE payouts[j].stage
<1> DEFINE moved == [payouts[i] EXCEPT !.stage = to]
<1>1. payouts[i] \in PayoutRecord
  OBVIOUS
<1>2. moved \in PayoutRecord /\ Kin(moved, payouts[i]) /\ moved.stage = to
  BY <1>1 DEF PayoutRecord, Kin
<1>3. payouts' = [payouts EXCEPT ![i] = moved]
  BY Zenon
<1> HIDE DEF moved
<1>4. /\ payouts' \in Seq(PayoutRecord) /\ DOMAIN payouts' = DOMAIN payouts
      /\ \A j \in DOMAIN payouts : payouts'[j] = IF j = i THEN moved ELSE payouts[j]
  BY <1>2, <1>3
<1>5. ASSUME NEW j \in DOMAIN payouts
      PROVE  /\ Kin(payouts'[j], payouts[j])
             /\ payouts'[j].stage = IF j = i THEN to ELSE payouts[j].stage
  <2>1. Kin(payouts[j], payouts[j])
    BY DEF Kin
  <2>2. CASE j = i
    BY <1>2, <1>4, <2>2
  <2>3. CASE j # i
    BY <1>4, <2>1, <2>3
  <2>. QED
    BY <2>2, <2>3
<1>. QED
  BY <1>4, <1>5, Zenon

(***************************************************************************)
(* Notes that cover a payment and a fee: the change, and the fee they make *)
(* due.                                                                    *)
(***************************************************************************)
LEMMA FeeNat ==
  \A actions, transparent \in Nat : Zip317Fee(actions, transparent) \in Nat
<1> SUFFICES ASSUME NEW a \in Nat, NEW t \in Nat PROVE Zip317Fee(a, t) \in Nat
  OBVIOUS
<1>1. MARGINAL_FEE \in Nat
  BY PayoutAssumption
<1>2. Greater(a + t, 2) \in Nat
  BY DEF Greater
<1>3. \A m, n \in Nat : m * n \in Nat
  OBVIOUS
<1>. QED
  BY <1>1, <1>2, <1>3, Zenon DEF Zip317Fee

(***************************************************************************)
(* When the notes held cover a payment and a fee, change is what remains.  *)
(***************************************************************************)
LEMMA PassSettles ==
  ASSUME StoreShape, NEW w \in Wants, NEW fee \in Nat, Covers(w, fee)
  PROVE  /\ Spent(w, fee) \subseteq store.held /\ Spent(w, fee) \subseteq Notes
         /\ Change(w, fee) \in Nat
         /\ Worth(Spent(w, fee)) = Owed[w] + fee + Change(w, fee)
         /\ Needed(w, fee) \in Nat
<1> DEFINE ns == Spent(w, fee)
<1>0. Owed[w] \in Nat /\ Shielded[w] \in Nat /\ Transparent[w] \in Nat
  BY WantsAssumption
<1>1. ns \subseteq store.held /\ ns \subseteq Notes
  BY DEF Spent, Selected, StoreShape
<1>2. Worth(ns) \in Nat /\ Worth(ns) >= Owed[w] + fee
  <2>1. Owed[w] + fee \in Nat
    BY <1>0
  <2>2. ~ Insufficient(Owed[w] + fee)
    BY Zenon DEF Covers
  <2>. QED
    BY <2>1, <2>2, SelectedCovers, Zenon DEF Spent
<1>3. Change(w, fee) = Worth(ns) - Owed[w] - fee
  BY Zenon DEF Change
<1> HIDE DEF ns
<1>4. Change(w, fee) \in Nat /\ Worth(ns) = Owed[w] + fee + Change(w, fee)
  BY <1>0, <1>2, <1>3
<1>5. Needed(w, fee) \in Nat
  <2> DEFINE outputs == Outputs(w, Change(w, fee))
             spends == Cardinality(ns)
             actions == Actions(spends, outputs)
  <2>1. IsFiniteSet(ns)
    BY <1>1, WorthNat DEF StoreShape
  <2>2. spends \in Nat
    BY <2>1, FS_CardinalityType
  <2>3. outputs \in Nat
    BY <1>0 DEF Outputs
  <2> HIDE DEF spends, outputs
  <2>4. actions \in Nat
    BY <2>2, <2>3 DEF Actions, Greater
  <2>5. Needed(w, fee) = Zip317Fee(Greater(actions, 2), Transparent[w])
    BY Zenon DEF Needed, ns, spends, outputs
  <2> HIDE DEF actions
  <2>6. Greater(actions, 2) \in Nat
    BY <2>4 DEF Greater
  <2>. QED
    BY <1>0, <2>5, <2>6, FeeNat, Zenon
<1>. QED
  BY <1>1, <1>4, <1>5, Zenon DEF ns

(***************************************************************************)
(* A step that only moves payouts, and appends at most a note, leaves them *)
(* as they are priced.                                                     *)
(***************************************************************************)
LEMMA PricesKept ==
  ASSUME StoreShape, PayoutShape, Priced, cross' = cross,
         Notes \subseteq Notes', \A n \in Notes : value'[n] = value[n],
         payouts' \in Seq(PayoutRecord), DOMAIN payouts' = DOMAIN payouts,
         \A j \in DOMAIN payouts : Kin(payouts'[j], payouts[j])
  PROVE  PayoutShape' /\ Priced'
<1>1. PayoutShape'
  BY DEF PayoutShape, Kin
<1>2. ASSUME NEW i \in DOMAIN payouts'
      PROVE  Pays(payouts[i])' /\ FeePaid(payouts[i])'
  <2>1. i \in DOMAIN payouts /\ Kin(payouts'[i], payouts[i])
    OBVIOUS
  <2>2. payouts[i].spent \in SUBSET Notes
    BY <2>1 DEF PayoutShape
  <2>3. Worth(payouts[i].spent)' = Worth(payouts[i].spent)
    <3>1. ASSUME NEW ns \in SUBSET Notes PROVE Worth(ns)' = Worth(ns)
      BY WorthKept DEF StoreShape
    <3> DEFINE ns == payouts[i].spent
    <3>2. ns \in SUBSET Notes /\ payouts'[i].spent = ns
      BY <2>1, <2>2 DEF Kin
    <3>3. Worth(payouts[i].spent)' = SumFunctionOnSet(value', payouts'[i].spent)
      BY Zenon DEF Worth
    <3>4. Worth(ns) = SumFunctionOnSet(value, ns)
      BY Zenon DEF Worth
    <3> HIDE DEF ns
    <3>5. SumFunctionOnSet(value', ns) = SumFunctionOnSet(value, ns)
      <4>1. \A m \in SUBSET Notes : SumFunctionOnSet(value', m) = SumFunctionOnSet(value, m)
        BY <3>1, Zenon DEF Worth
      <4>. QED
        BY <3>2, <4>1, Zenon
    <3>. QED
      BY <3>2, <3>3, <3>4, <3>5, Zenon DEF ns
  <2>4. /\ payouts'[i].want = payouts[i].want /\ payouts'[i].spent = payouts[i].spent
        /\ payouts'[i].change = payouts[i].change /\ payouts'[i].fee = payouts[i].fee
    BY <2>1 DEF Kin
  <2>5. Pays(payouts[i]) /\ FeePaid(payouts[i])
    BY <2>1 DEF Priced
  <2>6. Pays(payouts[i])'
    BY <2>3, <2>4, <2>5, Zenon DEF Pays
  <2>7. FeePaid(payouts[i])'
    BY <2>4, <2>5, Zenon DEF FeePaid, Actions
  <2>. QED
    BY <2>6, <2>7
<1>3. Priced'
  BY <1>2, Zenon DEF Priced
<1>. QED
  BY <1>1, <1>3

-----------------------------------------------------------------------------
(***************************************************************************)
(* A step that settles nothing: the notes that are not spent are worth     *)
(* what they were, and no payout is mined.                                 *)
(***************************************************************************)
Still ==
  /\ value' = value
  /\ store'.held \cup store'.in_flight = store.held \cup store.in_flight
  /\ Mined' = Mined /\ DOMAIN payouts \subseteq DOMAIN payouts'
  /\ \A j \in DOMAIN payouts : Kin(payouts'[j], payouts[j])

(***************************************************************************)
(* The steps of the call of build, and of the chain without a payout.      *)
(***************************************************************************)
LEMMA QuietBooks ==
  ASSUME Books, UNCHANGED <<cross, store, value, payouts>>
  PROVE  StoreShape' /\ PayoutShape' /\ Priced' /\ Accounted' /\ InFlightIsPending' /\ Still
<1>1. cross' = cross /\ store' = store /\ value' = value /\ payouts' = payouts
  OBVIOUS
<1>2. Notes' = Notes /\ Mined' = Mined
  BY <1>1, Zenon DEF Notes, Mined
<1>3. StoreShape'
  BY <1>1, <1>2, Zenon DEF Books, StoreShape, StoreOf
<1>4. StoreShape /\ PayoutShape /\ Priced /\ payouts \in Seq(PayoutRecord)
  BY DEF Books, PayoutShape
<1>5. PayoutShape' /\ Priced'
  <2>1. \A j \in DOMAIN payouts : Kin(payouts'[j], payouts[j])
    BY <1>1 DEF Kin
  <2>2. Notes \subseteq Notes' /\ \A n \in Notes : value'[n] = value[n]
    BY <1>1, <1>2
  <2>. QED
    BY <1>1, <1>4, <2>1, <2>2, PricesKept
<1>6. Accounted'
  BY <1>1, <1>2, Zenon DEF Books, Accounted
<1>7. InFlightIsPending'
  BY <1>1, <1>2, Zenon DEF Books, InFlightIsPending
<1>8. Still
  BY <1>1, <1>2 DEF Still, Kin
<1>. QED
  BY <1>3, <1>5, <1>6, <1>7, <1>8

(***************************************************************************)
(* Build takes two passes at most, for a want, with a fee it is due.       *)
(***************************************************************************)
LEMMA BuildKept ==
  ASSUME Books, [Next]_vars
  PROVE  BuildShape'
<1>0. /\ cross \in BOOLEAN /\ height \in 0 .. MaxHeight /\ MaxHeight \in Nat
      /\ building \in [want : Wants \cup {"none"}, pass : 0 .. 2, fee : Nat]
      /\ building # NoBuild => Want \in Wants
  BY PayoutAssumption DEF Books, BuildShape
<1>1. NoBuild \in [want : Wants \cup {"none"}, pass : 0 .. 2, fee : Nat]
  BY DEF NoBuild
<1> DEFINE Rises == height' = height \/ (height' = height + 1 /\ height < MaxHeight)
           Ends == building' = NoBuild \/ building' = building
<1>2. ASSUME cross' = cross, Rises, Ends
      PROVE  BuildShape'
  BY <1>0, <1>1, <1>2 DEF BuildShape, Want
<1>3. ASSUME NEW w \in Wants, Begin(w) PROVE BuildShape'
  <2> DEFINE call == [want |-> w, pass |-> 1, fee |-> Zip317Fee(2, Transparent[w])]
  <2>1. cross' = cross /\ height' = height /\ building' = call
    BY <1>3, Zenon DEF Begin
  <2>2. Zip317Fee(2, Transparent[w]) \in Nat
    BY WantsAssumption, FeeNat
  <2>3. call \in [want : Wants \cup {"none"}, pass : 0 .. 2, fee : Nat] /\ call.want \in Wants
    BY <2>2
  <2> HIDE DEF call
  <2>. QED
    BY <1>0, <2>1, <2>3 DEF BuildShape, Want
<1>4. ASSUME RaiseFee PROVE BuildShape'
  <2> DEFINE fee == Needed(Want, building.fee)
             call == [building EXCEPT !.pass = 2, !.fee = fee]
  <2>1. /\ cross' = cross /\ height' = height /\ building # NoBuild
        /\ Covers(Want, building.fee) /\ building' = call
    BY <1>4, Zenon DEF RaiseFee
  <2>2. Want \in Wants /\ building.fee \in Nat /\ StoreShape
    BY <1>0, <2>1 DEF Books
  <2>3. fee \in Nat
    BY <2>1, <2>2, PassSettles
  <2> HIDE DEF fee
  <2>4. ASSUME NEW r, r = [building EXCEPT !.pass = 2, !.fee = fee]
        PROVE  r \in [want : Wants \cup {"none"}, pass : 0 .. 2, fee : Nat] /\ r.want = Want
    <3>1. building = [want |-> building.want, pass |-> building.pass, fee |-> building.fee]
      BY <1>0
    <3>2. r.want = Want /\ r.pass = 2 /\ r.fee = fee
      BY <2>4, <3>1 DEF Want
    <3>3. r = [want |-> r.want, pass |-> r.pass, fee |-> r.fee]
      BY <2>4, <3>1
    <3>. QED
      BY <2>2, <2>3, <3>2, <3>3
  <2>5. call \in [want : Wants \cup {"none"}, pass : 0 .. 2, fee : Nat] /\ call.want = Want
    BY <2>4, Zenon
  <2> HIDE DEF call
  <2>. QED
    BY <1>0, <2>1, <2>2, <2>5 DEF BuildShape, Want
<1>5. ASSUME \/ \E w \in Wants : RefusePool(w)
             \/ RefuseInsufficient \/ RefuseUnsettled \/ Assemble
      PROVE  cross' = cross /\ Rises /\ Ends
  BY <1>5, Zenon DEF RefusePool, RefuseInsufficient, RefuseUnsettled, Refuse, Assemble
<1>6. ASSUME NEW i \in DOMAIN payouts, Seal(i) \/ Fail(i) \/ Send(i) \/ Forget(i)
      PROVE  cross' = cross /\ Rises /\ Ends
  BY <1>6, Zenon DEF Seal, Fail, Send, Forget, Stage
<1>7. ASSUME NEW i \in DOMAIN payouts, Mine(i)
      PROVE  cross' = cross /\ Rises /\ Ends
  BY <1>7, Zenon DEF Mine
<1>8. ASSUME Tick
      PROVE  cross' = cross /\ Rises /\ Ends
  BY <1>8, Zenon DEF Tick
<1>9. ASSUME UNCHANGED vars
      PROVE  cross' = cross /\ Rises /\ Ends
  BY <1>9, Zenon DEF vars
<1> HIDE DEF Rises, Ends
<1>. QED
  BY <1>2, <1>3, <1>4, <1>5, <1>6, <1>7, <1>8, <1>9, Zenon DEF Next

(***************************************************************************)
(* A payout that is assembled spends held notes, worth what it pays, its   *)
(* change and its fee; nothing else changes until it is broadcast.         *)
(***************************************************************************)
LEMMA AssembleBooks ==
  ASSUME Books, Assemble
  PROVE  StoreShape' /\ PayoutShape' /\ Priced' /\ Accounted' /\ InFlightIsPending' /\ Still
<1> DEFINE fee == building.fee
           new == [want |-> Want, spent |-> Spent(Want, fee), change |-> Change(Want, fee),
                   fee |-> fee, built |-> height, expiry |-> Expiry(height), stage |-> "built"]
           last == Len(payouts) + 1
<1>1. /\ building # NoBuild /\ Covers(Want, fee) /\ Needed(Want, fee) = fee
      /\ payouts' = Append(payouts, new)
      /\ cross' = cross /\ store' = store /\ value' = value
  BY Zenon DEF Assemble, Settles
<1>2. /\ StoreShape /\ PayoutShape /\ Want \in Wants /\ fee \in Nat /\ height \in Nat
      /\ EXPIRY_DELTA \in Nat
  BY <1>1, PayoutAssumption DEF Books, BuildShape
<1>3. /\ Spent(Want, fee) \subseteq Notes /\ Change(Want, fee) \in Nat
      /\ Worth(Spent(Want, fee)) = Owed[Want] + fee + Change(Want, fee)
  BY <1>1, <1>2, PassSettles, Zenon
<1>4. new \in PayoutRecord
  <2>1. Spent(Want, fee) \subseteq Nat
    BY <1>3 DEF Notes
  <2>2. Expiry(height) \in Nat
    BY <1>2 DEF Expiry
  <2>3. "built" \in Stages
    BY DEF Stages
  <2> HIDE DEF fee
  <2>. QED
    BY <1>2, <1>3, <2>1, <2>2, <2>3 DEF PayoutRecord
<1>5. Pays(new)
  BY <1>3 DEF Pays
<1>6. FeePaid(new)
  BY <1>1, Zenon DEF FeePaid, Needed
<1>7. new.spent \subseteq Notes /\ new.stage = "built"
  BY <1>3
<1> HIDE DEF new
<1>8. /\ payouts' \in Seq(PayoutRecord) /\ DOMAIN payouts' = DOMAIN payouts \cup {last}
      /\ last \notin DOMAIN payouts
      /\ payouts'[last] = new /\ \A i \in DOMAIN payouts : payouts'[i] = payouts[i]
  BY <1>1, <1>2, <1>4 DEF PayoutShape
<1>9. Notes' = Notes
  BY <1>1, Zenon DEF Notes
<1>10. Mined' = Mined
  BY <1>7, <1>8 DEF Mined
<1>11. StoreShape'
  BY <1>1, <1>2, <1>9, Zenon DEF StoreShape, StoreOf
<1>12. PayoutShape'
  BY <1>2, <1>7, <1>8, <1>9 DEF PayoutShape
<1>13. Priced'
  <2>1. \A q : (Pays(q) <=> SumFunctionOnSet(value, q.spent) = Owed[q.want] + q.fee + q.change)
    BY Zenon DEF Pays, Worth
  <2>2. ASSUME NEW i \in DOMAIN payouts' PROVE Pays(payouts[i])' /\ FeePaid(payouts[i])'
    <3>1. Pays(payouts'[i]) /\ FeePaid(payouts'[i])
      <4>1. CASE i = last
        BY <1>5, <1>6, <1>8, <4>1
      <4>2. CASE i \in DOMAIN payouts
        BY <1>8, <4>2 DEF Books, Priced
      <4>. QED
        BY <1>8, <4>1, <4>2
    <3>2. Pays(payouts[i])'
      BY <1>1, <3>1, Zenon DEF Pays, Worth
    <3>3. FeePaid(payouts[i])'
      BY <1>1, <3>1, Zenon DEF FeePaid, Actions
    <3>. QED
      BY <3>2, <3>3
  <2>. QED
    BY <2>2, Zenon DEF Priced
<1>14. Accounted'
  <2>1. \A i \in Mined : payouts'[i] = payouts[i]
    BY <1>8 DEF Mined
  <2>. QED
    BY <1>1, <1>9, <1>10, <2>1 DEF Books, Accounted
<1>15. InFlightIsPending'
  <2>1. \A i \in Mined : payouts'[i] = payouts[i]
    BY <1>8 DEF Mined
  <2>. QED
    BY <1>1, <1>8, <1>10, <2>1 DEF Books, InFlightIsPending
<1>16. Still
  BY <1>1, <1>8, <1>10 DEF Still, Kin
<1>. QED
  BY <1>11, <1>12, <1>13, <1>14, <1>15, <1>16

(***************************************************************************)
(* The steps of a payout.  Signing and sending it touch nothing else.      *)
(***************************************************************************)
LEMMA SignBooks ==
  ASSUME Books, NEW i \in DOMAIN payouts, Seal(i) \/ Fail(i) \/ Send(i)
  PROVE  StoreShape' /\ PayoutShape' /\ Priced' /\ Accounted' /\ InFlightIsPending' /\ Still
<1>1. PICK to \in {"sealed", "failed", "sent"} :
        /\ payouts[i].stage \in {"built", "sealed"}
        /\ payouts' = [payouts EXCEPT ![i].stage = to]
        /\ cross' = cross /\ store' = store /\ value' = value
  <2>1. CASE Seal(i)
    BY <2>1, Zenon DEF Seal, Stage
  <2>2. CASE Fail(i)
    BY <2>2, Zenon DEF Fail, Stage
  <2>3. CASE Send(i)
    BY <2>3, Zenon DEF Send, Stage
  <2>. QED
    BY <2>1, <2>2, <2>3
<1>2. to \in Stages /\ to # "mined" /\ to # "forgotten"
  BY DEF Stages
<1>3. /\ StoreShape /\ PayoutShape /\ Priced /\ Accounted /\ InFlightIsPending
      /\ payouts \in Seq(PayoutRecord)
  BY DEF Books, PayoutShape
<1>4. /\ payouts' \in Seq(PayoutRecord) /\ DOMAIN payouts' = DOMAIN payouts
      /\ \A j \in DOMAIN payouts :
           /\ Kin(payouts'[j], payouts[j])
           /\ payouts'[j].stage = IF j = i THEN to ELSE payouts[j].stage
  BY <1>1, <1>2, <1>3, Moved
<1>5. Notes' = Notes
  BY <1>1, Zenon DEF Notes
<1>6. Mined' = Mined
  BY <1>1, <1>2, <1>4 DEF Mined
<1>7. StoreShape'
  BY <1>1, <1>3, <1>5, Zenon DEF StoreShape, StoreOf
<1>8. PayoutShape' /\ Priced'
  <2>1. /\ \A j \in DOMAIN payouts : Kin(payouts'[j], payouts[j])
        /\ Notes \subseteq Notes' /\ \A n \in Notes : value'[n] = value[n]
    BY <1>1, <1>4, <1>5
  <2>. QED
    BY <1>1, <1>3, <1>4, <2>1, PricesKept
<1>9. \A j \in DOMAIN payouts : payouts'[j].spent = payouts[j].spent
  BY <1>4 DEF Kin
<1>10. Accounted'
  BY <1>1, <1>3, <1>5, <1>6, <1>9 DEF Accounted, Mined
<1>11. InFlightIsPending'
  <2>1. ASSUME NEW n \in store'.in_flight
        PROVE  \E j \in DOMAIN payouts' : payouts'[j].stage = "forgotten" /\ n \in payouts'[j].spent
    <3>1. PICK j \in DOMAIN payouts : payouts[j].stage = "forgotten" /\ n \in payouts[j].spent
      BY <1>1, <1>3, <2>1 DEF InFlightIsPending
    <3>2. payouts'[j].stage = "forgotten" /\ n \in payouts'[j].spent
      BY <1>1, <1>4, <1>9, <3>1
    <3>. QED
      BY <1>4, <3>2
  <2>2. \A j \in Mined' : payouts'[j].spent \cap (store'.held \cup store'.in_flight) = {}
    BY <1>1, <1>3, <1>6, <1>9 DEF InFlightIsPending, Mined
  <2>. QED
    BY <2>1, <2>2 DEF InFlightIsPending
<1>12. Still
  BY <1>1, <1>4, <1>6 DEF Still
<1>. QED
  BY <1>7, <1>8, <1>10, <1>11, <1>12

(***************************************************************************)
(* A payout that is forgotten puts those of its notes in flight that are   *)
(* still held: of them it is the witness.                                  *)
(***************************************************************************)
LEMMA ForgetBooks ==
  ASSUME Books, NEW i \in DOMAIN payouts, Forget(i)
  PROVE  StoreShape' /\ PayoutShape' /\ Priced' /\ Accounted' /\ InFlightIsPending' /\ Still
<1> DEFINE ns == payouts[i].spent
           h == store.held \ ns
           f == store.in_flight \cup (ns \cap store.held)
           p == store.spent
<1>1. /\ payouts[i].stage = "sent" /\ payouts' = [payouts EXCEPT ![i].stage = "forgotten"]
      /\ cross' = cross /\ value' = value /\ store' = TakeNotes(store, ns)
  BY Zenon DEF Forget, Stage
<1>2. /\ StoreShape /\ PayoutShape /\ Priced /\ Accounted /\ InFlightIsPending
      /\ payouts \in Seq(PayoutRecord)
  BY DEF Books, PayoutShape
<1>3. /\ payouts' \in Seq(PayoutRecord) /\ DOMAIN payouts' = DOMAIN payouts
      /\ \A j \in DOMAIN payouts :
           /\ Kin(payouts'[j], payouts[j])
           /\ payouts'[j].stage = IF j = i THEN "forgotten" ELSE payouts[j].stage
  <2>1. "forgotten" \in Stages
    BY DEF Stages
  <2>. QED
    BY <1>1, <1>2, <2>1, Moved
<1>4. Notes' = Notes
  BY <1>1, Zenon DEF Notes
<1>5. Mined' = Mined
  BY <1>1, <1>3 DEF Mined
<1>6. ns \subseteq Notes
  BY <1>2 DEF PayoutShape
<1>7. store' = StoreOf(Len(value), h, f, p)
  <2>1. IsFiniteSet(ns)
    BY <1>2, <1>6, WorthNat DEF StoreShape
  <2>2. store = StoreOf(Len(value), store.held, store.in_flight, store.spent)
    BY <1>2 DEF StoreShape
  <2> HIDE DEF ns
  <2>3. TakeNotes(StoreOf(Len(value), store.held, store.in_flight, store.spent), ns) = StoreOf(Len(value), h, f, p)
    BY <2>1, NotesTaken
  <2>. QED
    BY <1>1, <2>2, <2>3, Zenon
<1>8. store'.held = h /\ store'.in_flight = f /\ store'.spent = p
  <2> HIDE DEF h, f, p
  <2>. QED
    BY <1>7, StoreParts
<1>9. StoreShape'
  <2>1. store' = StoreOf(Len(value), store'.held, store'.in_flight, store'.spent)
    BY <1>7, <1>8, Zenon
  <2>2. store' = StoreOf(Len(value'), store'.held, store'.in_flight, store'.spent)
    BY <1>1, <2>1, Zenon
  <2>3. h \subseteq Notes /\ f \subseteq Notes /\ p \subseteq Notes /\ h \cap f = {}
    BY <1>2, <1>6 DEF StoreShape
  <2>4. value' \in Seq(Nat \ {0})
    BY <1>1, <1>2 DEF StoreShape
  <2> HIDE DEF h, f, p
  <2>. QED
    BY <1>4, <1>8, <2>2, <2>3, <2>4, Zenon DEF StoreShape
<1>10. PayoutShape' /\ Priced'
  <2>1. /\ \A j \in DOMAIN payouts : Kin(payouts'[j], payouts[j])
        /\ Notes \subseteq Notes' /\ \A n \in Notes : value'[n] = value[n]
    BY <1>1, <1>3, <1>4
  <2>. QED
    BY <1>1, <1>2, <1>3, <2>1, PricesKept
<1>11. \A j \in DOMAIN payouts : payouts'[j].spent = payouts[j].spent
  BY <1>3 DEF Kin
<1>12. h \cup f = store.held \cup store.in_flight
  OBVIOUS
<1>13. Accounted'
  <2> HIDE DEF h, f
  <2>. QED
    BY <1>2, <1>4, <1>5, <1>8, <1>11, <1>12 DEF Accounted, Mined
<1>14. InFlightIsPending'
  <2>1. ASSUME NEW n \in store'.in_flight
        PROVE  \E j \in DOMAIN payouts' : payouts'[j].stage = "forgotten" /\ n \in payouts'[j].spent
    <3>1. n \in store.in_flight \/ n \in ns
      BY <1>8
    <3>2. CASE n \in ns
      BY <1>3, <1>11, <3>2
    <3>3. CASE n \in store.in_flight
      <4>1. PICK j \in DOMAIN payouts : payouts[j].stage = "forgotten" /\ n \in payouts[j].spent
        BY <1>2, <3>3 DEF InFlightIsPending
      <4>2. payouts'[j].stage = "forgotten" /\ n \in payouts'[j].spent
        BY <1>3, <1>11, <4>1
      <4>. QED
        BY <1>3, <4>2
    <3>. QED
      BY <3>1, <3>2, <3>3
  <2>2. \A j \in Mined' : payouts'[j].spent \cap (store'.held \cup store'.in_flight) = {}
    <3> HIDE DEF h, f
    <3>. QED
      BY <1>2, <1>5, <1>8, <1>11, <1>12 DEF InFlightIsPending, Mined
  <2>. QED
    BY <2>1, <2>2 DEF InFlightIsPending
<1>15. Still
  <2> HIDE DEF h, f
  <2>. QED
    BY <1>1, <1>3, <1>5, <1>8, <1>12 DEF Still
<1>. QED
  BY <1>9, <1>10, <1>13, <1>14, <1>15

(***************************************************************************)
(* A payout is mined: its notes are spent, and its change is a new note.   *)
(***************************************************************************)
Fresh(i) == IF payouts[i].change > 0 THEN {Len(value) + 1} ELSE {}

LEMMA MineStep ==
  ASSUME Books, NEW i \in DOMAIN payouts, Mine(i), NEW fresh, fresh = Fresh(i)
  PROVE  /\ cross' = cross /\ Minable(i) /\ payouts' = [payouts EXCEPT ![i].stage = "mined"]
         /\ value' \in Seq(Nat \ {0})
         /\ Len(value') = IF payouts[i].change > 0 THEN Len(value) + 1 ELSE Len(value)
         /\ Notes' = Notes \cup fresh /\ Notes \cap fresh = {}
         /\ \A n \in Notes : value'[n] = value[n]
         /\ \A n \in fresh : value'[n] = payouts[i].change
         /\ store'.held = (store.held \ payouts[i].spent) \cup fresh
         /\ store'.in_flight = store.in_flight \ payouts[i].spent
         /\ store'.spent \subseteq Notes
         /\ store' = StoreOf(Len(value'), store'.held, store'.in_flight, store'.spent)
<1> DEFINE ns == payouts[i].spent
           seen == SeeNullifiers(store, ns)
           change == payouts[i].change
           k == Len(value) + 1
<1>0. PICK h, f, p : /\ h = store.held \ ns /\ f = store.in_flight \ ns
                     /\ p = store.spent \cup (ns \cap (store.held \cup store.in_flight))
  OBVIOUS
<1>1. /\ cross' = cross /\ Minable(i) /\ payouts' = [payouts EXCEPT ![i].stage = "mined"]
      /\ IF change > 0
           THEN /\ store' = AppendNote(seen, Len(seen.tree) + 1, TRUE)
                /\ value' = Append(value, change)
           ELSE store' = seen /\ value' = value
  BY Zenon DEF Mine
<1>2. /\ StoreShape /\ value \in Seq(Nat \ {0}) /\ ns \subseteq Notes /\ change \in Nat
  <2>1. payouts[i] \in PayoutRecord /\ ns \subseteq Notes
    BY DEF Books, PayoutShape
  <2>. QED
    BY <2>1 DEF Books, StoreShape, PayoutRecord
<1>3. p \subseteq Notes
  BY <1>0, <1>2 DEF StoreShape
<1>4. seen = StoreOf(Len(value), h, f, p)
  <2>1. IsFiniteSet(ns)
    BY <1>2, WorthNat
  <2>2. /\ store = StoreOf(Len(value), store.held, store.in_flight, store.spent)
        /\ Apart(store.held, store.in_flight, Len(value))
    BY <1>2 DEF StoreShape, Notes, Apart
  <2> HIDE DEF ns
  <2>3. SeeNullifiers(StoreOf(Len(value), store.held, store.in_flight, store.spent), ns) = StoreOf(Len(value), h, f, p)
    BY <1>0, <2>1, <2>2, NullifiersSeen
  <2>. QED
    BY <2>2, <2>3, Zenon
<1> HIDE DEF seen
<1>5. CASE change > 0
  <2>1. fresh = {k} /\ change \in Nat \ {0}
    BY <1>2, <1>5 DEF Fresh
  <2>2. value' = Append(value, change) /\ store' = AppendNote(seen, Len(seen.tree) + 1, TRUE)
    BY <1>1, <1>5, Zenon
  <2>3. /\ value' \in Seq(Nat \ {0}) /\ Len(value) \in Nat /\ Len(value') = k
        /\ Notes' = Notes \cup {k} /\ k \notin Notes
        /\ \A n \in Notes : value'[n] = value[n]
        /\ value'[k] = change
    <3> HIDE DEF change
    <3>. QED
      BY <1>2, <2>1, <2>2, ValueAppended
  <2>4. PICK size : size = Len(value)
    OBVIOUS
  <2>5. PICK m, s : m = size + 1 /\ s = seen
    BY Zenon
  <2>6. After(s) = StoreOf(m, h \cup {m}, f, p)
    <3>1. size \in Nat /\ s = StoreOf(size, h, f, p)
      BY <1>4, <2>3, <2>4, <2>5
    <3>. QED
      BY <2>5, <3>1, NoteAppended
  <2> HIDE DEF change
  <2>7. m = Len(value') /\ m = k
    BY <2>3, <2>4, <2>5
  <2>8. store' = After(s)
    BY <2>2, <2>5, Zenon DEF After
  <2>9. store'.held = h \cup {m} /\ store'.in_flight = f /\ store'.spent = p
    BY <2>6, <2>8, StoreParts
  <2>10. store' = StoreOf(Len(value'), store'.held, store'.in_flight, store'.spent)
    BY <2>6, <2>7, <2>8, <2>9, Zenon
  <2>14. Len(value') = IF change > 0 THEN Len(value) + 1 ELSE Len(value)
    BY <1>5, <2>3
  <2> HIDE DEF k
  <2>11. \A n \in fresh : value'[n] = change
    BY <2>1, <2>3
  <2>12. store'.held = (store.held \ ns) \cup fresh /\ store'.in_flight = store.in_flight \ ns
    BY <1>0, <2>1, <2>7, <2>9
  <2>13. Notes' = Notes \cup fresh /\ Notes \cap fresh = {}
    BY <2>1, <2>3
  <2>. QED
    BY <1>1, <1>3, <2>3, <2>9, <2>10, <2>11, <2>12, <2>13, <2>14, Zenon DEF change
<1>6. CASE ~ (change > 0)
  <2>1. fresh = {} /\ value' = value /\ store' = seen
    BY <1>1, <1>6 DEF Fresh
  <2>2. Notes' = Notes
    BY <2>1, Zenon DEF Notes
  <2>3. store' = StoreOf(Len(value), h, f, p)
    BY <1>4, <2>1
  <2>4. store'.held = h /\ store'.in_flight = f /\ store'.spent = p
    BY <2>3, StoreParts
  <2>5. store' = StoreOf(Len(value), store'.held, store'.in_flight, store'.spent)
    BY <2>3, <2>4, Zenon
  <2>6. store' = StoreOf(Len(value'), store'.held, store'.in_flight, store'.spent)
    BY <2>1, <2>5, Zenon DEF StoreOf
  <2>. QED
    BY <1>0, <1>1, <1>2, <1>3, <1>6, <2>1, <2>2, <2>4, <2>6
<1>. QED
  BY <1>5, <1>6

(***************************************************************************)
(* A payout that is mined is the one its notes are spent by, and no other  *)
(* had them spent: what is in flight has another witness.                  *)
(***************************************************************************)
LEMMA MineBooks ==
  ASSUME Books, NEW i \in DOMAIN payouts, Mine(i)
  PROVE  StoreShape' /\ PayoutShape' /\ Priced' /\ Accounted' /\ InFlightIsPending'
<1>0. PICK fresh : fresh = Fresh(i)
  OBVIOUS
<1> DEFINE ns == payouts[i].spent
<1>1. /\ cross' = cross /\ payouts' = [payouts EXCEPT ![i].stage = "mined"]
      /\ value' \in Seq(Nat \ {0})
      /\ Notes' = Notes \cup fresh /\ Notes \cap fresh = {}
      /\ \A n \in Notes : value'[n] = value[n]
      /\ store'.held = (store.held \ ns) \cup fresh
      /\ store'.in_flight = store.in_flight \ ns
      /\ store'.spent \subseteq Notes
      /\ store' = StoreOf(Len(value'), store'.held, store'.in_flight, store'.spent)
  BY <1>0, MineStep, Zenon
<1>2. /\ StoreShape /\ PayoutShape /\ Priced /\ Accounted /\ InFlightIsPending
      /\ payouts \in Seq(PayoutRecord)
  BY DEF Books, PayoutShape
<1>3. /\ store.held \subseteq Notes /\ store.in_flight \subseteq Notes
      /\ store.held \cap store.in_flight = {}
  BY <1>2 DEF StoreShape
<1>4. \A j \in DOMAIN payouts : payouts[j].spent \subseteq Notes
  BY <1>2 DEF PayoutShape
<1>5. /\ payouts' \in Seq(PayoutRecord) /\ DOMAIN payouts' = DOMAIN payouts
      /\ \A j \in DOMAIN payouts :
           /\ Kin(payouts'[j], payouts[j])
           /\ payouts'[j].stage = IF j = i THEN "mined" ELSE payouts[j].stage
  <2>1. "mined" \in Stages
    BY DEF Stages
  <2>. QED
    BY <1>1, <1>2, <2>1, Moved
<1>6. \A j \in DOMAIN payouts : payouts'[j].spent = payouts[j].spent
  BY <1>5 DEF Kin
<1>7. Mined' = Mined \cup {i}
  BY <1>5 DEF Mined
<1>8. StoreShape'
  <2>1. /\ store'.held \subseteq Notes' /\ store'.in_flight \subseteq Notes'
        /\ store'.spent \subseteq Notes' /\ store'.held \cap store'.in_flight = {}
    BY <1>1, <1>3
  <2>. QED
    BY <1>1, <2>1, Zenon DEF StoreShape
<1>9. PayoutShape' /\ Priced'
  <2>1. /\ \A j \in DOMAIN payouts : Kin(payouts'[j], payouts[j])
        /\ Notes \subseteq Notes'
    BY <1>1, <1>5
  <2>. QED
    BY <1>1, <1>2, <1>5, <2>1, PricesKept
<1>10. Accounted'
  <2>1. ASSUME NEW n \in Notes'
        PROVE  n \in store'.held \cup store'.in_flight \/ \E j \in Mined' : n \in payouts'[j].spent
    <3>1. CASE n \in fresh
      BY <1>1, <3>1
    <3>2. CASE n \in ns
      BY <1>6, <1>7, <3>2
    <3>3. CASE n \in store.held \cup store.in_flight /\ n \notin ns
      BY <1>1, <3>3
    <3>4. CASE \E j \in Mined : n \in payouts[j].spent
      BY <1>6, <1>7, <3>4 DEF Mined
    <3>5. n \in fresh \/ n \in Notes
      BY <1>1
    <3>. QED
      BY <1>2, <3>1, <3>2, <3>3, <3>4, <3>5 DEF Accounted
  <2>. QED
    BY <2>1 DEF Accounted
<1>11. InFlightIsPending'
  <2>1. ASSUME NEW n \in store'.in_flight
        PROVE  \E j \in DOMAIN payouts' : payouts'[j].stage = "forgotten" /\ n \in payouts'[j].spent
    <3>1. n \in store.in_flight /\ n \notin ns
      BY <1>1
    <3>2. PICK j \in DOMAIN payouts : payouts[j].stage = "forgotten" /\ n \in payouts[j].spent
      BY <1>2, <3>1 DEF InFlightIsPending
    <3>3. payouts'[j].stage = "forgotten" /\ n \in payouts'[j].spent
      BY <1>5, <1>6, <3>1, <3>2
    <3>. QED
      BY <1>5, <3>3
  <2>2. ASSUME NEW j \in Mined'
        PROVE  payouts'[j].spent \cap (store'.held \cup store'.in_flight) = {}
    <3>1. j \in DOMAIN payouts /\ payouts'[j].spent = payouts[j].spent
      BY <1>6, <1>7 DEF Mined
    <3>2. payouts[j].spent \cap fresh = {}
      BY <1>1, <1>4, <3>1
    <3>3. CASE j = i
      BY <1>1, <3>1, <3>2, <3>3
    <3>4. CASE j \in Mined
      <4>1. payouts[j].spent \cap (store.held \cup store.in_flight) = {}
        BY <1>2, <3>4 DEF InFlightIsPending
      <4>. QED
        BY <1>1, <3>1, <3>2, <4>1
    <3>. QED
      BY <1>7, <3>3, <3>4
  <2>. QED
    BY <2>1, <2>2 DEF InFlightIsPending
<1>. QED
  BY <1>8, <1>9, <1>10, <1>11

-----------------------------------------------------------------------------
(***************************************************************************)
(* The books hold from the start: all notes are held, and nothing is paid. *)
(***************************************************************************)
LEMMA InitBooks == Init => Books
<1> SUFFICES ASSUME Init PROVE Books
  OBVIOUS
<1>1. PICK wallet \in Wallets :
        /\ cross \in CrossAddress /\ value = wallet
        /\ store = [FromFrontier([n \in 1 .. Len(wallet) |-> n], 0) EXCEPT !.held = 1 .. Len(wallet)]
        /\ building = NoBuild /\ payouts = << >> /\ height = 0
  BY Zenon DEF Init
<1>2. value \in Seq(Nat \ {0})
  BY <1>1, WalletsAssumption
<1>3. PICK size : size = Len(value)
  OBVIOUS
<1>4. store = StoreOf(size, 1 .. size, {}, {})
  <2> DEFINE c == [n \in 1 .. size |-> n]
             held == 1 .. size
  <2>1. store = [FromFrontier(c, 0) EXCEPT !.held = held]
    BY <1>1, <1>3, Zenon
  <2>2. StoreOf(size, held, {}, {}) =
          [tree |-> c, checkpoints |-> << >>, held |-> held, in_flight |-> {},
           spent |-> {}, synced_to |-> 0]
    BY Zenon DEF StoreOf
  <2> HIDE DEF c, held
  <2>3. store = [tree |-> c, checkpoints |-> << >>, held |-> held, in_flight |-> {},
                 spent |-> {}, synced_to |-> 0]
    BY <2>1 DEF FromFrontier
  <2>. QED
    BY <2>2, <2>3, Zenon DEF held
<1>5. store.held = 1 .. size /\ store.in_flight = {} /\ store.spent = {}
  <2>1. PICK h, f, p : h = 1 .. size /\ f = {} /\ p = {}
    OBVIOUS
  <2>2. store = StoreOf(size, h, f, p)
    BY <1>4, <2>1
  <2>3. store.held = h /\ store.in_flight = f /\ store.spent = p
    BY <2>2, StoreParts
  <2>. QED
    BY <2>1, <2>3, Zenon
<1>6. StoreShape
  <2>1. store = StoreOf(Len(value), store.held, store.in_flight, store.spent)
    BY <1>3, <1>4, <1>5, Zenon
  <2>2. /\ store.held \subseteq Notes /\ store.in_flight \subseteq Notes
        /\ store.spent \subseteq Notes /\ store.held \cap store.in_flight = {}
    BY <1>3, <1>5 DEF Notes
  <2>. QED
    BY <1>2, <2>1, <2>2, Zenon DEF StoreShape
<1>7. BuildShape
  <2>1. NoBuild \in [want : Wants \cup {"none"}, pass : 0 .. 2, fee : Nat]
    BY DEF NoBuild
  <2>. QED
    BY <1>1, <2>1, PayoutAssumption DEF BuildShape
<1>8. PayoutShape
  BY <1>1 DEF PayoutShape
<1>9. Priced
  BY <1>1 DEF Priced
<1>10. Accounted
  BY <1>3, <1>5 DEF Accounted, Notes
<1>11. InFlightIsPending
  BY <1>1, <1>5 DEF InFlightIsPending, Mined
<1>. QED
  BY <1>6, <1>7, <1>8, <1>9, <1>10, <1>11 DEF Books

(***************************************************************************)
(* Every step keeps the books; all but Mine settle nothing.                *)
(***************************************************************************)
LEMMA StepBooks ==
  ASSUME Books, [Next]_vars
  PROVE  Books' /\ (Still \/ \E i \in DOMAIN payouts : Mine(i))
<1> DEFINE Holds == StoreShape' /\ PayoutShape' /\ Priced' /\ Accounted' /\ InFlightIsPending'
           Mines == \E i \in DOMAIN payouts : Mine(i)
<1>1. ASSUME UNCHANGED <<cross, store, value, payouts>> PROVE Holds /\ Still
  BY <1>1, QuietBooks
<1>2. ASSUME NEW w \in Wants, Begin(w) \/ RefusePool(w) PROVE Holds /\ Still
  <2>1. UNCHANGED <<cross, store, value, payouts>>
    BY <1>2, Zenon DEF Begin, RefusePool, Refuse
  <2>. QED
    BY <1>1, <2>1
<1>3. ASSUME RefuseInsufficient \/ RaiseFee \/ RefuseUnsettled PROVE Holds /\ Still
  <2>1. UNCHANGED <<cross, store, value, payouts>>
    BY <1>3, Zenon DEF RefuseInsufficient, RaiseFee, RefuseUnsettled, Refuse
  <2>. QED
    BY <1>1, <2>1
<1>4. ASSUME Assemble PROVE Holds /\ Still
  BY <1>4, AssembleBooks
<1>5. ASSUME NEW i \in DOMAIN payouts, Seal(i) \/ Fail(i) \/ Send(i) PROVE Holds /\ Still
  BY <1>5, SignBooks
<1>6. ASSUME NEW i \in DOMAIN payouts, Forget(i) PROVE Holds /\ Still
  BY <1>6, ForgetBooks
<1>7. ASSUME NEW i \in DOMAIN payouts, Mine(i) PROVE Holds /\ Mines
  BY <1>7, MineBooks
<1>8. ASSUME Tick PROVE Holds /\ Still
  <2>1. UNCHANGED <<cross, store, value, payouts>>
    BY <1>8, Zenon DEF Tick
  <2>. QED
    BY <1>1, <2>1
<1>9. ASSUME UNCHANGED vars PROVE Holds /\ Still
  <2>1. UNCHANGED <<cross, store, value, payouts>>
    BY <1>9, Zenon DEF vars
  <2>. QED
    BY <1>1, <2>1
<1>10. BuildShape'
  BY BuildKept
<1> HIDE DEF Holds, Mines
<1>11. Holds /\ (Still \/ Mines)
  BY <1>2, <1>3, <1>4, <1>5, <1>6, <1>7, <1>8, <1>9, Zenon DEF Next
<1>. QED
  BY <1>10, <1>11, Zenon DEF Books, Holds, Mines

(***************************************************************************)
(* The books hold in every behaviour.                                      *)
(***************************************************************************)
THEOREM BooksHold == Spec => []Books
<1>1. Books /\ [Next]_vars => Books'
  BY StepBooks
<1>. QED
  BY <1>1, InitBooks, PTL DEF Spec

(***************************************************************************)
(* Every behaviour is type correct: a call of build takes two passes at    *)
(* most, and what the store and the payouts speak of are notes it has.     *)
(***************************************************************************)
THEOREM TypeCorrect == Spec => []TypeOK
<1>1. Books => TypeOK
  <2> SUFFICES ASSUME Books PROVE TypeOK
    OBVIOUS
  <2>1. cross \in BOOLEAN /\ height \in 0 .. MaxHeight /\ building.pass \in 0 .. 2 /\ building.fee \in Nat
    BY DEF Books, BuildShape
  <2>2. value \in Seq(Nat \ {0}) /\ store = StoreOf(Len(value), store.held, store.in_flight, store.spent)
    BY DEF Books, StoreShape
  <2>3. store.tree = [n \in 1 .. Len(value) |-> n]
    <3> DEFINE c == [n \in 1 .. Len(value) |-> n]
    <3>1. store = [tree |-> c, checkpoints |-> << >>, held |-> store.held,
                   in_flight |-> store.in_flight, spent |-> store.spent, synced_to |-> 0]
      BY <2>2, Zenon DEF StoreOf
    <3> HIDE DEF c
    <3>2. store.tree = c
      BY <3>1
    <3>. QED
      BY <3>2 DEF c
  <2>4. store.held \cup store.in_flight \cup store.spent \subseteq 1 .. Len(value)
    BY DEF Books, StoreShape, Notes
  <2>5. ASSUME NEW i \in DOMAIN payouts
        PROVE  /\ payouts[i].want \in Wants /\ payouts[i].spent \subseteq 1 .. Len(value)
               /\ payouts[i].change \in Nat /\ payouts[i].fee \in Nat
               /\ payouts[i].stage \in {"built", "sealed", "failed", "sent", "forgotten", "mined"}
    <3>1. payouts[i] \in PayoutRecord /\ payouts[i].spent \subseteq Notes
      BY DEF Books, PayoutShape
    <3>. QED
      BY <3>1 DEF PayoutRecord, Stages, Notes
  <2>. QED
    BY <2>1, <2>2, <2>3, <2>4, <2>5, Zenon DEF TypeOK
<1>. QED
  BY <1>1, BooksHold, PTL

(***************************************************************************)
(* What a payout leaves to the miner is the fee that its own actions make  *)
(* due, however the two passes of build went.                              *)
(***************************************************************************)
THEOREM FeeIsDueHolds == Spec => []FeeIsDue
<1>1. Books => FeeIsDue
  <2> SUFFICES ASSUME Books, NEW i \in DOMAIN payouts
               PROVE  LET w == payouts[i].want
                          spends == Cardinality(payouts[i].spent)
                          actions == Actions(spends, Outputs(w, payouts[i].change))
                      IN Worth(payouts[i].spent) - Owed[w] - payouts[i].change
                           = Zip317Fee(Greater(actions, 2), Transparent[w])
    BY Zenon DEF FeeIsDue
  <2> DEFINE q == payouts[i]
  <2>1. Worth(q.spent) = Owed[q.want] + q.fee + q.change
    BY DEF Books, Priced, Pays
  <2>2. q.fee \in Nat /\ q.change \in Nat /\ Owed[q.want] \in Nat
    <3>1. payouts[i] \in PayoutRecord
      BY DEF Books, PayoutShape
    <3>. QED
      BY <3>1, WantsAssumption DEF PayoutRecord
  <2>3. FeePaid(q)
    BY DEF Books, Priced
  <2> HIDE DEF q
  <2>4. Worth(q.spent) - Owed[q.want] - q.change = q.fee
    BY <2>1, <2>2
  <2>. QED
    BY <2>3, <2>4, Zenon DEF FeePaid, q
<1>. QED
  BY <1>1, BooksHold, PTL

(***************************************************************************)
(* A note in flight is spent by a payout that was sent, and what the chain *)
(* has spent is neither in flight nor held.                                *)
(***************************************************************************)
THEOREM InFlightIsPendingHolds == Spec => []InFlightIsPending
<1>1. Books => InFlightIsPending
  BY DEF Books
<1>. QED
  BY <1>1, BooksHold, PTL

-----------------------------------------------------------------------------
(***************************************************************************)
(* What the vault has paid: the terms of Conserved.                        *)
(***************************************************************************)
Bills == [i \in DOMAIN payouts |-> Owed[payouts[i].want] + payouts[i].fee]
Changes == {i \in Mined : payouts[i].change > 0}
Began == 1 .. Len(value) - Cardinality(Changes)
Unspent == store.held \cup store.in_flight

(***************************************************************************)
(* The property in these terms.                                            *)
(***************************************************************************)
LEMMA ConservedTerms ==
  Conserved <=> Worth(Unspent) + SumFunctionOnSet(Bills, Mined) = Worth(Began)
<1>. QED
  BY Zenon DEF Conserved, Bills, Changes, Began, Unspent

(***************************************************************************)
(* The terms are numbers: the mined payouts are finitely many, and the     *)
(* notes the vault began with are notes.                                   *)
(***************************************************************************)
LEMMA TermsFinite ==
  ASSUME Books
  PROVE  /\ IsFiniteSet(Mined) /\ IsFiniteSet(Changes) /\ Cardinality(Changes) \in Nat
         /\ \A i \in Mined : Bills[i] \in Nat
         /\ Began \subseteq Notes /\ Unspent \subseteq Notes
         /\ value \in Seq(Nat \ {0}) /\ Len(value) \in Nat
         /\ Worth(Unspent) \in Nat /\ SumFunctionOnSet(Bills, Mined) \in Nat
<1>1. payouts \in Seq(PayoutRecord) /\ value \in Seq(Nat \ {0}) /\ Unspent \subseteq Notes
  BY DEF Books, PayoutShape, StoreShape, Unspent
<1>2. Len(value) \in Nat /\ Len(payouts) \in Nat /\ DOMAIN payouts = 1 .. Len(payouts)
  BY <1>1, LenProperties
<1>3. IsFiniteSet(Mined) /\ IsFiniteSet(Changes)
  <2>1. IsFiniteSet(1 .. Len(payouts))
    BY <1>2, FS_Interval
  <2>2. Mined \subseteq 1 .. Len(payouts) /\ Changes \subseteq 1 .. Len(payouts)
    BY <1>2 DEF Mined, Changes
  <2>. QED
    BY <2>1, <2>2, FS_Subset
<1>4. Cardinality(Changes) \in Nat
  BY <1>3, FS_CardinalityType
<1>5. Began \subseteq Notes
  BY <1>2, <1>4 DEF Began, Notes
<1>6. ASSUME NEW i \in Mined PROVE Bills[i] \in Nat
  <2>1. i \in DOMAIN payouts /\ payouts[i] \in PayoutRecord
    BY <1>1 DEF Mined
  <2>2. Owed[payouts[i].want] \in Nat /\ payouts[i].fee \in Nat
    BY <2>1, WantsAssumption DEF PayoutRecord
  <2>3. Bills[i] = Owed[payouts[i].want] + payouts[i].fee
    BY <2>1 DEF Bills
  <2>. QED
    BY <2>2, <2>3
<1>7. Worth(Unspent) \in Nat
  BY <1>1, WorthNat
<1>8. SumFunctionOnSet(Bills, Mined) \in Nat
  BY <1>3, <1>6, SumNat
<1>. QED
  BY <1>1, <1>2, <1>3, <1>4, <1>5, <1>6, <1>7, <1>8

(***************************************************************************)
(* A step that settles nothing changes none of the terms.                  *)
(***************************************************************************)
LEMMA StillConserves ==
  ASSUME Books, Conserved, Still
  PROVE  Conserved'
<1>1. /\ value' = value /\ Mined' = Mined /\ Mined \subseteq DOMAIN payouts
      /\ DOMAIN payouts \subseteq DOMAIN payouts'
      /\ \A j \in DOMAIN payouts : Kin(payouts'[j], payouts[j])
  BY DEF Still, Mined
<1>2. Unspent' = Unspent
  BY DEF Still, Unspent
<1>3. Changes' = Changes
  BY <1>1 DEF Changes, Kin
<1>4. Began' = Began
  BY <1>1, <1>3, Zenon DEF Began
<1>5. SumFunctionOnSet(Bills', Mined) = SumFunctionOnSet(Bills, Mined)
  <2>1. \A j \in Mined : Bills'[j] = Bills[j]
    BY <1>1 DEF Bills, Kin
  <2>2. IsFiniteSet(Mined)
    BY TermsFinite
  <2>. QED
    BY <2>1, <2>2, SumSame
<1>6. Worth(Unspent) + SumFunctionOnSet(Bills, Mined) = Worth(Began)
  BY ConservedTerms
<1>7. (Worth(Unspent) + SumFunctionOnSet(Bills, Mined) = Worth(Began))'
  BY <1>1, <1>2, <1>4, <1>5, <1>6, Zenon DEF Worth
<1>. QED
  BY <1>7, Zenon DEF Conserved, Bills, Changes, Began, Unspent

(***************************************************************************)
(* A payout that is mined takes its notes from what is unspent, none of    *)
(* them spent before, brings back its change, and is billed for the rest.  *)
(***************************************************************************)
LEMMA MineConserves ==
  ASSUME Books, Conserved, NEW i \in DOMAIN payouts, Mine(i)
  PROVE  Conserved'
<1>0. PICK fresh : fresh = Fresh(i)
  OBVIOUS
<1> DEFINE ns == payouts[i].spent
           change == payouts[i].change
           left == Unspent \ ns
           bill == Owed[payouts[i].want] + payouts[i].fee
<1>1. /\ Minable(i) /\ payouts' = [payouts EXCEPT ![i].stage = "mined"]
      /\ value' \in Seq(Nat \ {0})
      /\ Len(value') = IF change > 0 THEN Len(value) + 1 ELSE Len(value)
      /\ Notes' = Notes \cup fresh /\ Notes \cap fresh = {}
      /\ \A n \in Notes : value'[n] = value[n]
      /\ \A n \in fresh : value'[n] = change
      /\ store'.held = (store.held \ ns) \cup fresh
      /\ store'.in_flight = store.in_flight \ ns
  BY <1>0, MineStep
<1>2. /\ payouts \in Seq(PayoutRecord) /\ payouts[i] \in PayoutRecord /\ ns \subseteq Notes
      /\ change \in Nat /\ bill \in Nat
      /\ Worth(ns) = bill + change
  <2>1. payouts \in Seq(PayoutRecord) /\ payouts[i] \in PayoutRecord /\ ns \subseteq Notes
    BY DEF Books, PayoutShape
  <2>2. change \in Nat /\ Owed[payouts[i].want] \in Nat /\ payouts[i].fee \in Nat
    BY <2>1, WantsAssumption DEF PayoutRecord
  <2>3. Worth(ns) = Owed[payouts[i].want] + payouts[i].fee + change
    BY DEF Books, Priced, Pays
  <2>. QED
    BY <2>1, <2>2, <2>3
<1>3. /\ IsFiniteSet(Mined) /\ IsFiniteSet(Changes) /\ Cardinality(Changes) \in Nat
      /\ \A j \in Mined : Bills[j] \in Nat
      /\ Began \subseteq Notes /\ Unspent \subseteq Notes
      /\ value \in Seq(Nat \ {0}) /\ Len(value) \in Nat
      /\ Worth(Unspent) \in Nat /\ SumFunctionOnSet(Bills, Mined) \in Nat
  BY TermsFinite
<1>4. /\ DOMAIN payouts' = DOMAIN payouts
      /\ \A j \in DOMAIN payouts :
           /\ Kin(payouts'[j], payouts[j])
           /\ payouts'[j].stage = IF j = i THEN "mined" ELSE payouts[j].stage
  <2>1. "mined" \in Stages
    BY DEF Stages
  <2>. QED
    BY <1>1, <1>2, <2>1, Moved
<1>5. Mined' = Mined \cup {i} /\ i \notin Mined
  BY <1>1, <1>4 DEF Mined, Minable
<1>6. ns \subseteq Unspent
  <2>1. ASSUME NEW n \in ns PROVE n \in Unspent
    <3>1. n \in Unspent \/ \E j \in Mined : n \in payouts[j].spent
      BY <1>2 DEF Books, Accounted, Unspent
    <3>2. \A j \in Mined : payouts[j].spent \cap ns = {}
      BY <1>1 DEF Minable, Mined
    <3>. QED
      BY <3>1, <3>2
  <2>. QED
    BY <2>1
<1>7. Unspent' = left \cup fresh /\ left \cap fresh = {} /\ left \subseteq Notes
  BY <1>1, <1>3 DEF Unspent
<1>8. Worth(Unspent) = Worth(left) + bill + change /\ Worth(left) \in Nat
  <2>1. /\ IsFiniteSet(left) /\ Worth(left) \in Nat
        /\ IsFiniteSet(ns) /\ \A n \in Unspent : value[n] \in Nat
    BY <1>2, <1>3, <1>7, WorthNat
  <2>2. left \cup ns = Unspent /\ left \cap ns = {}
    BY <1>6
  <2> HIDE DEF left, ns
  <2>3. Worth(Unspent) = Worth(left) + Worth(ns)
    <3>1. \A n \in left \cup ns : value[n] \in Nat
      BY <2>1, <2>2
    <3>2. SumFunctionOnSet(value, left \cup ns)
            = SumFunctionOnSet(value, left) + SumFunctionOnSet(value, ns)
      BY <2>1, <2>2, <3>1, SumUnion
    <3>. QED
      BY <2>2, <3>2, Zenon DEF Worth
  <2> HIDE DEF bill, change
  <2>. QED
    BY <1>2, <2>1, <2>3
<1>9. SumFunctionOnSet(value', left) = Worth(left) /\ SumFunctionOnSet(value', Began) = Worth(Began)
  <2>1. \A m \in SUBSET Notes : SumFunctionOnSet(value', m) = SumFunctionOnSet(value, m)
    BY <1>1, <1>3, WorthKept, Zenon DEF Worth
  <2>2. left \in SUBSET Notes /\ Began \in SUBSET Notes
    BY <1>3, <1>7
  <2> HIDE DEF left
  <2>. QED
    BY <2>1, <2>2, Zenon DEF Worth
<1>10. Began' = Began
  <2> DEFINE more == IF change > 0 THEN {i} ELSE {}
  <2>1. Changes' = Changes \cup more /\ i \notin Changes
    BY <1>4, <1>5 DEF Changes, Kin, Mined
  <2>2. Cardinality(Changes') = IF change > 0 THEN Cardinality(Changes) + 1 ELSE Cardinality(Changes)
    <3>1. CASE change > 0
      <4>1. Changes' = Changes \cup {i}
        BY <2>1, <3>1
      <4>2. Cardinality(Changes \cup {i}) = Cardinality(Changes) + 1
        BY <1>3, <2>1, FS_AddElement
      <4>. QED
        BY <3>1, <4>1, <4>2, Zenon
    <3>2. CASE ~ (change > 0)
      BY <2>1, <3>2
    <3>. QED
      BY <3>1, <3>2
  <2>3. Len(value') - Cardinality(Changes') = Len(value) - Cardinality(Changes)
    <3> HIDE DEF change
    <3>. QED
      BY <1>1, <1>3, <2>2
  <2>. QED
    BY <2>3, Zenon DEF Began
<1>11. IsFiniteSet(fresh) /\ SumFunctionOnSet(value', fresh) = change
  <2>1. CASE change > 0
    <3>1. PICK k : fresh = {k}
      BY <1>0, <2>1 DEF Fresh
    <3>2. value'[k] = change
      BY <1>1, <3>1
    <3>3. fresh \ {k} = {}
      BY <3>1
    <3>4. IsFiniteSet(fresh)
      BY <3>1, FS_Singleton
    <3> HIDE DEF change
    <3>5. (\A n \in fresh : value'[n] \in Nat) /\ k \in fresh
      BY <1>2, <3>1, <3>2
    <3>6. SumFunctionOnSet(value', fresh) = SumFunctionOnSet(value', fresh \ {k}) + value'[k]
      BY <3>4, <3>5, SumRemove
    <3>7. SumFunctionOnSet(value', fresh \ {k}) = 0
      BY <3>3, SumEmpty
    <3>. QED
      BY <1>2, <3>2, <3>4, <3>6, <3>7
  <2>2. CASE ~ (change > 0)
    <3>1. fresh = {}
      BY <1>0, <2>2 DEF Fresh
    <3>2. change = 0
      BY <1>2, <2>2
    <3>3. SumFunctionOnSet(value', {}) = 0 /\ IsFiniteSet({})
      BY SumEmpty, FS_EmptySet
    <3>. QED
      BY <3>1, <3>2, <3>3, Zenon
  <2>. QED
    BY <2>1, <2>2
<1>12. SumFunctionOnSet(value', Unspent') = Worth(left) + change
  <2>1. IsFiniteSet(left)
    BY <1>3, <1>7, WorthNat
  <2>2. \A n \in left \cup fresh : value'[n] \in Nat
    <3>1. \A n \in Notes : value[n] \in Nat
      BY <1>3, WorthNat
    <3>. QED
      BY <1>1, <1>2, <1>7, <3>1
  <2> HIDE DEF left
  <2>3. SumFunctionOnSet(value', left \cup fresh)
          = SumFunctionOnSet(value', left) + SumFunctionOnSet(value', fresh)
    BY <1>7, <1>11, <2>1, <2>2, SumUnion
  <2>. QED
    BY <1>7, <1>9, <1>11, <2>3, Zenon
<1>13. SumFunctionOnSet(Bills', Mined') = SumFunctionOnSet(Bills, Mined) + bill
  <2>1. \A j \in DOMAIN payouts : Bills'[j] = Owed[payouts[j].want] + payouts[j].fee
    BY <1>4 DEF Bills, Kin
  <2>2. /\ \A j \in Mined : Bills'[j] = Bills[j]
        /\ Bills'[i] = bill
    BY <2>1 DEF Bills, Mined
  <2>3. IsFiniteSet(Mined') /\ Mined' \ {i} = Mined /\ i \in Mined'
    <3>1. IsFiniteSet(Mined \cup {i})
      BY <1>3, FS_AddElement
    <3>. QED
      BY <1>5, <3>1
  <2>4. \A j \in Mined' : Bills'[j] \in Nat
    BY <1>2, <1>3, <1>5, <2>2
  <2>5. SumFunctionOnSet(Bills', Mined') = SumFunctionOnSet(Bills', Mined' \ {i}) + Bills'[i]
    BY <2>3, <2>4, SumRemove
  <2>6. SumFunctionOnSet(Bills', Mined) = SumFunctionOnSet(Bills, Mined)
    BY <1>3, <2>2, SumSame
  <2>. QED
    BY <2>2, <2>3, <2>5, <2>6, Zenon
<1>14. Worth(Unspent) + SumFunctionOnSet(Bills, Mined) = Worth(Began)
  BY ConservedTerms
<1>15. SumFunctionOnSet(value', Unspent') + SumFunctionOnSet(Bills', Mined')
         = SumFunctionOnSet(value', Began)
  <2> DEFINE paid == SumFunctionOnSet(Bills, Mined)
             kept == Worth(left)
             whole == Worth(Began)
  <2>1. Worth(Unspent) + paid = whole /\ Worth(Unspent) = kept + bill + change
    BY <1>8, <1>14
  <2>2. kept \in Nat /\ bill \in Nat /\ change \in Nat /\ paid \in Nat
    BY <1>2, <1>3, <1>8
  <2>3. /\ SumFunctionOnSet(value', Unspent') = kept + change
        /\ SumFunctionOnSet(Bills', Mined') = paid + bill
        /\ SumFunctionOnSet(value', Began) = whole
    BY <1>9, <1>12, <1>13, Zenon
  <2> HIDE DEF paid, kept, bill, change, whole
  <2>. QED
    BY <2>1, <2>2, <2>3
<1>16. (Worth(Unspent) + SumFunctionOnSet(Bills, Mined) = Worth(Began))'
  BY <1>10, <1>15, Zenon DEF Worth
<1>. QED
  BY <1>16, Zenon DEF Conserved, Bills, Changes, Began, Unspent

(***************************************************************************)
(* The vault begins with what it holds.                                    *)
(***************************************************************************)
LEMMA InitConserves == Init => Conserved
<1> SUFFICES ASSUME Init PROVE Conserved
  OBVIOUS
<1>1. Books /\ payouts = << >>
  BY InitBooks DEF Init
<1>2. /\ Len(value) \in Nat /\ Unspent \subseteq Notes /\ Worth(Unspent) \in Nat
  BY <1>1, TermsFinite
<1>3. Mined = {} /\ Changes = {}
  BY <1>1 DEF Mined, Changes
<1>4. Unspent = Notes
  BY <1>1, <1>2, <1>3 DEF Books, Accounted, Unspent
<1>5. Began = Notes
  <2>1. Cardinality(Changes) = 0
    BY <1>3, FS_EmptySet
  <2>. QED
    BY <1>2, <2>1 DEF Began, Notes
<1>6. SumFunctionOnSet(Bills, Mined) = 0
  BY <1>3, SumEmpty
<1>7. Worth(Unspent) + SumFunctionOnSet(Bills, Mined) = Worth(Began)
  BY <1>2, <1>4, <1>5, <1>6
<1>. QED
  BY <1>7, ConservedTerms

(***************************************************************************)
(* Nothing becomes an accidental fee: what the vault holds, has in flight, *)
(* has paid, and paid in the fees its payouts state, is what it began      *)
(* with, whatever it is asked to pay and whatever is mined when.           *)
(***************************************************************************)
THEOREM ConservedHolds == Spec => []Conserved
<1>1. Books /\ Conserved /\ [Next]_vars => Conserved'
  <2> SUFFICES ASSUME Books, Conserved, [Next]_vars PROVE Conserved'
    OBVIOUS
  <2>1. (\E i \in DOMAIN payouts : Mine(i)) \/ Still
    BY StepBooks
  <2>. QED
    BY <2>1, MineConserves, StillConserves
<1>. QED
  BY <1>1, InitConserves, BooksHold, PTL DEF Spec
==============================================================================
