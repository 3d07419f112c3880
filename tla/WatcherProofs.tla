----------------------------- MODULE WatcherProofs -----------------------------
(***************************************************************************)
(* Proofs about the watchers of Watcher: their reports are typed, their    *)
(* indices dense, no deposit is credited twice, every credit is covered,   *)
(* and they implement DepositLedger, for every set of watchers, every      *)
(* chain and every value of the bounds.                                    *)
(***************************************************************************)
EXTENDS Watcher, DataLemmas

-----------------------------------------------------------------------------
(***************************************************************************)
(* A deposit's transaction is one of Txs, its amount a natural number.     *)
(***************************************************************************)
LEMMA DepositsAre ==
  \A d \in Deposits : d.txid \in Txs /\ d.amount \in Nat
BY OutputsAssumption, Zenon DEF Deposits

(***************************************************************************)
(* What a transaction pays is a log of deposits, each of that transaction. *)
(***************************************************************************)
LEMMA OutputsAre ==
  ASSUME NEW tx \in Txs
  PROVE  /\ Outputs[tx] \in Seq(Deposits)
         /\ IsInjective(Outputs[tx])
         /\ \A d \in ToSet(Outputs[tx]) : d.txid = tx
<1>1. Outputs[tx] \in Seq(ToSet(Outputs[tx])) /\ IsInjective(Outputs[tx])
  BY OutputsAssumption, Zenon
<1>2. \A d \in ToSet(Outputs[tx]) : d.txid = tx
  BY OutputsAssumption, Zenon
<1>3. ToSet(Outputs[tx]) \subseteq Deposits
  BY Zenon DEF Deposits
<1>4. Outputs[tx] \in Seq(Deposits)
  BY <1>1, <1>3, SeqMonotonic
<1>. QED
  BY <1>1, <1>2, <1>4

(***************************************************************************)
(* The outputs of a block are a log of deposits without repetition, each   *)
(* of a transaction in the block.                                          *)
(***************************************************************************)
LEMMA DepositsInAre ==
  ASSUME NEW block
  PROVE  /\ DepositsIn(block) \in Seq(Deposits)
         /\ IsInjective(DepositsIn(block))
         /\ \A d \in ToSet(DepositsIn(block)) : d.txid \in block
<1> DEFINE n == Cardinality(Txs)
           parts == [tx \in Txs |-> IF tx \in block THEN Outputs[tx] ELSE << >>]
<1>1. n \in Nat /\ Txs = 1 .. n
  BY TxsAssumption, FS_CardinalityType
<1>2. \A tx \in Txs : parts[tx] \in Seq(Deposits)
  BY OutputsAre
<1>3. parts \in [1 .. n -> Seq(Deposits)]
  BY <1>1, <1>2
<1>4. parts \in Seq(Seq(Deposits)) /\ Len(parts) = n
  BY <1>1, <1>3, FunctionIsSequence
<1>5. \A tx \in Txs : \A d \in ToSet(parts[tx]) : d.txid = tx /\ tx \in block
  BY OutputsAre, EntriesOfNone
<1>6. PartsApart(parts)
  <2>1. \A i \in 1 .. Len(parts) : IsInjective(parts[i])
    <3>1. IsInjective(<< >>)
      BY DEF IsInjective
    <3>. QED
      BY <1>1, <1>4, <3>1, OutputsAre
  <2>2. \A i, j \in 1 .. Len(parts) : i # j => ToSet(parts[i]) \cap ToSet(parts[j]) = {}
    <3> HIDE DEF parts, n
    <3>1. \A i, j \in Txs : i # j => \A d \in ToSet(parts[i]) : d \notin ToSet(parts[j])
      BY <1>5, Zenon
    <3>2. 1 .. Len(parts) = Txs
      BY <1>1, <1>4
    <3>. QED
      BY <3>1, <3>2, Zenon
  <2>. QED
    BY <2>1, <2>2 DEF PartsApart
<1>7. DepositsIn(block) = FlattenSeq(parts)
  BY DEF DepositsIn
<1>8. \A p \in ToSet(parts) : \A d \in ToSet(p) : d.txid \in block
  <2>1. ToSet(parts) = {parts[tx] : tx \in Txs}
    BY Zenon DEF ToSet
  <2> HIDE DEF parts
  <2>2. \A p \in ToSet(parts) : \E tx \in Txs : p = parts[tx]
    BY <2>1, Zenon
  <2>. QED
    BY <1>5, <2>2, Zenon
<1> HIDE DEF parts
<1>9. ToSet(DepositsIn(block)) = UNION {ToSet(p) : p \in ToSet(parts)}
  BY <1>4, <1>7, FlattenEntries
<1>10. \A d \in ToSet(DepositsIn(block)) : d.txid \in block
  BY <1>8, <1>9, Zenon
<1>. QED
  BY <1>4, <1>6, <1>7, <1>10, FlattenType, FlattenInjective

(***************************************************************************)
(* What is collected of a block, in the same words.                        *)
(***************************************************************************)
LEMMA CollectedAre ==
  ASSUME NEW block, NEW wanted
  PROVE  /\ Collected(block, wanted) \in Seq(Deposits)
         /\ IsInjective(Collected(block, wanted))
         /\ \A d \in ToSet(Collected(block, wanted)) : d.txid \in block /\ d \in wanted
<1> DEFINE outputs == DepositsIn(block)
<1>1. outputs \in Seq(Deposits) /\ IsInjective(outputs)
  BY DepositsInAre
<1>2. \A d \in ToSet(outputs) : d.txid \in block
  BY DepositsInAre
<1> HIDE DEF outputs
<1>3. ToSet(Select(outputs, wanted)) = ToSet(outputs) \cap wanted
  BY <1>1, SelectEntries
<1>4. Collected(block, wanted) = Select(outputs, wanted)
  BY DEF Collected, outputs
<1>. QED
  BY <1>1, <1>2, <1>3, <1>4, SelectType, SelectInjective

(***************************************************************************)
(* A balance is a natural number.                                          *)
(***************************************************************************)
LEMMA BalanceIsNat ==
  ASSUME NEW height \in Nat, NEW asset
  PROVE  Balance(asset, height) \in Nat
<1> DEFINE parts == [h \in 1 .. height |-> DepositsIn(chain[h])]
           wanted == OfAsset(asset)
<1>1. parts \in [1 .. height -> Seq(Deposits)]
  BY DepositsInAre
<1>2. parts \in Seq(Seq(Deposits))
  BY <1>1, FunctionIsSequence
<1>3. Balance(asset, height) = Total(Select(FlattenSeq(parts), wanted))
  BY DEF Balance
<1> HIDE DEF parts, wanted
<1>4. Select(FlattenSeq(parts), wanted) \in Seq(Deposits)
  BY <1>2, FlattenType, SelectType
<1>5. \A d \in Deposits : d.amount \in Nat
  BY DepositsAre
<1>. QED
  BY <1>3, <1>4, <1>5, TotalNat

-----------------------------------------------------------------------------
(***************************************************************************)
(* The two parts of what a poll reports: observations, numbered credits.   *)
(***************************************************************************)
Others(fresh) == SetToSeq({d.asset : d \in ToSet(fresh)} \ {BridgeAsset})

Observations(safe, fresh) ==
  <<Attest(BridgeAsset, safe)>>
    \o [i \in 1 .. Len(Others(fresh)) |-> Attest(Others(fresh)[i], safe)]

Numbered(n, fresh) ==
  [i \in 1 .. Len(fresh) |-> [kind |-> "Credit", index |-> n + i - 1, deposit |-> fresh[i]]]

Given(w, safe, fresh) == IF fresh = << >> THEN << >> ELSE Batch(w, safe, fresh)

(***************************************************************************)
(* An attestation is not a credit.                                         *)
(***************************************************************************)
LEMMA KindsApart ==
  AttestActions \cap CreditActions = {}
BY DEF AttestActions, CreditActions

(***************************************************************************)
(* SetToSeq lists a finite set.                                            *)
(***************************************************************************)
LEMMA SetToSeqLists ==
  ASSUME NEW S, IsFiniteSet(S)
  PROVE  SetToSeq(S) \in Seq(S) /\ ToSet(SetToSeq(S)) = S
<1> DEFINE n == Cardinality(S)
           s == SetToSeq(S)
<1>1. n \in Nat /\ ExistsBijection(1 .. n, S)
  BY FS_CardinalityType
<1>2. PICK b : b \in Bijection(1 .. n, S)
  BY <1>1 DEF ExistsBijection
<1>3. b \in [1 .. n -> S] /\ IsInjective(b)
  BY <1>2, Zenon DEF Bijection, Injection, IsInjective
<1>4. s \in [1 .. n -> S] /\ IsInjective(s)
  BY <1>3, Zenon DEF SetToSeq
<1> HIDE DEF s
<1>5. s \in Injection(1 .. n, S)
  BY <1>4, Zenon DEF Injection, IsInjective
<1>6. Cardinality(1 .. n) = n
  BY <1>1, FS_Interval
<1>7. s \in Surjection(1 .. n, S)
  BY <1>5, <1>6, FS_Injection
<1>8. s \in Seq(S) /\ Len(s) = n
  BY <1>1, <1>4, FunctionIsSequence
<1>9. ToSet(s) = S
  BY <1>4, <1>7, Zenon DEF ToSet, Surjection
<1>. QED
  BY <1>8, <1>9 DEF s

(***************************************************************************)
(* The assets a batch observes besides the bridge's.                       *)
(***************************************************************************)
LEMMA OthersAre ==
  ASSUME NEW fresh \in Seq(Deposits)
  PROVE  /\ Others(fresh) \in Seq(Assets)
         /\ ToSet(Others(fresh)) = {d.asset : d \in ToSet(fresh)} \ {BridgeAsset}
<1> DEFINE n == Len(fresh)
           assets == {d.asset : d \in ToSet(fresh)}
           f == [i \in 1 .. n |-> fresh[i].asset]
<1>1. n \in Nat /\ DOMAIN fresh = 1 .. n /\ \A i \in 1 .. n : fresh[i] \in Deposits
  BY LenProperties, ElementOfSeq
<1>2. assets = {fresh[i].asset : i \in 1 .. n}
  BY <1>1, Zenon DEF ToSet
<1>3. f \in Surjection(1 .. n, assets)
  BY <1>2, Zenon DEF Surjection
<1>4. IsFiniteSet(assets)
  BY <1>1, <1>3, FS_Interval, FS_Surjection
<1>5. IsFiniteSet(assets \ {BridgeAsset})
  BY <1>4, FS_Difference
<1>6. assets \subseteq Assets
  BY <1>1, <1>2, Zenon DEF Assets
<1> DEFINE others == assets \ {BridgeAsset}
<1>7. Others(fresh) = SetToSeq(others)
  BY Zenon DEF Others
<1>8. others = {d.asset : d \in ToSet(fresh)} \ {BridgeAsset}
  OBVIOUS
<1> HIDE DEF assets
<1>9. others \subseteq Assets
  BY <1>6
<1> HIDE DEF others
<1>10. SetToSeq(others) \in Seq(others) /\ ToSet(SetToSeq(others)) = others
  BY <1>5, SetToSeqLists DEF others
<1>11. SetToSeq(others) \in Seq(Assets)
  BY <1>9, <1>10, SeqMonotonic
<1>. QED
  BY <1>7, <1>8, <1>10, <1>11

(***************************************************************************)
(* An observation of an asset is an attestation.                           *)
(***************************************************************************)
LEMMA AttestIs ==
  ASSUME NEW safe \in Nat, NEW asset \in Assets \cup {BridgeAsset}
  PROVE  /\ Attest(asset, safe) \in AttestActions
         /\ Attest(asset, safe).asset = asset
         /\ Attest(asset, safe).observed = Balance(asset, safe)
BY BalanceIsNat DEF Attest, AttestActions

(***************************************************************************)
(* A batch is its observations, which are attestations, and its credits.   *)
(***************************************************************************)
LEMMA BatchParts ==
  ASSUME NEW w, NEW safe \in Nat, NEW fresh \in Seq(Deposits), next_index[w] \in Nat \ {0}
  PROVE  /\ Observations(safe, fresh) \in Seq(AttestActions)
         /\ Numbered(next_index[w], fresh) \in Seq(CreditActions)
         /\ Len(Numbered(next_index[w], fresh)) = Len(fresh)
         /\ Batch(w, safe, fresh) = Observations(safe, fresh) \o Numbered(next_index[w], fresh)
<1> DEFINE others == Others(fresh)
           first == <<Attest(BridgeAsset, safe)>>
           rest == [i \in 1 .. Len(others) |-> Attest(others[i], safe)]
           n == next_index[w]
<1>1. others \in Seq(Assets)
  BY OthersAre
<1>2. Len(others) \in Nat /\ \A i \in 1 .. Len(others) : others[i] \in Assets
  <2> HIDE DEF others
  <2>. QED
    BY <1>1, LenProperties, ElementOfSeq
<1>3. rest \in [1 .. Len(others) -> AttestActions]
  BY <1>2, AttestIs
<1>4. rest \in Seq(AttestActions)
  <2> HIDE DEF rest, others
  <2>. QED
    BY <1>2, <1>3, FunctionIsSequence
<1>5. first \in Seq(AttestActions)
  <2>1. Attest(BridgeAsset, safe) \in AttestActions
    BY AttestIs
  <2>. QED
    BY <2>1
<1>6. Observations(safe, fresh) \in Seq(AttestActions)
  <2> HIDE DEF first, rest
  <2>1. first \o rest \in Seq(AttestActions)
    BY <1>4, <1>5, ConcatProperties
  <2>. QED
    BY <2>1 DEF Observations, first, rest
<1>7. Len(fresh) \in Nat /\ \A i \in 1 .. Len(fresh) : fresh[i] \in Deposits
  BY LenProperties, ElementOfSeq
<1>8. \A i \in 1 .. Len(fresh) : n + i - 1 \in Nat \ {0}
  BY <1>7
<1>9. Numbered(n, fresh) \in [1 .. Len(fresh) -> CreditActions]
  BY <1>7, <1>8 DEF Numbered, CreditActions
<1>10. Numbered(n, fresh) \in Seq(CreditActions) /\ Len(Numbered(n, fresh)) = Len(fresh)
  BY <1>7, <1>9, FunctionIsSequence
<1>11. Batch(w, safe, fresh) = Observations(safe, fresh) \o Numbered(n, fresh)
  BY Zenon DEF Batch, Observations, Numbered, Others
<1>. QED
  BY <1>6, <1>10, <1>11

(***************************************************************************)
(* The credits of a batch are its numbered deposits.                       *)
(***************************************************************************)
LEMMA BatchCredits ==
  ASSUME NEW w, NEW safe \in Nat, NEW fresh \in Seq(Deposits), next_index[w] \in Nat \ {0}
  PROVE  /\ Given(w, safe, fresh) \in Seq(Action)
         /\ Select(Given(w, safe, fresh), CreditActions) = Numbered(next_index[w], fresh)
<1> DEFINE o == Observations(safe, fresh)
           c == Numbered(next_index[w], fresh)
<1>1. /\ o \in Seq(AttestActions) /\ c \in Seq(CreditActions)
      /\ Len(c) = Len(fresh) /\ Batch(w, safe, fresh) = o \o c
  BY BatchParts
<1> HIDE DEF o, c
<1>2. AttestActions \subseteq Action /\ CreditActions \subseteq Action
  BY DEF Action
<1>3. o \in Seq(Action) /\ c \in Seq(Action)
  BY <1>1, <1>2, SeqMonotonic
<1>4. CASE fresh = << >>
  <2>1. Len(fresh) = 0
    BY <1>4
  <2>2. c = << >>
    BY <1>1, <2>1, EmptySeq
  <2>3. Given(w, safe, fresh) = << >>
    BY <1>4, Zenon DEF Given
  <2>. QED
    BY <2>2, <2>3, SelectEmpty, EmptySeq DEF c
<1>5. CASE fresh # << >>
  <2>1. Given(w, safe, fresh) = o \o c
    BY <1>1, <1>5 DEF Given
  <2>2. ToSet(o) \cap CreditActions = {}
    BY <1>1, KindsApart, EntriesAre
  <2>3. Select(o, CreditActions) = << >>
    BY <1>1, <2>2, SelectNone
  <2>4. Select(c, CreditActions) = c
    BY <1>1, EntriesAre, SelectAll
  <2>5. Select(o \o c, CreditActions) = Select(o, CreditActions) \o Select(c, CreditActions)
    BY <1>3, SelectConcat
  <2>6. << >> \o c = c
    BY <1>3, ConcatEmptySeq
  <2>7. o \o c \in Seq(Action)
    BY <1>3, ConcatProperties
  <2>. QED
    BY <2>1, <2>3, <2>4, <2>5, <2>6, <2>7 DEF c
<1>. QED
  BY <1>4, <1>5

(***************************************************************************)
(* The deposits of credits are a log of deposits; those of two logs of     *)
(* credits in a row are those of each; those of numbered deposits are the  *)
(* deposits.                                                               *)
(***************************************************************************)
DepositOf == [c \in CreditActions |-> c.deposit]

LEMMA DepositOfMaps ==
  /\ Maps(DepositOf, CreditActions, Deposits)
  /\ \A c \in CreditActions : DepositOf[c] = c.deposit
BY DEF Maps, DepositOf, CreditActions

\* The deposits of credits are the image of them under DepositOf.
LEMMA DepositsOfIsMapped ==
  ASSUME NEW s \in Seq(CreditActions)
  PROVE  DepositsOf(s) = Mapped(DepositOf, s)
<1>1. \A i \in 1 .. Len(s) : s[i].deposit = DepositOf[s[i]]
  BY LenProperties, ElementOfSeq, DepositOfMaps
<1>. QED
  BY <1>1, Zenon DEF DepositsOf, Mapped

\* The deposits of credits are a log of deposits, as long as the credits.
LEMMA DepositsOfType ==
  ASSUME NEW s \in Seq(CreditActions)
  PROVE  DepositsOf(s) \in Seq(Deposits) /\ Len(DepositsOf(s)) = Len(s)
BY DepositsOfIsMapped, MappedType, DepositOfMaps

\* The deposits of two logs of credits in a row.
LEMMA DepositsOfConcat ==
  ASSUME NEW s \in Seq(CreditActions), NEW t \in Seq(CreditActions)
  PROVE  DepositsOf(s \o t) = DepositsOf(s) \o DepositsOf(t)
<1>1. s \o t \in Seq(CreditActions)
  BY ConcatProperties
<1>2. Mapped(DepositOf, s \o t) = Mapped(DepositOf, s) \o Mapped(DepositOf, t)
  BY MappedConcat, DepositOfMaps
<1>. QED
  BY <1>1, <1>2, DepositsOfIsMapped

\* The deposits of numbered deposits.
LEMMA DepositsOfNumbered ==
  ASSUME NEW n, NEW fresh \in Seq(Deposits)
  PROVE  DepositsOf(Numbered(n, fresh)) = fresh
<1>1. Len(fresh) \in Nat /\ fresh \in [1 .. Len(fresh) -> Deposits]
  BY LenProperties
<1>2. /\ DOMAIN Numbered(n, fresh) = 1 .. Len(fresh)
      /\ \A i \in 1 .. Len(fresh) : Numbered(n, fresh)[i].deposit = fresh[i]
  BY DEF Numbered
<1>3. Len(Numbered(n, fresh)) = Len(fresh)
  BY <1>1 DEF Numbered
<1>4. DepositsOf(Numbered(n, fresh)) = [i \in 1 .. Len(fresh) |-> fresh[i]]
  BY <1>2, <1>3, Zenon DEF DepositsOf
<1>. QED
  BY <1>1, <1>4

-----------------------------------------------------------------------------
(***************************************************************************)
(* How many blocks are above the one a watcher may scan.                   *)
(***************************************************************************)
Buried == IF Confirmations = 0 THEN 0 ELSE Confirmations - 1

\* SafeHeight is as many blocks below the tip, or none.
LEMMA SafeHeightIs ==
  ASSUME chain \in Seq(SUBSET Txs)
  PROVE  /\ Tip \in Nat /\ SafeHeight \in Nat /\ SafeHeight <= Tip
         /\ Buried \in Nat
         /\ SafeHeight > 0 => SafeHeight = Tip - Buried
<1>1. Tip \in Nat
  BY LenProperties DEF Tip
<1>2. Confirmations \in Nat
  BY ConfirmationsAssumption
<1>. QED
  BY <1>1, <1>2 DEF SafeHeight, Buried

(***************************************************************************)
(* What a poll finds is a log of creditable deposits, of transactions that *)
(* it did not credit before, in blocks above those scanned before; without *)
(* repetition if no transaction is in two blocks.                          *)
(***************************************************************************)
BlocksApart == \A g, h \in 1 .. Tip : g # h => chain[g] \cap chain[h] = {}

LEMMA FreshAre ==
  ASSUME chain \in Seq(SUBSET Txs), NEW w, NEW safe \in Nat, NEW failed,
         scanned_to[w] \in Nat, scanned_to[w] < safe, safe <= Tip
  PROVE  LET fresh == Fresh(w, safe, failed)
         IN /\ fresh \in Seq(Deposits)
            /\ \A d \in ToSet(fresh) :
                 /\ d \in Creditable /\ d.txid \notin credited[w]
                 /\ \E h \in scanned_to[w] + 1 .. safe : d.txid \in chain[h]
            /\ BlocksApart => IsInjective(fresh)
<1> DEFINE from == scanned_to[w]
           n == safe - from
           wanted == {d \in Creditable : d.txid \notin credited[w]}
           parts == [i \in 1 .. n |-> IF from + i \in failed THEN << >>
                                      ELSE Collected(chain[from + i], wanted)]
           fresh == Fresh(w, safe, failed)
<1>1. n \in Nat /\ Tip \in Nat
  BY SafeHeightIs
<1>2. fresh = FlattenSeq(parts)
  BY DEF Fresh
<1>3. \A i \in 1 .. n : parts[i] = << >> \/ parts[i] = Collected(chain[from + i], wanted)
  OBVIOUS
<1>4. parts = [i \in 1 .. n |-> parts[i]]
  OBVIOUS
<1>5. \A d \in wanted : d \in Creditable /\ d.txid \notin credited[w]
  OBVIOUS
<1> HIDE DEF parts, wanted, n, fresh
<1>6. \A i \in 1 .. n : /\ parts[i] \in Seq(Deposits)
                        /\ IsInjective(parts[i])
                        /\ \A d \in ToSet(parts[i]) : d \in wanted /\ d.txid \in chain[from + i]
  <2>1. /\ << >> \in Seq(Deposits) /\ ToSet(<< >>) = {}
        /\ IsInjective(<< >>)
    BY EntriesOfNone, EmptySeq DEF IsInjective
  <2>2. \A block : /\ Collected(block, wanted) \in Seq(Deposits)
                   /\ IsInjective(Collected(block, wanted))
                   /\ \A d \in ToSet(Collected(block, wanted)) : d.txid \in block /\ d \in wanted
    BY CollectedAre
  <2>3. \A d \in ToSet(<< >>) : FALSE
    BY <2>1
  <2>4. ASSUME NEW i \in 1 .. n
        PROVE  /\ parts[i] \in Seq(Deposits)
               /\ IsInjective(parts[i])
               /\ \A d \in ToSet(parts[i]) : d \in wanted /\ d.txid \in chain[from + i]
    <3>1. CASE parts[i] = << >>
      BY <2>1, <2>3, <3>1, Zenon
    <3>2. CASE parts[i] = Collected(chain[from + i], wanted)
      BY <2>2, <3>2, Zenon
    <3>. QED
      BY <1>3, <3>1, <3>2
  <2>. QED
    BY <2>4
<1>7. parts \in [1 .. n -> Seq(Deposits)]
  BY <1>4, <1>6, Zenon
<1>8. parts \in Seq(Seq(Deposits)) /\ Len(parts) = n
  BY <1>1, <1>7, FunctionIsSequence
<1>9. \A p \in ToSet(parts) : \E i \in 1 .. n : p = parts[i]
  BY <1>4, Zenon DEF ToSet
<1>10. \A d \in ToSet(fresh) : \E i \in 1 .. n : d \in ToSet(parts[i])
  <2>1. ToSet(fresh) = UNION {ToSet(p) : p \in ToSet(parts)}
    BY <1>2, <1>8, FlattenEntries
  <2>. QED
    BY <1>9, <2>1, Zenon
<1>11. ASSUME NEW d \in ToSet(fresh)
       PROVE  /\ d \in Creditable /\ d.txid \notin credited[w]
              /\ \E h \in from + 1 .. safe : d.txid \in chain[h]
  <2>1. PICK i \in 1 .. n : d \in ToSet(parts[i])
    BY <1>10, <1>11
  <2>2. d \in wanted /\ d.txid \in chain[from + i]
    BY <1>6, <2>1
  <2>3. from + i \in from + 1 .. safe
    BY <1>1, <2>1 DEF n
  <2>. QED
    BY <1>5, <2>2, <2>3
<1>12. ASSUME BlocksApart
       PROVE  IsInjective(fresh)
  <2>1. ASSUME NEW i \in 1 .. n, NEW j \in 1 .. n, i # j
        PROVE  chain[from + i] \cap chain[from + j] = {}
    <3>1. from + i \in 1 .. Tip /\ from + j \in 1 .. Tip /\ from + i # from + j
      BY <1>1, <2>1 DEF n
    <3>. QED
      BY <1>12, <3>1 DEF BlocksApart
  <2>2. \A i, j \in 1 .. n : i # j => ToSet(parts[i]) \cap ToSet(parts[j]) = {}
    <3>1. ASSUME NEW i \in 1 .. n, NEW j \in 1 .. n, i # j, NEW d \in ToSet(parts[i])
          PROVE  d \notin ToSet(parts[j])
      <4>1. d.txid \in chain[from + i] /\ d.txid \notin chain[from + j]
        BY <1>6, <2>1, <3>1
      <4>. QED
        BY <1>6, <4>1
    <3>. QED
      BY <3>1
  <2>3. PartsApart(parts)
    BY <1>6, <1>8, <2>2, Zenon DEF PartsApart
  <2>. QED
    BY <1>2, <1>8, <2>3, FlattenInjective
<1>13. fresh \in Seq(Deposits)
  BY <1>2, <1>8, FlattenType
<1>. QED
  BY <1>11, <1>12, <1>13 DEF fresh

-----------------------------------------------------------------------------
(***************************************************************************)
(* The two kinds of poll, in one form.                                     *)
(***************************************************************************)
Found(w, failed) == Fresh(w, SafeHeight, failed)

Polled(w, failed) ==
  /\ SafeHeight > scanned_to[w]
  /\ scanned_to' = IF failed = {} THEN [scanned_to EXCEPT ![w] = SafeHeight] ELSE scanned_to
  /\ Record(w, Found(w, failed))
  /\ reported' = [reported EXCEPT ![w] = @ \o Given(w, SafeHeight, Found(w, failed))]
  /\ failed # {} => failures < MaxFailures
  /\ failures' = IF failed = {} THEN failures ELSE failures + 1
  /\ UNCHANGED <<chain, highest, reorgs, restarts>>

\* What a poll over failed heights reports, if the log is one.
LEMMA PollReports ==
  ASSUME TypeOK, NEW w \in Watchers, NEW fresh, NEW safe,
         reported' = IF fresh = << >> THEN reported
                     ELSE [reported EXCEPT ![w] = @ \o Batch(w, safe, fresh)]
  PROVE  reported' = [reported EXCEPT ![w] = @ \o Given(w, safe, fresh)]
<1>1. reported \in [Watchers -> Seq(Action)]
  BY DEF TypeOK
<1>2. CASE fresh = << >>
  <2>1. reported[w] \o << >> = reported[w]
    BY <1>1, ConcatEmptySeq
  <2>2. reported = [reported EXCEPT ![w] = reported[w]]
    BY <1>1
  <2>. QED
    BY <1>2, <2>1, <2>2 DEF Given
<1>3. CASE fresh # << >>
  BY <1>3 DEF Given
<1>. QED
  BY <1>2, <1>3

(***************************************************************************)
(* What a step is: the chain's, a poll, a restart, or nothing.             *)
(***************************************************************************)
LEMMA StepCases ==
  ASSUME TypeOK, [Next]_vars
  PROVE  \/ Chain
         \/ \E w \in Watchers : \E failed : Polled(w, failed)
         \/ \E w \in Watchers : Resume(w)
         \/ UNCHANGED vars
<1>1. ASSUME NEW w \in Watchers, Poll(w)
      PROVE  Polled(w, {})
  <2>1. reported' = [reported EXCEPT ![w] = @ \o Given(w, SafeHeight, Found(w, {}))]
    BY <1>1, PollReports DEF Poll, Found
  <2>. QED
    BY <1>1, <2>1 DEF Poll, Polled, Found
<1>2. ASSUME NEW w \in Watchers, NEW failed, PollFailedView(w, failed)
      PROVE  Polled(w, failed)
  <2>1. reported' = [reported EXCEPT ![w] = @ \o Given(w, SafeHeight, Found(w, failed))]
    BY <1>2, PollReports DEF PollFailedView, Found
  <2>. QED
    BY <1>2, <2>1 DEF PollFailedView, Polled, Found
<1>3. CASE UNCHANGED vars
  BY <1>3
<1>4. CASE Next
  <2>1. CASE Chain
    BY <2>1
  <2>2. CASE \E w \in Watchers : Poll(w)
    BY <1>1, <2>2
  <2>3. CASE \E w \in Watchers : \E failed \in SUBSET (1 .. MaxHeight) : PollFailedView(w, failed)
    BY <1>2, <2>3
  <2>4. CASE \E w \in Watchers : Resume(w)
    BY <2>4
  <2>. QED
    BY <1>4, <2>1, <2>2, <2>3, <2>4 DEF Next
<1>. QED
  BY <1>3, <1>4

(***************************************************************************)
(* The chain's steps leave the watchers alone, and the blocks that stay    *)
(* are the blocks there were.                                              *)
(***************************************************************************)
LEMMA ChainStep ==
  ASSUME TypeOK, Chain
  PROVE  /\ chain' \in Seq(SUBSET Txs) /\ highest' \in Nat /\ reorgs' \in 0 .. MaxReorgs
         /\ UNCHANGED <<failures, restarts, watcherVars>>
         /\ \A h \in 1 .. Tip : h <= Tip' => chain'[h] = chain[h]
         /\ BlocksApart => BlocksApart'
         /\ \/ /\ Tip' = Tip + 1
               /\ highest' = IF Tip + 1 > highest THEN Tip + 1 ELSE highest
            \/ /\ Tip' < Tip /\ highest' = highest
               /\ Tip' >= highest - MaxReorg
<1>1. /\ chain \in Seq(SUBSET Txs) /\ highest \in Nat /\ reorgs \in 0 .. MaxReorgs
      /\ Tip \in Nat
  BY SafeHeightIs DEF TypeOK
<1>2. ASSUME NEW block \in SUBSET Txs, Mine(block)
      PROVE  /\ chain' \in Seq(SUBSET Txs) /\ highest' \in Nat /\ reorgs' \in 0 .. MaxReorgs
             /\ UNCHANGED <<failures, restarts, watcherVars>>
             /\ \A h \in 1 .. Tip : h <= Tip' => chain'[h] = chain[h]
             /\ BlocksApart => BlocksApart'
             /\ Tip' = Tip + 1
             /\ highest' = IF Tip + 1 > highest THEN Tip + 1 ELSE highest
  <2>1. chain' = Append(chain, block)
    BY <1>2 DEF Mine
  <2>2. /\ chain' \in Seq(SUBSET Txs) /\ Tip' = Tip + 1 /\ chain'[Tip + 1] = block
        /\ \A h \in 1 .. Tip : chain'[h] = chain[h]
    BY <1>1, <2>1, AppendProperties DEF Tip
  <2>3. \A h \in 1 .. Tip : block \cap chain[h] = {}
    BY <1>2 DEF Mine, MinedTxs
  <2>4. ASSUME BlocksApart
        PROVE  BlocksApart'
    <3>1. ASSUME NEW g \in 1 .. Tip + 1, NEW h \in 1 .. Tip + 1, g # h
          PROVE  chain'[g] \cap chain'[h] = {}
      <4>1. CASE g \in 1 .. Tip /\ h \in 1 .. Tip
        BY <2>2, <2>4, <3>1, <4>1 DEF BlocksApart
      <4>2. CASE g = Tip + 1
        <5>1. h \in 1 .. Tip
          BY <1>1, <3>1, <4>2
        <5>. QED
          BY <2>2, <2>3, <4>2, <5>1
      <4>3. CASE h = Tip + 1
        <5>1. g \in 1 .. Tip
          BY <1>1, <3>1, <4>3
        <5>. QED
          BY <2>2, <2>3, <4>3, <5>1
      <4>. QED
        BY <1>1, <4>1, <4>2, <4>3
    <3>. QED
      BY <2>2, <3>1 DEF BlocksApart
  <2>5. /\ highest' = IF Tip + 1 > highest THEN Tip + 1 ELSE highest
        /\ UNCHANGED <<reorgs, failures, restarts, watcherVars>>
    BY <1>2 DEF Mine
  <2>. QED
    BY <1>1, <2>2, <2>4, <2>5
<1>3. ASSUME NEW height \in 0 .. MaxHeight, Reorg(height)
      PROVE  /\ chain' \in Seq(SUBSET Txs) /\ highest' \in Nat /\ reorgs' \in 0 .. MaxReorgs
             /\ UNCHANGED <<failures, restarts, watcherVars>>
             /\ \A h \in 1 .. Tip : h <= Tip' => chain'[h] = chain[h]
             /\ BlocksApart => BlocksApart'
             /\ Tip' < Tip /\ highest' = highest
             /\ Tip' >= highest - MaxReorg
  <2>1. /\ chain' = SubSeq(chain, 1, height)
        /\ height \in Nat /\ height < Tip /\ height >= highest - MaxReorg
    BY <1>3, WatcherBoundsAssumption DEF Reorg
  <2>2. /\ chain' \in Seq(SUBSET Txs) /\ Tip' = height
        /\ \A h \in 1 .. height : chain'[h] = chain[h]
    <3>1. /\ SubSeq(chain, 1, height) \in Seq(SUBSET Txs)
          /\ Len(SubSeq(chain, 1, height)) = height
          /\ \A h \in 1 .. height : SubSeq(chain, 1, height)[h] = chain[1 + h - 1]
      BY <1>1, <2>1, SubSeqProperties DEF Tip
    <3>2. \A h \in 1 .. height : 1 + h - 1 = h
      BY <2>1
    <3>. QED
      BY <2>1, <3>1, <3>2 DEF Tip
  <2>3. BlocksApart => BlocksApart'
    BY <1>1, <2>1, <2>2 DEF BlocksApart
  <2>4. /\ reorgs < MaxReorgs /\ reorgs' = reorgs + 1
        /\ UNCHANGED <<highest, failures, restarts, watcherVars>>
    BY <1>3 DEF Reorg
  <2>. QED
    BY <1>1, <2>1, <2>2, <2>3, <2>4, WatcherBoundsAssumption
<1>. QED
  BY <1>2, <1>3 DEF Chain

(***************************************************************************)
(* What a poll does to the watchers' state.                                *)
(***************************************************************************)
LEMMA PollStep ==
  ASSUME TypeOK, NEW w \in Watchers, NEW failed, Polled(w, failed)
  PROVE  /\ SafeHeight \in Nat /\ scanned_to[w] \in Nat /\ SafeHeight <= Tip
         /\ Found(w, failed) \in Seq(Deposits)
         /\ Given(w, SafeHeight, Found(w, failed)) \in Seq(Action)
         /\ Numbered(next_index[w], Found(w, failed)) \in Seq(CreditActions)
         /\ Len(Numbered(next_index[w], Found(w, failed))) = Len(Found(w, failed))
         /\ next_index' = [next_index EXCEPT ![w] = @ + Len(Found(w, failed))]
         /\ Credits(w)' = Credits(w) \o Numbered(next_index[w], Found(w, failed))
         /\ \A v \in Watchers : v # w => Credits(v)' = Credits(v)
<1> DEFINE fresh == Found(w, failed)
           given == Given(w, SafeHeight, fresh)
<1>1. SafeHeight \in Nat /\ SafeHeight <= Tip
  BY SafeHeightIs DEF TypeOK
<1>2. scanned_to[w] \in Nat /\ scanned_to[w] < SafeHeight
  BY <1>1 DEF Polled, TypeOK
<1>3. fresh \in Seq(Deposits)
  BY <1>1, <1>2, FreshAre DEF TypeOK, Found
<1>4. next_index[w] \in Nat \ {0}
  BY DEF TypeOK
<1> HIDE DEF fresh
<1>5. given \in Seq(Action) /\ Select(given, CreditActions) = Numbered(next_index[w], fresh)
  BY <1>1, <1>3, <1>4, BatchCredits
<1>6. /\ Numbered(next_index[w], fresh) \in Seq(CreditActions)
      /\ Len(Numbered(next_index[w], fresh)) = Len(fresh)
  BY <1>1, <1>3, <1>4, BatchParts
<1>7. next_index' = [next_index EXCEPT ![w] = @ + Len(fresh)]
  BY DEF Polled, Record, fresh
<1>8. reported' = [reported EXCEPT ![w] = @ \o given] /\ reported \in [Watchers -> Seq(Action)]
  BY DEF Polled, fresh, TypeOK
<1> HIDE DEF given
<1>9. reported'[w] = reported[w] \o given /\ reported[w] \in Seq(Action)
  BY <1>8
<1>10. Select(reported[w] \o given, CreditActions)
         = Select(reported[w], CreditActions) \o Select(given, CreditActions)
  BY <1>5, <1>9, SelectConcat
<1>11. Credits(w)' = Credits(w) \o Numbered(next_index[w], fresh)
  BY <1>5, <1>9, <1>10 DEF Credits
<1>12. \A v \in Watchers : v # w => reported'[v] = reported[v]
  BY <1>8
<1>13. \A v \in Watchers : v # w => Credits(v)' = Credits(v)
  BY <1>12, Zenon DEF Credits
<1>. QED
  BY <1>1, <1>2, <1>3, <1>5, <1>6, <1>7, <1>11, <1>13 DEF fresh, given

-----------------------------------------------------------------------------
(***************************************************************************)
(* Credits are a log of credits.                                           *)
(***************************************************************************)
LEMMA CreditsType ==
  ASSUME TypeOK, NEW w \in Watchers
  PROVE  Credits(w) \in Seq(CreditActions) /\ Len(Credits(w)) \in Nat
<1>1. reported[w] \in Seq(Action)
  BY DEF TypeOK
<1>2. Credits(w) \in Seq(Action)
  BY <1>1, SelectType DEF Credits
<1>3. ToSet(Credits(w)) = ToSet(reported[w]) \cap CreditActions
  BY <1>1, SelectEntries DEF Credits
<1>4. \A i \in 1 .. Len(Credits(w)) : Credits(w)[i] \in CreditActions
  <2>1. DOMAIN Credits(w) = 1 .. Len(Credits(w))
    BY <1>2, LenProperties
  <2>2. \A i \in 1 .. Len(Credits(w)) : Credits(w)[i] \in ToSet(Credits(w))
    BY <2>1, Zenon DEF ToSet
  <2>. QED
    BY <1>3, <2>2
<1>5. Len(Credits(w)) \in Nat /\ Credits(w) \in [1 .. Len(Credits(w)) -> CreditActions]
  BY <1>2, <1>4, LenProperties
<1>. QED
  BY <1>5, FunctionIsSequence

(***************************************************************************)
(* Every step keeps the types: heights, indices and reports stay what they *)
(* are, under any reorganisation, failed view and restart.                 *)
(***************************************************************************)
LEMMA TypeStep ==
  ASSUME TypeOK, [Next]_vars
  PROVE  TypeOK'
<1>1. CASE Chain
  BY <1>1, ChainStep DEF TypeOK, watcherVars
<1>2. CASE \E w \in Watchers : \E failed : Polled(w, failed)
  <2>1. PICK w \in Watchers : \E failed : Polled(w, failed)
    BY <1>2
  <2>2. PICK failed : Polled(w, failed)
    BY <2>1
  <2> DEFINE fresh == Found(w, failed)
             given == Given(w, SafeHeight, fresh)
  <2>3. /\ SafeHeight \in Nat /\ fresh \in Seq(Deposits) /\ given \in Seq(Action)
        /\ next_index' = [next_index EXCEPT ![w] = @ + Len(fresh)]
    BY <2>2, PollStep
  <2>4. /\ scanned_to' = IF failed = {} THEN [scanned_to EXCEPT ![w] = SafeHeight] ELSE scanned_to
        /\ credited' = [credited EXCEPT ![w] = @ \cup {d.txid : d \in ToSet(fresh)}]
        /\ reported' = [reported EXCEPT ![w] = @ \o given]
        /\ failed # {} => failures < MaxFailures
        /\ failures' = IF failed = {} THEN failures ELSE failures + 1
        /\ UNCHANGED <<chain, highest, reorgs, restarts>>
    BY <2>2 DEF Polled, Record
  <2> HIDE DEF fresh, given
  <2>5. {d.txid : d \in ToSet(fresh)} \subseteq Txs
    BY <2>3, EntriesAre, DepositsAre
  <2>6. scanned_to' \in [Watchers -> Nat]
    BY <2>3, <2>4 DEF TypeOK
  <2>7. credited' \in [Watchers -> SUBSET Txs]
    <3>1. credited[w] \cup {d.txid : d \in ToSet(fresh)} \in SUBSET Txs
      BY <2>5 DEF TypeOK
    <3>. QED
      BY <2>4, <3>1 DEF TypeOK
  <2>8. next_index' \in [Watchers -> Nat \ {0}]
    <3>1. Len(fresh) \in Nat
      BY <2>3, LenProperties
    <3>2. next_index[w] + Len(fresh) \in Nat \ {0}
      BY <3>1 DEF TypeOK
    <3>. QED
      BY <2>3, <3>2 DEF TypeOK
  <2>9. reported' \in [Watchers -> Seq(Action)]
    <3>1. reported[w] \o given \in Seq(Action)
      BY <2>3, ConcatProperties DEF TypeOK
    <3>. QED
      BY <2>4, <3>1 DEF TypeOK
  <2>10. failures' \in 0 .. MaxFailures
    BY <2>4, WatcherBoundsAssumption DEF TypeOK
  <2>. QED
    BY <2>4, <2>6, <2>7, <2>8, <2>9, <2>10 DEF TypeOK
<1>3. CASE \E w \in Watchers : Resume(w)
  <2>1. PICK w \in Watchers : Resume(w)
    BY <1>3
  <2>2. Len(Credits(w)) + 1 \in Nat \ {0}
    BY CreditsType
  <2>. QED
    BY <2>1, <2>2, WatcherBoundsAssumption DEF Resume, TypeOK
<1>4. CASE UNCHANGED vars
  BY <1>4 DEF vars, watcherVars, TypeOK
<1>. QED
  BY <1>1, <1>2, <1>3, <1>4, StepCases

(***************************************************************************)
(* Before the first block the types hold.                                  *)
(***************************************************************************)
LEMMA TypeInit ==
  Init => TypeOK
<1>1. << >> \in Seq(SUBSET Txs) /\ << >> \in Seq(Action)
  BY EmptySeq
<1>. QED
  BY <1>1, WatcherBoundsAssumption DEF Init, TypeOK

(***************************************************************************)
(* The type invariant of the watchers (TypeOK).                            *)
(***************************************************************************)
THEOREM TypeCorrect ==
  Spec => []TypeOK
<1>1. TypeOK /\ [Next]_vars => TypeOK'
  BY TypeStep
<1>. QED
  BY TypeInit, <1>1, PTL DEF Spec

-----------------------------------------------------------------------------
(***************************************************************************)
(* What makes the indices dense: the next index is one more than the       *)
(* number of credits given.                                                *)
(***************************************************************************)
NextIsDue == \A w \in Watchers : next_index[w] = Len(Credits(w)) + 1

DenseInv == TypeOK /\ NextIsDue /\ IndicesDense

\* Where the entries of two logs of credits in a row come from.
LEMMA CreditsConcat ==
  ASSUME NEW s \in Seq(CreditActions), NEW t \in Seq(CreditActions)
  PROVE  /\ s \o t \in Seq(CreditActions)
         /\ Len(s \o t) = Len(s) + Len(t)
         /\ DOMAIN (s \o t) = 1 .. Len(s) + Len(t)
         /\ \A i \in 1 .. Len(s) + Len(t) : (s \o t)[i] = IF i <= Len(s) THEN s[i] ELSE t[i - Len(s)]
<1>1. /\ s \o t \in Seq(CreditActions)
      /\ Len(s \o t) = Len(s) + Len(t)
      /\ \A i \in 1 .. Len(s) + Len(t) : (s \o t)[i] = IF i <= Len(s) THEN s[i] ELSE t[i - Len(s)]
  BY ConcatProperties
<1>. QED
  BY <1>1, LenProperties

\* Numbering after n credits numbers on from n + 1.
LEMMA DenseAppend ==
  ASSUME NEW s \in Seq(CreditActions), NEW fresh \in Seq(Deposits), NEW n,
         n = Len(s) + 1, \A i \in DOMAIN s : s[i].index = i,
         Numbered(n, fresh) \in Seq(CreditActions),
         Len(Numbered(n, fresh)) = Len(fresh)
  PROVE  LET t == s \o Numbered(n, fresh)
         IN  \A i \in DOMAIN t : t[i].index = i
<1> DEFINE c == Numbered(n, fresh)
           t == s \o c
<1>1. /\ Len(s) \in Nat /\ Len(fresh) \in Nat
      /\ DOMAIN s = 1 .. Len(s)
  BY LenProperties
<1>2. \A i \in 1 .. Len(fresh) : c[i].index = n + i - 1
  BY DEF Numbered
<1>3. /\ DOMAIN t = 1 .. Len(s) + Len(fresh)
      /\ \A i \in 1 .. Len(s) + Len(fresh) : t[i] = IF i <= Len(s) THEN s[i] ELSE c[i - Len(s)]
  <2>1. c \in Seq(CreditActions) /\ Len(c) = Len(fresh)
    OBVIOUS
  <2>2. s \in Seq(CreditActions)
    OBVIOUS
  <2> HIDE DEF c
  <2>3. /\ DOMAIN (s \o c) = 1 .. Len(s) + Len(c)
        /\ \A i \in 1 .. Len(s) + Len(c) : (s \o c)[i] = IF i <= Len(s) THEN s[i] ELSE c[i - Len(s)]
    BY <2>1, <2>2, CreditsConcat, Zenon
  <2>. QED
    BY <2>1, <2>3, Zenon
<1> HIDE DEF c, t
<1>4. ASSUME NEW i \in 1 .. Len(s) + Len(fresh)
      PROVE  t[i].index = i
  <2>1. CASE i <= Len(s)
    BY <1>1, <1>3, <2>1
  <2>2. CASE ~ (i <= Len(s))
    <3>1. i - Len(s) \in 1 .. Len(fresh) /\ n + (i - Len(s)) - 1 = i
      BY <1>1, <2>2
    <3>. QED
      BY <1>2, <1>3, <2>2, <3>1
  <2>. QED
    BY <2>1, <2>2
<1>. QED
  BY <1>3, <1>4 DEF t, c

(***************************************************************************)
(* Every step keeps the indices dense: a poll numbers what it found from   *)
(* the next index, and a restart takes the VM's.                           *)
(***************************************************************************)
LEMMA DenseStep ==
  ASSUME DenseInv, [Next]_vars
  PROVE  DenseInv'
<1>. USE DEF DenseInv
<1>0. TypeOK'
  BY TypeStep
<1>1. CASE Chain \/ UNCHANGED vars
  <2>1. next_index' = next_index /\ reported' = reported
    BY <1>1, ChainStep DEF watcherVars, vars
  <2>. QED
    BY <1>0, <2>1 DEF NextIsDue, IndicesDense, Credits
<1>2. CASE \E w \in Watchers : \E failed : Polled(w, failed)
  <2>1. PICK w \in Watchers : \E failed : Polled(w, failed)
    BY <1>2
  <2>2. PICK failed : Polled(w, failed)
    BY <2>1
  <2> DEFINE fresh == Found(w, failed)
             c == Numbered(next_index[w], fresh)
  <2>3. /\ fresh \in Seq(Deposits) /\ c \in Seq(CreditActions) /\ Len(c) = Len(fresh)
        /\ next_index' = [next_index EXCEPT ![w] = @ + Len(fresh)]
        /\ Credits(w)' = Credits(w) \o c
        /\ \A v \in Watchers : v # w => Credits(v)' = Credits(v)
    BY <2>2, PollStep
  <2> HIDE DEF fresh
  <2>4. Credits(w) \in Seq(CreditActions) /\ Len(Credits(w)) \in Nat /\ Len(fresh) \in Nat
    BY <2>3, CreditsType, LenProperties
  <2>5. next_index[w] = Len(Credits(w)) + 1 /\ \A i \in DOMAIN Credits(w) : Credits(w)[i].index = i
    BY DEF NextIsDue, IndicesDense
  <2>6. \A i \in DOMAIN Credits(w)' : Credits(w)'[i].index = i
    BY <2>3, <2>4, <2>5, DenseAppend
  <2> HIDE DEF c
  <2>7. Len(Credits(w)') = Len(Credits(w)) + Len(fresh)
    <3>1. Len(Credits(w) \o c) = Len(Credits(w)) + Len(fresh)
      BY <2>3, <2>4, CreditsConcat
    <3>. QED
      BY <2>3, <3>1, Zenon
  <2>8. next_index'[w] = Len(Credits(w)') + 1
    BY <2>3, <2>4, <2>5, <2>7 DEF TypeOK
  <2>9. \A v \in Watchers : v # w => next_index'[v] = next_index[v]
    BY <2>3 DEF TypeOK
  <2>10. NextIsDue'
    BY <2>3, <2>8, <2>9 DEF NextIsDue
  <2>11. IndicesDense'
    BY <2>3, <2>6 DEF IndicesDense
  <2>. QED
    BY <1>0, <2>10, <2>11
<1>3. CASE \E w \in Watchers : Resume(w)
  <2>1. PICK w \in Watchers : Resume(w)
    BY <1>3
  <2>2. /\ reported' = reported
        /\ next_index' = [next_index EXCEPT ![w] = Len(Credits(w)) + 1]
    BY <2>1 DEF Resume
  <2>3. NextIsDue'
    BY <2>2 DEF NextIsDue, Credits, TypeOK
  <2>4. IndicesDense'
    BY <2>2 DEF IndicesDense, Credits
  <2>. QED
    BY <1>0, <2>3, <2>4
<1>. QED
  BY <1>1, <1>2, <1>3, StepCases

(***************************************************************************)
(* The credits each VM is given are numbered 1, 2, 3..., whatever the      *)
(* chain does, whenever views fail and watchers restart (IndicesDense).    *)
(***************************************************************************)
THEOREM IndicesAreDense ==
  Spec => []IndicesDense
<1>1. Init => DenseInv
  <2>1. ASSUME Init
        PROVE  NextIsDue /\ IndicesDense
    <3>1. \A w \in Watchers : Credits(w) = << >> /\ next_index[w] = 1
      BY <2>1, SelectEmpty DEF Init, Credits
    <3>2. Len(<< >>) = 0 /\ DOMAIN << >> = {}
      OBVIOUS
    <3>. QED
      BY <3>1, <3>2 DEF NextIsDue, IndicesDense
  <2>. QED
    BY <2>1, TypeInit DEF DenseInv
<1>2. DenseInv /\ [Next]_vars => DenseInv'
  BY DenseStep
<1>3. DenseInv => IndicesDense
  BY DEF DenseInv
<1>. QED
  BY <1>1, <1>2, <1>3, PTL DEF Spec

-----------------------------------------------------------------------------
(***************************************************************************)
(* The deposits a watcher credited, in order: its part of the ledger.      *)
(***************************************************************************)
LedgerOf(w) == DepositsOf(Credits(w))

\* It is a log of deposits, one for each credit.
LEMMA LedgerType ==
  ASSUME TypeOK, NEW w \in Watchers
  PROVE  /\ LedgerOf(w) \in Seq(Deposits)
         /\ DOMAIN Credits(w) = DOMAIN LedgerOf(w)
         /\ \A i \in DOMAIN Credits(w) : LedgerOf(w)[i] = Credits(w)[i].deposit
<1>1. Credits(w) \in Seq(CreditActions)
  BY CreditsType
<1>2. DOMAIN Credits(w) = 1 .. Len(Credits(w))
  BY <1>1, LenProperties
<1>3. LedgerOf(w) \in Seq(Deposits)
  BY <1>1, DepositsOfType DEF LedgerOf
<1>. QED
  BY <1>2, <1>3, Zenon DEF LedgerOf, DepositsOf

(***************************************************************************)
(* A poll puts what it found behind it; no other step, and no other        *)
(* watcher's poll, changes it.                                             *)
(***************************************************************************)
LEMMA LedgerStep ==
  ASSUME TypeOK, NEW w \in Watchers, NEW failed, Polled(w, failed)
  PROVE  /\ LedgerOf(w)' = LedgerOf(w) \o Found(w, failed)
         /\ \A v \in Watchers : v # w => LedgerOf(v)' = LedgerOf(v)
<1> DEFINE fresh == Found(w, failed)
           c == Numbered(next_index[w], fresh)
<1>1. /\ fresh \in Seq(Deposits) /\ c \in Seq(CreditActions)
      /\ Credits(w)' = Credits(w) \o c
      /\ \A v \in Watchers : v # w => Credits(v)' = Credits(v)
  BY PollStep
<1> HIDE DEF fresh
<1>2. DepositsOf(c) = fresh
  BY <1>1, DepositsOfNumbered
<1> HIDE DEF c
<1>3. Credits(w) \in Seq(CreditActions)
  BY CreditsType
<1>4. DepositsOf(Credits(w) \o c) = DepositsOf(Credits(w)) \o fresh
  BY <1>1, <1>2, <1>3, DepositsOfConcat
<1>5. LedgerOf(w)' = LedgerOf(w) \o fresh
  BY <1>1, <1>4 DEF LedgerOf, DepositsOf
<1>6. \A v \in Watchers : v # w => LedgerOf(v)' = LedgerOf(v)
  BY <1>1 DEF LedgerOf, DepositsOf
<1>. QED
  BY <1>5, <1>6 DEF fresh

\* Steps that leave the reports alone leave it alone.
LEMMA LedgerKept ==
  ASSUME reported' = reported
  PROVE  \A w \in Watchers : LedgerOf(w)' = LedgerOf(w)
BY DEF LedgerOf, Credits, DepositsOf

\* If it has no repetition, no deposit is credited twice.
LEMMA OnceIfInjective ==
  ASSUME TypeOK, \A w \in Watchers : IsInjective(LedgerOf(w))
  PROVE  CreditedOnce
BY LedgerType DEF CreditedOnce, IsInjective

-----------------------------------------------------------------------------
(***************************************************************************)
(* What a watcher that is not restarted keeps: it remembers exactly the    *)
(* transactions it credited, and so does not credit a deposit again.       *)
(***************************************************************************)
RemembersInv ==
  /\ TypeOK
  /\ BlocksApart
  /\ \A w \in Watchers : /\ credited[w] = {d.txid : d \in ToSet(LedgerOf(w))}
                         /\ IsInjective(LedgerOf(w))

\* A poll's finds are remembered, and were not there before.
LEMMA RemembersPoll ==
  ASSUME RemembersInv, NEW w \in Watchers, NEW failed, Polled(w, failed)
  PROVE  \A v \in Watchers : /\ credited'[v] = {d.txid : d \in ToSet(LedgerOf(v)')}
                             /\ IsInjective(LedgerOf(v)')
<1> DEFINE fresh == Found(w, failed)
           ledger == LedgerOf(w)
<1>1. TypeOK /\ chain \in Seq(SUBSET Txs) /\ BlocksApart
  BY DEF RemembersInv, TypeOK
<1>2. /\ SafeHeight \in Nat /\ SafeHeight <= Tip
      /\ scanned_to[w] \in Nat /\ scanned_to[w] < SafeHeight
  BY <1>1, PollStep DEF Polled
<1>3. /\ fresh \in Seq(Deposits) /\ IsInjective(fresh)
      /\ \A d \in ToSet(fresh) : d.txid \notin credited[w]
  BY <1>1, <1>2, FreshAre DEF Found
<1>4. ledger \in Seq(Deposits)
  BY <1>1, LedgerType
<1>5. credited[w] = {d.txid : d \in ToSet(ledger)} /\ IsInjective(ledger)
  BY DEF RemembersInv
<1>6. LedgerOf(w)' = ledger \o fresh /\ \A v \in Watchers : v # w => LedgerOf(v)' = LedgerOf(v)
  BY <1>1, LedgerStep
<1>7. credited' = [credited EXCEPT ![w] = @ \cup {d.txid : d \in ToSet(fresh)}]
  BY DEF Polled, Record
<1>8. credited \in [Watchers -> SUBSET Txs]
  BY <1>1 DEF TypeOK
<1> HIDE DEF fresh, ledger
<1>9. ToSet(ledger \o fresh) = ToSet(ledger) \cup ToSet(fresh)
  BY <1>3, <1>4, EntriesConcat
<1>10. ToSet(ledger) \cap ToSet(fresh) = {}
  BY <1>3, <1>5
<1>11. IsInjective(ledger \o fresh)
  BY <1>3, <1>4, <1>5, <1>10, InjectiveConcat
<1>12. credited'[w] = {d.txid : d \in ToSet(ledger \o fresh)}
  BY <1>5, <1>7, <1>8, <1>9
<1>13. \A v \in Watchers : v # w => credited'[v] = credited[v]
  BY <1>7, <1>8
<1>14. ASSUME NEW v \in Watchers
       PROVE  /\ credited'[v] = {d.txid : d \in ToSet(LedgerOf(v)')}
              /\ IsInjective(LedgerOf(v)')
  <2>1. CASE v = w
    BY <1>6, <1>11, <1>12, <2>1
  <2>2. CASE v # w
    <3>1. LedgerOf(v)' = LedgerOf(v) /\ credited'[v] = credited[v]
      BY <1>6, <1>13, <2>2
    <3>. QED
      BY <3>1 DEF RemembersInv
  <2>. QED
    BY <2>1, <2>2
<1>. QED
  BY <1>14

(***************************************************************************)
(* Every step keeps that, if no watcher restarts: under reorganisations of *)
(* any depth and views that fail.                                          *)
(***************************************************************************)
LEMMA RemembersStep ==
  ASSUME MaxRestarts = 0, RemembersInv, [Next]_vars
  PROVE  RemembersInv'
<1>1. TypeOK /\ BlocksApart
  BY DEF RemembersInv
<1>2. TypeOK'
  BY <1>1, TypeStep
<1>3. CASE Chain \/ UNCHANGED vars
  <2>1. credited' = credited /\ reported' = reported
    BY <1>1, <1>3, ChainStep DEF watcherVars, vars
  <2>2. BlocksApart'
    BY <1>1, <1>3, ChainStep DEF vars, BlocksApart, Tip
  <2>3. \A w \in Watchers : LedgerOf(w)' = LedgerOf(w)
    BY <2>1, LedgerKept
  <2>. QED
    BY <1>2, <2>1, <2>2, <2>3 DEF RemembersInv
<1>4. CASE \E w \in Watchers : \E failed : Polled(w, failed)
  <2>1. PICK w \in Watchers : \E failed : Polled(w, failed)
    BY <1>4
  <2>2. PICK failed : Polled(w, failed)
    BY <2>1
  <2>3. chain' = chain
    BY <2>2 DEF Polled
  <2>4. BlocksApart'
    BY <1>1, <2>3 DEF BlocksApart, Tip
  <2>5. \A v \in Watchers : /\ credited'[v] = {d.txid : d \in ToSet(LedgerOf(v)')}
                            /\ IsInjective(LedgerOf(v)')
    BY <2>2, RemembersPoll
  <2>. QED
    BY <1>2, <2>4, <2>5 DEF RemembersInv
<1>5. ~ \E w \in Watchers : Resume(w)
  BY <1>1 DEF Resume, TypeOK
<1>. QED
  BY <1>1, <1>3, <1>4, <1>5, StepCases

\* At the start nothing is remembered, and nothing was credited.
LEMMA RemembersInit ==
  Init => RemembersInv
<1>1. ASSUME Init, NEW w \in Watchers
      PROVE  LedgerOf(w) = << >> /\ credited[w] = {}
  <2>1. Credits(w) = << >> /\ credited[w] = {}
    BY <1>1, SelectEmpty DEF Init, Credits
  <2>2. DepositsOf(<< >>) = << >>
    BY EmptySeq DEF DepositsOf
  <2>. QED
    BY <2>1, <2>2 DEF LedgerOf
<1>2. IsInjective(<< >>) /\ ToSet(<< >>) = {}
  BY EntriesOfNone DEF IsInjective
<1>3. Init => BlocksApart
  BY DEF Init, BlocksApart, Tip
<1>. QED
  BY <1>1, <1>2, <1>3, TypeInit DEF RemembersInv

(***************************************************************************)
(* A watcher that is not restarted credits no deposit twice, however deep  *)
(* the reorganisations and whichever views fail (CreditedOnce).            *)
(***************************************************************************)
THEOREM CreditedOnceUnlessRestarted ==
  ASSUME MaxRestarts = 0
  PROVE  Spec => []CreditedOnce
<1>1. RemembersInv /\ [Next]_vars => RemembersInv'
  BY RemembersStep
<1>2. RemembersInv => CreditedOnce
  BY OnceIfInjective DEF RemembersInv
<1>. QED
  BY RemembersInit, <1>1, <1>2, PTL DEF Spec

(***************************************************************************)
(* The audit of a watcher that is not restarted fails exactly if something *)
(* it credited is gone (AuditIsExact).                                     *)
(***************************************************************************)
THEOREM AuditExact ==
  ASSUME MaxRestarts = 0
  PROVE  Spec => []AuditIsExact
<1>1. RemembersInv /\ [Next]_vars => RemembersInv'
  BY RemembersStep
<1>2. ASSUME RemembersInv, NEW w \in Watchers
      PROVE  AuditPasses(w) <=> \A i \in DOMAIN Credits(w) : Credits(w)[i].deposit.txid \in MinedTxs
  <2>1. /\ DOMAIN Credits(w) = DOMAIN LedgerOf(w)
        /\ \A i \in DOMAIN Credits(w) : LedgerOf(w)[i] = Credits(w)[i].deposit
    BY <1>2, LedgerType DEF RemembersInv
  <2>2. credited[w] = {d.txid : d \in ToSet(LedgerOf(w))}
    BY <1>2 DEF RemembersInv
  <2>3. ToSet(LedgerOf(w)) = {Credits(w)[i].deposit : i \in DOMAIN Credits(w)}
    BY <2>1 DEF ToSet
  <2>. QED
    BY <2>2, <2>3 DEF AuditPasses
<1>3. RemembersInv => AuditIsExact
  BY <1>2 DEF AuditIsExact
<1>. QED
  BY RemembersInit, <1>1, <1>3, PTL DEF Spec

-----------------------------------------------------------------------------
(***************************************************************************)
(* When reorganisations are shallower than the confirmations and no view   *)
(* fails: what was scanned is final, and was all credited.                 *)
(***************************************************************************)
CreditsThrough(k) == FlattenSeq([h \in 1 .. k |-> Collected(chain[h], Creditable)])

SettledInv ==
  /\ TypeOK
  /\ BlocksApart
  /\ Tip <= highest /\ highest <= Tip + MaxReorg
  /\ \A w \in Watchers :
       /\ scanned_to[w] <= FinalHeight
       /\ LedgerOf(w) = CreditsThrough(scanned_to[w])
       /\ \A tx \in credited[w] : \E h \in 1 .. scanned_to[w] : tx \in chain[h]

(***************************************************************************)
(* A watcher scans final blocks only.                                      *)
(***************************************************************************)
LEMMA SafeIsFinal ==
  ASSUME SettledInv, MaxReorg <= Buried
  PROVE  /\ FinalHeight \in Nat /\ FinalHeight <= Tip /\ Tip \in Nat
         /\ SafeHeight \in Nat /\ SafeHeight <= FinalHeight
<1>1. /\ Tip \in Nat /\ SafeHeight \in Nat /\ SafeHeight <= Tip /\ Buried \in Nat
      /\ SafeHeight > 0 => SafeHeight = Tip - Buried
  BY SafeHeightIs DEF SettledInv, TypeOK
<1>2. highest \in Nat /\ MaxReorg \in Nat /\ Tip <= highest /\ highest <= Tip + MaxReorg
  BY WatcherBoundsAssumption DEF SettledInv, TypeOK
<1>. QED
  BY <1>1, <1>2 DEF FinalHeight

(***************************************************************************)
(* Final blocks stay, and no block stops being final.                      *)
(***************************************************************************)
LEMMA FinalStays ==
  ASSUME SettledInv, MaxReorg <= Buried, Chain
  PROVE  /\ FinalHeight' \in Nat /\ FinalHeight <= FinalHeight'
         /\ Tip' <= highest' /\ highest' <= Tip' + MaxReorg
         /\ \A h \in 1 .. FinalHeight : chain'[h] = chain[h]
<1>1. FinalHeight \in Nat /\ FinalHeight <= Tip /\ Tip \in Nat
  BY SafeIsFinal
<1>2. highest \in Nat /\ MaxReorg \in Nat /\ Tip <= highest /\ highest <= Tip + MaxReorg
  BY WatcherBoundsAssumption DEF SettledInv, TypeOK
<1>3. /\ \A h \in 1 .. Tip : h <= Tip' => chain'[h] = chain[h]
      /\ \/ /\ Tip' = Tip + 1
            /\ highest' = IF Tip + 1 > highest THEN Tip + 1 ELSE highest
         \/ /\ Tip' < Tip /\ highest' = highest
            /\ Tip' >= highest - MaxReorg
      /\ chain' \in Seq(SUBSET Txs)
  BY ChainStep DEF SettledInv
<1>4. Tip' \in Nat
  BY <1>3, LenProperties DEF Tip
<1>5. /\ FinalHeight' \in Nat /\ FinalHeight <= FinalHeight'
      /\ Tip' <= highest' /\ highest' <= Tip' + MaxReorg /\ FinalHeight <= Tip'
  BY <1>1, <1>2, <1>3, <1>4 DEF FinalHeight
<1>6. \A h \in 1 .. FinalHeight : h \in 1 .. Tip /\ h <= Tip'
  BY <1>1, <1>4, <1>5
<1>. QED
  BY <1>3, <1>5, <1>6

\* Flattening logs of deposits in two goes.
LEMMA DepositsSplit ==
  ASSUME NEW m \in Nat, NEW n \in Nat
  PROVE  \A f \in [1 .. m + n -> Seq(Deposits)] :
           FlattenSeq(f) = FlattenSeq([i \in 1 .. m |-> f[i]]) \o FlattenSeq([i \in 1 .. n |-> f[m + i]])
BY FlattenSplit

(***************************************************************************)
(* What a watcher finds is all there is above what it scanned; so what it  *)
(* credits is all there is up to where it scans.                           *)
(***************************************************************************)
LEMMA FoundIsAll ==
  ASSUME SettledInv, MaxReorg <= Buried, NEW w \in Watchers, scanned_to[w] < SafeHeight
  PROVE  CreditsThrough(scanned_to[w]) \o Found(w, {}) = CreditsThrough(SafeHeight)
<1> DEFINE from == scanned_to[w]
           n == SafeHeight - from
           wanted == {d \in Creditable : d.txid \notin credited[w]}
           all == [h \in 1 .. from + n |-> Collected(chain[h], Creditable)]
<1>1. /\ from \in Nat /\ n \in Nat /\ SafeHeight \in Nat /\ Tip \in Nat
      /\ SafeHeight <= Tip /\ from + n = SafeHeight
  BY SafeIsFinal DEF SettledInv, TypeOK
<1>2. /\ BlocksApart
      /\ \A tx \in credited[w] : \E h \in 1 .. from : tx \in chain[h]
  BY DEF SettledInv
<1>3. ASSUME NEW i \in 1 .. n
      PROVE  Collected(chain[from + i], wanted) = Collected(chain[from + i], Creditable)
  <2> DEFINE block == chain[from + i]
             outputs == DepositsIn(block)
  <2>1. outputs \in Seq(Deposits) /\ \A d \in ToSet(outputs) : d.txid \in block
    BY DepositsInAre
  <2>2. \A g \in 1 .. from : g \in 1 .. Tip /\ from + i \in 1 .. Tip /\ g # from + i
    BY <1>1
  <2>3. \A g \in 1 .. from : chain[g] \cap block = {}
    BY <1>2, <2>2 DEF BlocksApart
  <2> HIDE DEF block, outputs
  <2>4. \A d \in ToSet(outputs) : d.txid \notin credited[w]
    BY <1>2, <2>1, <2>3
  <2>5. ToSet(outputs) \cap wanted = ToSet(outputs) \cap Creditable
    BY <2>4
  <2> HIDE DEF wanted
  <2>6. Select(outputs, wanted) = Select(outputs, Creditable)
    BY <2>1, <2>5, SelectSame
  <2>. QED
    BY <2>6 DEF Collected, block, outputs
<1>4. Found(w, {}) = FlattenSeq([i \in 1 .. n |-> Collected(chain[from + i], Creditable)])
  <2>1. Found(w, {}) = FlattenSeq([i \in 1 .. n |-> Collected(chain[from + i], wanted)])
    BY Zenon DEF Found, Fresh
  <2> HIDE DEF n, wanted, from
  <2>2. [i \in 1 .. n |-> Collected(chain[from + i], wanted)]
          = [i \in 1 .. n |-> Collected(chain[from + i], Creditable)]
    BY <1>3, Zenon
  <2>. QED
    BY <2>1, <2>2, Zenon
<1> HIDE DEF wanted, n, from
<1>5. \A h \in 1 .. from + n : all[h] = Collected(chain[h], Creditable)
  OBVIOUS
<1>6. all \in [1 .. from + n -> Seq(Deposits)]
  BY CollectedAre
<1> HIDE DEF all
<1>7. FlattenSeq(all) = FlattenSeq([h \in 1 .. from |-> all[h]])
                          \o FlattenSeq([i \in 1 .. n |-> all[from + i]])
  <2>1. from \in Nat /\ n \in Nat
    BY <1>1
  <2>. QED
    BY <2>1, <1>6, DepositsSplit, Zenon
<1>8. \A h \in 1 .. from : h \in 1 .. from + n
  BY <1>1
<1>9. \A i \in 1 .. n : from + i \in 1 .. from + n
  BY <1>1
<1>10. [h \in 1 .. from |-> all[h]] = [h \in 1 .. from |-> Collected(chain[h], Creditable)]
  BY <1>5, <1>8, Zenon
<1>11. [i \in 1 .. n |-> all[from + i]] = [i \in 1 .. n |-> Collected(chain[from + i], Creditable)]
  BY <1>5, <1>9, Zenon
<1>12. FlattenSeq(all) = CreditsThrough(from) \o Found(w, {})
  BY <1>4, <1>7, <1>10, <1>11, Zenon DEF CreditsThrough
<1>13. FlattenSeq(all) = CreditsThrough(SafeHeight)
  BY <1>1, Zenon DEF CreditsThrough, all
<1>. QED
  BY <1>12, <1>13 DEF from

\* What is credited through a block depends on the blocks through it only.
LEMMA ThroughKept ==
  ASSUME NEW k, \A h \in 1 .. k : chain'[h] = chain[h]
  PROVE  CreditsThrough(k)' = CreditsThrough(k)
<1>1. [h \in 1 .. k |-> Collected(chain'[h], Creditable)] = [h \in 1 .. k |-> Collected(chain[h], Creditable)]
  OBVIOUS
<1>. QED
  BY <1>1 DEF CreditsThrough

(***************************************************************************)
(* Every step keeps what was scanned final and credited: mining and        *)
(* reorganising leave final blocks alone, a poll credits all it scans, a   *)
(* restart forgets only what lies below the height it keeps.               *)
(***************************************************************************)
LEMMA SettledStep ==
  ASSUME MaxFailures = 0, MaxReorg <= Buried, SettledInv, [Next]_vars
  PROVE  SettledInv'
<1>1. TypeOK /\ BlocksApart
  BY DEF SettledInv
<1>2. TypeOK'
  BY <1>1, TypeStep
<1>3. /\ FinalHeight \in Nat /\ SafeHeight \in Nat /\ SafeHeight <= FinalHeight
  BY SafeIsFinal
<1>4. \A v \in Watchers : scanned_to[v] \in Nat /\ scanned_to[v] <= FinalHeight
  BY DEF SettledInv, TypeOK
<1>5. CASE Chain
  <2>1. UNCHANGED <<failures, restarts, watcherVars>> /\ BlocksApart'
    BY <1>1, <1>5, ChainStep
  <2>2. /\ FinalHeight' \in Nat /\ FinalHeight <= FinalHeight'
        /\ Tip' <= highest' /\ highest' <= Tip' + MaxReorg
        /\ \A h \in 1 .. FinalHeight : chain'[h] = chain[h]
    BY <1>5, FinalStays
  <2>3. scanned_to' = scanned_to /\ credited' = credited /\ reported' = reported
    BY <2>1 DEF watcherVars
  <2>4. ASSUME NEW v \in Watchers
        PROVE  /\ scanned_to'[v] <= FinalHeight'
               /\ LedgerOf(v)' = CreditsThrough(scanned_to[v])'
               /\ \A tx \in credited'[v] : \E h \in 1 .. scanned_to'[v] : tx \in chain'[h]
    <3>1. \A h \in 1 .. scanned_to[v] : chain'[h] = chain[h]
      BY <1>3, <1>4, <2>2
    <3>2. CreditsThrough(scanned_to[v])' = CreditsThrough(scanned_to[v])
      BY <2>3, <3>1, ThroughKept DEF CreditsThrough
    <3>3. LedgerOf(v)' = LedgerOf(v)
      BY <2>3, LedgerKept
    <3>4. scanned_to'[v] <= FinalHeight'
      BY <1>3, <1>4, <2>2, <2>3
    <3>5. \A tx \in credited'[v] : \E h \in 1 .. scanned_to'[v] : tx \in chain'[h]
      BY <2>3, <3>1 DEF SettledInv
    <3>. QED
      BY <3>2, <3>3, <3>4, <3>5 DEF SettledInv
  <2>. QED
    BY <1>2, <2>1, <2>2, <2>4 DEF SettledInv
<1>6. CASE \E w \in Watchers : \E failed : Polled(w, failed)
  <2>1. PICK w \in Watchers : \E failed : Polled(w, failed)
    BY <1>6
  <2>2. PICK failed : Polled(w, failed)
    BY <2>1
  <2>3. failed = {}
    BY <1>1, <2>2 DEF Polled, TypeOK
  <2> DEFINE fresh == Found(w, {})
  <2>4. /\ SafeHeight > scanned_to[w]
        /\ scanned_to' = [scanned_to EXCEPT ![w] = SafeHeight]
        /\ credited' = [credited EXCEPT ![w] = @ \cup {d.txid : d \in ToSet(fresh)}]
        /\ chain' = chain /\ highest' = highest
    BY <2>2, <2>3 DEF Polled, Record
  <2>5. LedgerOf(w)' = LedgerOf(w) \o fresh /\ \A v \in Watchers : v # w => LedgerOf(v)' = LedgerOf(v)
    BY <1>1, <2>2, <2>3, LedgerStep
  <2>6. \A k : CreditsThrough(k)' = CreditsThrough(k)
    BY <2>4, ThroughKept
  <2>7. Tip' = Tip /\ FinalHeight' = FinalHeight /\ BlocksApart'
    BY <1>1, <2>4 DEF Tip, FinalHeight, BlocksApart
  <2>8. LedgerOf(w) \o fresh = CreditsThrough(SafeHeight)
    <3>1. scanned_to[w] < SafeHeight
      BY <1>3, <1>4, <2>4
    <3>2. CreditsThrough(scanned_to[w]) \o fresh = CreditsThrough(SafeHeight)
      BY <3>1, FoundIsAll
    <3>3. LedgerOf(w) = CreditsThrough(scanned_to[w])
      BY DEF SettledInv
    <3>. QED
      BY <3>2, <3>3
  <2>9. \A d \in ToSet(fresh) : \E h \in 1 .. SafeHeight : d.txid \in chain[h]
    <3>1. SafeHeight <= Tip /\ scanned_to[w] < SafeHeight /\ chain \in Seq(SUBSET Txs)
      BY <1>1, <1>3, <1>4, <2>4, SafeHeightIs DEF TypeOK
    <3>2. \A d \in ToSet(fresh) : \E h \in scanned_to[w] + 1 .. SafeHeight : d.txid \in chain[h]
      BY <1>3, <1>4, <3>1, FreshAre DEF Found
    <3>3. \A h \in scanned_to[w] + 1 .. SafeHeight : h \in 1 .. SafeHeight
      BY <1>3, <1>4
    <3>. QED
      BY <3>2, <3>3
  <2> HIDE DEF fresh
  <2>10. ASSUME NEW v \in Watchers
         PROVE  /\ scanned_to'[v] <= FinalHeight
                /\ LedgerOf(v)' = CreditsThrough(scanned_to'[v])
                /\ \A tx \in credited'[v] : \E h \in 1 .. scanned_to'[v] : tx \in chain[h]
    <3>1. CASE v = w
      <4>1. scanned_to'[v] = SafeHeight
        BY <1>1, <2>4, <3>1 DEF TypeOK
      <4>2. credited'[v] = credited[w] \cup {d.txid : d \in ToSet(fresh)}
        BY <1>1, <2>4, <3>1 DEF TypeOK
      <4>3. \A tx \in credited[w] : \E h \in 1 .. SafeHeight : tx \in chain[h]
        <5>1. \A tx \in credited[w] : \E h \in 1 .. scanned_to[w] : tx \in chain[h]
          BY DEF SettledInv
        <5>2. \A h \in 1 .. scanned_to[w] : h \in 1 .. SafeHeight
          BY <1>3, <1>4, <2>4
        <5>. QED
          BY <5>1, <5>2
      <4>. QED
        BY <1>3, <2>5, <2>8, <2>9, <3>1, <4>1, <4>2, <4>3
    <3>2. CASE v # w
      <4>1. scanned_to'[v] = scanned_to[v] /\ credited'[v] = credited[v]
        BY <1>1, <2>4, <3>2 DEF TypeOK
      <4>. QED
        BY <2>5, <3>2, <4>1 DEF SettledInv
    <3>. QED
      BY <3>1, <3>2
  <2>11. \A v \in Watchers : CreditsThrough(scanned_to'[v]) = CreditsThrough(scanned_to[v])'
    BY <2>4 DEF CreditsThrough
  <2>. QED
    BY <1>2, <2>4, <2>7, <2>10, <2>11 DEF SettledInv
<1>7. CASE \E w \in Watchers : Resume(w)
  <2>1. PICK w \in Watchers : Resume(w)
    BY <1>7
  <2>2. /\ UNCHANGED <<chain, highest, scanned_to, reported>>
        /\ \A v \in Watchers : credited'[v] \subseteq credited[v]
    BY <1>1, <2>1 DEF Resume, TypeOK
  <2>3. \A v \in Watchers : LedgerOf(v)' = LedgerOf(v)
    BY <2>2, LedgerKept
  <2>4. \A v \in Watchers : CreditsThrough(scanned_to[v])' = CreditsThrough(scanned_to[v])
    BY <2>2 DEF CreditsThrough
  <2>5. Tip' = Tip /\ FinalHeight' = FinalHeight /\ BlocksApart'
    BY <1>1, <2>2 DEF Tip, FinalHeight, BlocksApart
  <2>. QED
    BY <1>2, <2>2, <2>3, <2>4, <2>5 DEF SettledInv
<1>8. CASE UNCHANGED vars
  <2>1. UNCHANGED <<chain, highest, scanned_to, credited, reported>>
    BY <1>8 DEF vars, watcherVars
  <2>2. \A v \in Watchers : LedgerOf(v)' = LedgerOf(v)
    BY <2>1, LedgerKept
  <2>3. \A v \in Watchers : CreditsThrough(scanned_to[v])' = CreditsThrough(scanned_to[v])
    BY <2>1 DEF CreditsThrough
  <2>4. Tip' = Tip /\ FinalHeight' = FinalHeight /\ BlocksApart'
    BY <1>1, <2>1 DEF Tip, FinalHeight, BlocksApart
  <2>. QED
    BY <1>2, <2>1, <2>2, <2>3, <2>4 DEF SettledInv
<1>. QED
  BY <1>1, <1>5, <1>6, <1>7, <1>8, StepCases

(***************************************************************************)
(* At the start nothing is scanned and nothing credited.                   *)
(***************************************************************************)
LEMMA SettledInit ==
  Init => SettledInv
<1>1. Init => TypeOK /\ BlocksApart /\ \A w \in Watchers : LedgerOf(w) = << >> /\ credited[w] = {}
  <2>1. Init => RemembersInv
    BY RemembersInit
  <2>2. ASSUME Init, NEW w \in Watchers
        PROVE  LedgerOf(w) = << >>
    <3>1. Credits(w) = << >>
      BY <2>2, SelectEmpty DEF Init, Credits
    <3>2. DepositsOf(<< >>) = << >>
      BY EmptySeq DEF DepositsOf
    <3>. QED
      BY <3>1, <3>2 DEF LedgerOf
  <2>. QED
    BY <2>1, <2>2 DEF RemembersInv, Init
<1>2. CreditsThrough(0) = << >>
  <2>1. [h \in 1 .. 0 |-> Collected(chain[h], Creditable)] = << >>
    OBVIOUS
  <2>. QED
    BY <2>1, FlattenEmpty DEF CreditsThrough
<1>3. Init => /\ highest = 0 /\ Tip = 0 /\ \A w \in Watchers : scanned_to[w] = 0
  BY DEF Init, Tip
<1>4. Init => FinalHeight = 0
  BY <1>3, WatcherBoundsAssumption DEF FinalHeight
<1>. QED
  BY <1>1, <1>2, <1>3, <1>4, WatcherBoundsAssumption DEF SettledInv

\* What is credited through a block is a log of deposits, each once.
LEMMA ThroughIs ==
  ASSUME NEW k \in Nat
  PROVE  /\ CreditsThrough(k) \in Seq(Deposits)
         /\ BlocksApart /\ Tip \in Nat /\ k <= Tip => IsInjective(CreditsThrough(k))
<1> DEFINE parts == [h \in 1 .. k |-> Collected(chain[h], Creditable)]
<1>1. \A h \in 1 .. k : /\ parts[h] \in Seq(Deposits) /\ IsInjective(parts[h])
                        /\ \A d \in ToSet(parts[h]) : d.txid \in chain[h]
  BY CollectedAre
<1>2. parts = [h \in 1 .. k |-> parts[h]]
  OBVIOUS
<1>3. CreditsThrough(k) = FlattenSeq(parts)
  BY DEF CreditsThrough
<1> HIDE DEF parts
<1>4. parts \in [1 .. k -> Seq(Deposits)]
  BY <1>1, <1>2, Zenon
<1>5. parts \in Seq(Seq(Deposits)) /\ Len(parts) = k
  BY <1>4, FunctionIsSequence
<1>6. ASSUME BlocksApart, Tip \in Nat, k <= Tip
      PROVE  IsInjective(FlattenSeq(parts))
  <2>1. ASSUME NEW g \in 1 .. k, NEW h \in 1 .. k, g # h, NEW d \in ToSet(parts[g])
        PROVE  d \notin ToSet(parts[h])
    <3>1. g \in 1 .. Tip /\ h \in 1 .. Tip
      BY <1>6, <2>1
    <3>2. chain[g] \cap chain[h] = {}
      BY <1>6, <2>1, <3>1 DEF BlocksApart
    <3>. QED
      BY <1>1, <2>1, <3>2
  <2>2. PartsApart(parts)
    BY <1>1, <1>5, <2>1 DEF PartsApart
  <2>. QED
    BY <1>5, <2>2, FlattenInjective
<1>7. FlattenSeq(parts) \in Seq(Deposits)
  BY <1>5, FlattenType
<1>. QED
  BY <1>3, <1>6, <1>7

(***************************************************************************)
(* With reorganisations shallower than the confirmations, and no failed    *)
(* view, no deposit is credited twice however often the watchers restart   *)
(* (CreditedOnce).                                                         *)
(***************************************************************************)
THEOREM CreditedOnceIfSettled ==
  ASSUME MaxFailures = 0, MaxReorg <= Buried
  PROVE  Spec => []CreditedOnce
<1>1. SettledInv /\ [Next]_vars => SettledInv'
  BY SettledStep
<1>2. ASSUME SettledInv
      PROVE  CreditedOnce
  <2>1. FinalHeight \in Nat /\ FinalHeight <= Tip /\ Tip \in Nat /\ BlocksApart /\ TypeOK
    BY <1>2, SafeIsFinal DEF SettledInv
  <2>2. ASSUME NEW w \in Watchers
        PROVE  IsInjective(LedgerOf(w))
    <3>1. scanned_to[w] \in Nat /\ scanned_to[w] <= Tip
      BY <1>2, <2>1 DEF SettledInv, TypeOK
    <3>2. IsInjective(CreditsThrough(scanned_to[w]))
      BY <2>1, <3>1, ThroughIs
    <3>. QED
      BY <1>2, <3>2 DEF SettledInv
  <2>. QED
    BY <2>1, <2>2, OnceIfInjective
<1>. QED
  BY SettledInit, <1>1, <1>2, PTL DEF Spec

-----------------------------------------------------------------------------
(***************************************************************************)
(* The refinement.  The final blocks are what the ledger calls them.       *)
(***************************************************************************)
LEMMA FinalBlocksAre ==
  ASSUME FinalHeight \in Nat
  PROVE  /\ FinalBlocks \in Seq(Seq(Deposits))
         /\ Len(FinalBlocks) = FinalHeight
         /\ \A h \in 1 .. FinalHeight : FinalBlocks[h] = Collected(chain[h], Creditable)
<1>1. FinalBlocks \in [1 .. FinalHeight -> Seq(Deposits)]
  BY CollectedAre, Zenon DEF FinalBlocks
<1>2. FinalBlocks \in Seq(Seq(Deposits)) /\ Len(FinalBlocks) = FinalHeight
  BY <1>1, FunctionIsSequence
<1>3. \A h \in 1 .. FinalHeight : FinalBlocks[h] = Collected(chain[h], Creditable)
  BY Zenon DEF FinalBlocks
<1>. QED
  BY <1>2, <1>3

\* Through(k) of the ledger is CreditsThrough(k), for final blocks.
LEMMA LedgerThrough ==
  ASSUME FinalHeight \in Nat, NEW k \in 0 .. FinalHeight
  PROVE  Ledger!Through(k) = CreditsThrough(k)
<1>1. /\ FinalBlocks \in Seq(Seq(Deposits)) /\ Len(FinalBlocks) = FinalHeight
      /\ \A h \in 1 .. FinalHeight : FinalBlocks[h] = Collected(chain[h], Creditable)
  BY FinalBlocksAre
<1> DEFINE first == SubSeq(FinalBlocks, 1, k)
<1>2. first = [h \in 1 .. k |-> FinalBlocks[h]]
  <2>1. first = [h \in 1 .. k |-> FinalBlocks[1 + h - 1]]
    BY <1>1, SMT
  <2>2. \A h \in 1 .. k : 1 + h - 1 = h
    OBVIOUS
  <2> HIDE DEF first
  <2>. QED
    BY <2>1, <2>2
<1>3. \A h \in 1 .. k : h \in 1 .. FinalHeight
  OBVIOUS
<1> HIDE DEF first
<1>4. first = [h \in 1 .. k |-> Collected(chain[h], Creditable)]
  BY <1>1, <1>2, <1>3, Zenon
<1>5. \A s : Ledger!FlattenSeq(s) = FlattenSeq(s)
  BY Zenon DEF Ledger!FlattenSeq, FlattenSeq
<1>6. Ledger!Through(k) = Ledger!FlattenSeq(first)
  BY DEF Ledger!Through, first
<1>. QED
  BY <1>4, <1>5, <1>6, Zenon DEF CreditsThrough

(***************************************************************************)
(* The two spellings of a strict prefix are one.                           *)
(***************************************************************************)
LEMMA LedgerPrefix ==
  \A s, t : Ledger!IsStrictPrefix(s, t) <=> IsPrefix(s, t) /\ s # t
BY DEF Ledger!IsStrictPrefix, Ledger!IsPrefix, IsPrefix

LedgerNow == [w \in Watchers |-> DepositsOf(Credits(w))]

(***************************************************************************)
(* A step of the chain makes blocks final or does nothing to the ledger.   *)
(***************************************************************************)
LEMMA ChainFinalizes ==
  ASSUME SettledInv, MaxReorg <= Buried, Chain
  PROVE  Ledger!Finalize \/ UNCHANGED <<FinalBlocks, LedgerNow>>
<1>1. FinalHeight \in Nat /\ FinalHeight' \in Nat /\ FinalHeight <= FinalHeight'
  BY SafeIsFinal, FinalStays
<1>2. \A h \in 1 .. FinalHeight : chain'[h] = chain[h]
  BY FinalStays
<1>3. reported' = reported
  BY ChainStep DEF SettledInv, watcherVars
<1>4. LedgerNow' = LedgerNow
  BY <1>3 DEF LedgerNow, Credits, DepositsOf
<1>5. /\ FinalBlocks \in Seq(Seq(Deposits)) /\ Len(FinalBlocks) = FinalHeight
      /\ \A h \in 1 .. FinalHeight : FinalBlocks[h] = Collected(chain[h], Creditable)
  BY <1>1, FinalBlocksAre
<1>6. /\ FinalBlocks' \in [1 .. FinalHeight' -> Seq(Deposits)]
      /\ \A h \in 1 .. FinalHeight' : FinalBlocks'[h] = Collected(chain'[h], Creditable)
  <2>1. FinalBlocks' = [h \in 1 .. FinalHeight' |-> Collected(chain'[h], Creditable)]
    BY DEF FinalBlocks
  <2>. QED
    BY <2>1, CollectedAre, Zenon
<1>7. FinalBlocks' \in Seq(Seq(Deposits)) /\ Len(FinalBlocks') = FinalHeight'
  BY <1>1, <1>6, FunctionIsSequence
<1>8. \A h \in 1 .. FinalHeight : h \in 1 .. FinalHeight'
  BY <1>1
<1>9. \A h \in 1 .. FinalHeight : FinalBlocks'[h] = FinalBlocks[h]
  BY <1>2, <1>5, <1>6, <1>8
<1>10. IsPrefix(FinalBlocks, FinalBlocks')
  BY <1>1, <1>5, <1>7, <1>9, PrefixIs
<1>11. FinalBlocks # FinalBlocks' => Ledger!IsStrictPrefix(FinalBlocks, FinalBlocks')
  BY <1>10, LedgerPrefix, Zenon
<1>. QED
  BY <1>4, <1>11 DEF Ledger!Finalize, LedgerNow

(***************************************************************************)
(* A poll credits whole final blocks, or nothing.                          *)
(***************************************************************************)
LEMMA PollCredits ==
  ASSUME SettledInv, MaxFailures = 0, MaxReorg <= Buried,
         NEW w \in Watchers, NEW failed, Polled(w, failed)
  PROVE  Ledger!Credit(w) \/ UNCHANGED <<FinalBlocks, LedgerNow>>
<1> DEFINE fresh == Found(w, {})
           ledger == LedgerOf(w)
<1>1. failed = {}
  BY DEF Polled, SettledInv, TypeOK
<1>2. /\ FinalHeight \in Nat /\ SafeHeight \in 0 .. FinalHeight
      /\ scanned_to[w] \in Nat /\ scanned_to[w] < SafeHeight
  BY SafeIsFinal DEF SettledInv, TypeOK, Polled
<1>3. /\ LedgerOf(w)' = ledger \o fresh
      /\ \A v \in Watchers : v # w => LedgerOf(v)' = LedgerOf(v)
  BY <1>1, LedgerStep DEF SettledInv
<1>4. ledger \o fresh = CreditsThrough(SafeHeight)
  BY <1>2, FoundIsAll DEF SettledInv
<1>5. ledger \in Seq(Deposits) /\ fresh \in Seq(Deposits)
  BY <1>1, PollStep, LedgerType DEF SettledInv
<1>6. FinalBlocks' = FinalBlocks
  BY DEF Polled, FinalBlocks, FinalHeight
<1>7. Ledger!Through(SafeHeight) = CreditsThrough(SafeHeight)
  BY <1>2, LedgerThrough
<1> HIDE DEF fresh, ledger
<1>8. LedgerNow' = [LedgerNow EXCEPT ![w] = ledger \o fresh]
  <2>1. LedgerNow = [v \in Watchers |-> LedgerOf(v)]
    BY DEF LedgerNow, LedgerOf
  <2>2. LedgerNow' = [v \in Watchers |-> LedgerOf(v)']
    BY DEF LedgerNow, LedgerOf
  <2>. QED
    BY <1>3, <2>1, <2>2
<1>9. LedgerNow[w] = ledger
  BY Zenon DEF LedgerNow, LedgerOf, ledger
<1>10. CASE fresh = << >>
  <2>1. ledger \o fresh = ledger
    BY <1>5, <1>10, ConcatEmptySeq
  <2>2. LedgerNow' = LedgerNow
    BY <1>8, <1>9, <2>1, Zenon DEF LedgerNow
  <2>. QED
    BY <1>6, <2>2
<1>11. CASE fresh # << >>
  <2>1. Len(fresh) \in Nat \ {0} /\ Len(ledger) \in Nat
    BY <1>5, <1>11, EmptySeq, LenProperties
  <2>2. /\ ledger \o fresh \in Seq(Deposits)
        /\ Len(ledger \o fresh) = Len(ledger) + Len(fresh)
        /\ \A i \in 1 .. Len(ledger) : (ledger \o fresh)[i] = ledger[i]
    BY <1>5, <2>1, ConcatProperties
  <2>3. IsPrefix(ledger, ledger \o fresh)
    <3>1. \A s, t \in Seq(Deposits) :
            Len(s) <= Len(t) /\ (\A i \in 1 .. Len(s) : t[i] = s[i]) => IsPrefix(s, t)
      BY PrefixIs
    <3>2. Len(ledger) <= Len(ledger \o fresh)
      BY <2>1, <2>2
    <3>. QED
      BY <1>5, <2>2, <3>1, <3>2, Zenon
  <2>4. ledger # ledger \o fresh
    BY <2>1, <2>2
  <2>5. Ledger!IsStrictPrefix(LedgerNow[w], Ledger!Through(SafeHeight))
    BY <1>4, <1>7, <1>9, <2>3, <2>4, LedgerPrefix
  <2>6. SafeHeight \in 0 .. Len(FinalBlocks)
    BY <1>2, FinalBlocksAre
  <2>7. LedgerNow' = [LedgerNow EXCEPT ![w] = Ledger!Through(SafeHeight)]
    BY <1>4, <1>7, <1>8
  <2>. QED
    BY <1>6, <2>5, <2>6, <2>7 DEF Ledger!Credit, LedgerNow
<1>. QED
  BY <1>10, <1>11

(***************************************************************************)
(* With reorganisations shallower than the confirmations, and no failed    *)
(* view, the watchers implement the ledger of final deposits, whenever     *)
(* they poll and restart: all watchers of a chain credit the same deposits *)
(* under the same indices (ImplementsDepositLedger).                       *)
(***************************************************************************)
THEOREM WatchersImplementLedger ==
  ASSUME MaxFailures = 0, MaxReorg <= Buried
  PROVE  Spec => ImplementsDepositLedger
<1>1. Init => Ledger!Init
  <2>1. ASSUME Init
        PROVE  FinalBlocks = << >> /\ \A w \in Watchers : DepositsOf(Credits(w)) = << >>
    <3>1. FinalHeight = 0
      BY <2>1, WatcherBoundsAssumption DEF Init, FinalHeight
    <3>2. FinalBlocks = << >>
      BY <3>1 DEF FinalBlocks
    <3>3. CreditsThrough(0) = << >>
      BY FlattenEmpty DEF CreditsThrough
    <3>4. \A w \in Watchers : LedgerOf(w) = CreditsThrough(0)
      BY <2>1, SettledInit DEF SettledInv, Init
    <3>. QED
      BY <3>2, <3>3, <3>4 DEF LedgerOf
  <2>. QED
    BY <2>1, Zenon DEF Ledger!Init
<1>2. SettledInv /\ [Next]_vars => SettledInv'
  BY SettledStep
<1>3. SettledInv /\ [Next]_vars => [Ledger!Next]_<<FinalBlocks, LedgerNow>>
  <2> SUFFICES ASSUME SettledInv, [Next]_vars
               PROVE  Ledger!Next \/ UNCHANGED <<FinalBlocks, LedgerNow>>
    OBVIOUS
  <2>1. CASE Chain
    BY <2>1, ChainFinalizes DEF Ledger!Next
  <2>2. CASE \E w \in Watchers : \E failed : Polled(w, failed)
    BY <2>2, PollCredits DEF Ledger!Next
  <2>3. CASE (\E w \in Watchers : Resume(w)) \/ UNCHANGED vars
    BY <2>3 DEF Resume, vars, watcherVars, FinalBlocks, FinalHeight, LedgerNow, Credits, DepositsOf
  <2>. QED
    BY <2>1, <2>2, <2>3, StepCases DEF SettledInv
<1>. QED
  BY SettledInit, <1>1, <1>2, <1>3, PTL DEF Spec, ImplementsDepositLedger, Ledger!Spec, LedgerNow

-----------------------------------------------------------------------------
(***************************************************************************)
(* What is credited of an asset through a block is covered by the balance  *)
(* at the block, which counts the deposits that are not creditable too.    *)
(***************************************************************************)
LEMMA BalanceCovers ==
  ASSUME NEW k \in Nat, NEW asset
  PROVE  Total(Select(CreditsThrough(k), OfAsset(asset))) <= Balance(asset, k)
<1> DEFINE parts == [h \in 1 .. k |-> DepositsIn(chain[h])]
           all == FlattenSeq(parts)
           wanted == OfAsset(asset)
<1>1. parts \in [1 .. k -> Seq(Deposits)]
  BY DepositsInAre
<1>2. parts \in Seq(Seq(Deposits)) /\ Len(parts) = k
  BY <1>1, FunctionIsSequence
<1>3. \A h \in 1 .. k : Select(parts[h], Creditable) = Collected(chain[h], Creditable)
  BY DEF Collected
<1>4. Balance(asset, k) = Total(Select(all, wanted))
  BY DEF Balance
<1> HIDE DEF parts, wanted
<1>5. all \in Seq(Deposits)
  BY <1>2, FlattenType
<1>6. Select(all, Creditable) = FlattenSeq([h \in 1 .. k |-> Select(parts[h], Creditable)])
  <2>1. Select(all, Creditable) = FlattenSeq([h \in 1 .. Len(parts) |-> Select(parts[h], Creditable)])
    BY <1>2, SelectFlatten
  <2>. QED
    BY <1>2, <2>1
<1>7. [h \in 1 .. k |-> Select(parts[h], Creditable)] = [h \in 1 .. k |-> Collected(chain[h], Creditable)]
  BY <1>3, Zenon
<1>8. CreditsThrough(k) = Select(all, Creditable)
  BY <1>6, <1>7, Zenon DEF CreditsThrough
<1> HIDE DEF all
<1>9. Select(Select(all, Creditable), wanted) = Select(all, Creditable \cap wanted)
  BY <1>5, SelectTwice
<1>10. Select(Select(all, wanted), Creditable) = Select(all, wanted \cap Creditable)
  BY <1>5, SelectTwice
<1>11. wanted \cap Creditable = Creditable \cap wanted
  OBVIOUS
<1>12. Select(all, wanted) \in Seq(Deposits)
  BY <1>5, SelectType
<1>13. Total(Select(Select(all, wanted), Creditable)) <= Total(Select(all, wanted))
  BY <1>12, DepositsAre, TotalSelect
<1>14. Select(CreditsThrough(k), wanted) = Select(Select(all, wanted), Creditable)
  BY <1>8, <1>9, <1>10, <1>11, Zenon
<1>. QED
  BY <1>4, <1>13, <1>14 DEF wanted

(***************************************************************************)
(* The deposits of the credits of an asset are the deposits of that asset  *)
(* among those of all credits.                                             *)
(***************************************************************************)
LEMMA CreditsOfAsset ==
  ASSUME NEW s \in Seq(Action), NEW asset
  PROVE  /\ Select(s, CreditActions) \in Seq(CreditActions)
         /\ DepositsOf(Select(s, CreditsOf(asset)))
              = Select(DepositsOf(Select(s, CreditActions)), OfAsset(asset))
         /\ DepositsOf(Select(s, CreditsOf(asset))) \in Seq(Deposits)
<1> DEFINE c == Select(s, CreditActions)
           T == CreditsOf(asset)
           U == OfAsset(asset)
<1>1. c \in Seq(Action) /\ ToSet(c) = ToSet(s) \cap CreditActions
  BY SelectType, SelectEntries
<1> HIDE DEF c
<1>2. c \in Seq(CreditActions)
  <2>1. Len(c) \in Nat /\ DOMAIN c = 1 .. Len(c) /\ c \in [1 .. Len(c) -> Action]
    BY <1>1, LenProperties
  <2>2. \A i \in 1 .. Len(c) : c[i] \in ToSet(c)
    BY <2>1, Zenon DEF ToSet
  <2>3. c \in [1 .. Len(c) -> CreditActions]
    BY <1>1, <2>1, <2>2
  <2>. QED
    BY <2>1, <2>3, FunctionIsSequence
<1>3. Select(s, T) = Select(c, T)
  <2>1. CreditActions \cap T = T
    BY DEF CreditsOf
  <2>2. Select(c, T) = Select(s, CreditActions \cap T)
    BY SelectTwice DEF c
  <2>. QED
    BY <2>1, <2>2
<1>4. \A e \in CreditActions : e \in T <=> DepositOf[e] \in U
  <2>1. \A e \in CreditActions : DepositOf[e] = e.deposit /\ e.deposit \in Deposits
    BY DepositOfMaps DEF Maps
  <2>. QED
    BY <2>1 DEF CreditsOf, OfAsset
<1>5. Select(c, T) \in Seq(CreditActions)
  BY <1>2, SelectType
<1>6. DepositsOf(Select(c, T)) = Mapped(DepositOf, Select(c, T)) /\ DepositsOf(c) = Mapped(DepositOf, c)
  BY <1>2, <1>5, DepositsOfIsMapped
<1> HIDE DEF T, U
<1>7. Mapped(DepositOf, Select(c, T)) = Select(Mapped(DepositOf, c), U)
  <2>1. Maps(DepositOf, CreditActions, Deposits)
    BY DepositOfMaps
  <2>. QED
    BY <1>2, <1>4, <2>1, MappedSelect
<1>8. DepositsOf(Select(c, T)) \in Seq(Deposits)
  BY <1>5, DepositsOfType
<1>. QED
  BY <1>2, <1>3, <1>6, <1>7, <1>8 DEF c, T, U

(***************************************************************************)
(* What was credited of an asset grows with the log.                       *)
(***************************************************************************)
LEMMA CreditsGrow ==
  ASSUME NEW s \in Seq(Action), NEW t \in Seq(Action), NEW asset
  PROVE  Total(DepositsOf(Select(s, CreditsOf(asset))))
           <= Total(DepositsOf(Select(s \o t, CreditsOf(asset))))
<1> DEFINE T == CreditsOf(asset)
           a == Select(s, T)
           b == Select(t, T)
<1>1. Select(s \o t, T) = a \o b
  BY SelectConcat
<1>2. \A u \in Seq(Action) : Select(u, T) \in Seq(CreditActions)
  <2>1. \A u \in Seq(Action) : /\ Select(u, CreditActions) \in Seq(CreditActions)
                               /\ Select(Select(u, CreditActions), T) = Select(u, CreditActions \cap T)
    BY CreditsOfAsset, SelectTwice
  <2>2. CreditActions \cap T = T
    BY DEF CreditsOf
  <2> HIDE DEF T
  <2>3. \A u \in Seq(CreditActions) : Select(u, T) \in Seq(CreditActions)
    BY SelectType
  <2>. QED
    BY <2>1, <2>2, <2>3
<1>3. a \in Seq(CreditActions) /\ b \in Seq(CreditActions)
  BY <1>2
<1> HIDE DEF a, b
<1>4. DepositsOf(a \o b) = DepositsOf(a) \o DepositsOf(b)
  BY <1>3, DepositsOfConcat
<1>5. DepositsOf(a) \in Seq(Deposits) /\ DepositsOf(b) \in Seq(Deposits)
  BY <1>3, DepositsOfType
<1>6. \A d \in Deposits : d.amount \in Nat
  BY DepositsAre
<1>7. Total(DepositsOf(a) \o DepositsOf(b)) = Total(DepositsOf(a)) + Total(DepositsOf(b))
  BY <1>5, <1>6, TotalConcat
<1>8. Total(DepositsOf(a)) \in Nat /\ Total(DepositsOf(b)) \in Nat
  BY <1>5, <1>6, TotalNat
<1>9. Total(DepositsOf(a)) <= Total(DepositsOf(a \o b))
  BY <1>4, <1>7, <1>8
<1>. QED
  BY <1>1, <1>9 DEF a, b

(***************************************************************************)
(* The observations of a batch: every asset it credits is observed, each   *)
(* at its balance.                                                         *)
(***************************************************************************)
LEMMA EachObserved ==
  ASSUME NEW safe \in Nat, NEW fresh \in Seq(Deposits), NEW d \in ToSet(fresh)
  PROVE  LET seen == Select(Observations(safe, fresh), AttestsOf(d.asset))
         IN /\ ToSet(seen) # {}
            /\ \A a \in ToSet(seen) : a.observed = Balance(d.asset, safe)
<1> DEFINE others == Others(fresh)
           first == <<Attest(BridgeAsset, safe)>>
           rest == [i \in 1 .. Len(others) |-> Attest(others[i], safe)]
           o == Observations(safe, fresh)
<1>1. others \in Seq(Assets) /\ ToSet(others) = {e.asset : e \in ToSet(fresh)} \ {BridgeAsset}
  BY OthersAre
<1> HIDE DEF others
<1>2. Len(others) \in Nat /\ DOMAIN others = 1 .. Len(others)
      /\ \A i \in 1 .. Len(others) : others[i] \in Assets
  BY <1>1, LenProperties, ElementOfSeq
<1>3. rest \in [1 .. Len(others) -> AttestActions]
  BY <1>2, AttestIs
<1>4. ToSet(rest) = {Attest(others[i], safe) : i \in 1 .. Len(others)}
  BY Zenon DEF ToSet
<1>5. ToSet(rest) = {Attest(b, safe) : b \in ToSet(others)}
  BY <1>2, <1>4, Zenon DEF ToSet
<1> HIDE DEF rest
<1>6. rest \in Seq(AttestActions)
  BY <1>2, <1>3, FunctionIsSequence
<1>7. first \in Seq(AttestActions) /\ ToSet(first) = {Attest(BridgeAsset, safe)}
  <2>1. Attest(BridgeAsset, safe) \in AttestActions
    BY AttestIs
  <2>2. DOMAIN first = {1} /\ first[1] = Attest(BridgeAsset, safe)
    OBVIOUS
  <2>. QED
    BY <2>1, <2>2 DEF ToSet
<1> HIDE DEF first
<1>8. o = first \o rest
  BY DEF Observations, first, rest, others
<1> HIDE DEF o
<1>9. o \in Seq(AttestActions) /\ ToSet(o) = ToSet(first) \cup ToSet(rest)
  BY <1>6, <1>7, <1>8, EntriesConcat, ConcatProperties
<1>10. ToSet(Select(o, AttestsOf(d.asset))) = ToSet(o) \cap AttestsOf(d.asset)
  BY <1>9, SelectEntries
<1>11. \A e \in ToSet(o) : \E b \in Assets \cup {BridgeAsset} : e = Attest(b, safe)
  <2>1. \A b \in ToSet(others) : b \in Assets
    BY <1>1, EntriesAre
  <2>. QED
    BY <1>5, <1>7, <1>9, <2>1
<1>12. \A b \in Assets \cup {BridgeAsset} : /\ Attest(b, safe) \in AttestActions
                                            /\ Attest(b, safe).asset = b
                                            /\ Attest(b, safe).observed = Balance(b, safe)
  BY AttestIs
<1>13. \A e \in ToSet(o) \cap AttestsOf(d.asset) : e.observed = Balance(d.asset, safe)
  <2>1. \A e \in AttestsOf(d.asset) : e.asset = d.asset
    BY DEF AttestsOf
  <2>. QED
    BY <1>11, <1>12, <2>1
<1>14. d.asset \in Assets
  BY EntriesAre DEF Assets
<1>15. Attest(d.asset, safe) \in ToSet(o)
  <2>1. CASE d.asset = BridgeAsset
    BY <1>7, <1>9, <2>1
  <2>2. CASE d.asset # BridgeAsset
    <3>1. d.asset \in ToSet(others)
      BY <1>1, <2>2
    <3>. QED
      BY <1>5, <1>9, <3>1
  <2>. QED
    BY <2>1, <2>2
<1>16. Attest(d.asset, safe) \in AttestsOf(d.asset)
  BY <1>12, <1>14 DEF AttestsOf
<1>. QED
  BY <1>10, <1>13, <1>15, <1>16 DEF o

\* The last entry of a log that is not empty is one of its entries.
LEMMA LastIs ==
  ASSUME NEW S, NEW s \in Seq(S), s # << >>
  PROVE  Last(s) \in ToSet(s)
<1>1. Len(s) \in Nat \ {0} /\ DOMAIN s = 1 .. Len(s)
  BY EmptySeq, LenProperties
<1>2. Len(s) \in DOMAIN s
  BY <1>1
<1>. QED
  BY <1>2, Zenon DEF Last, ToSet

\* The last entry of two logs in a row is that of the second, if it has one.
LEMMA LastOfConcat ==
  ASSUME NEW S, NEW s \in Seq(S), NEW t \in Seq(S), t # << >>
  PROVE  s \o t # << >> /\ Last(s \o t) = Last(t)
<1>1. Len(s) \in Nat /\ Len(t) \in Nat \ {0}
  BY EmptySeq, LenProperties
<1>2. /\ s \o t \in Seq(S) /\ Len(s \o t) = Len(s) + Len(t)
      /\ \A i \in 1 .. Len(s) + Len(t) : (s \o t)[i] = IF i <= Len(s) THEN s[i] ELSE t[i - Len(s)]
  BY ConcatProperties
<1>3. Len(s) + Len(t) \in 1 .. Len(s) + Len(t) /\ ~ (Len(s) + Len(t) <= Len(s))
      /\ Len(s) + Len(t) - Len(s) = Len(t)
  BY <1>1
<1>4. (s \o t)[Len(s) + Len(t)] = t[Len(t)]
  BY <1>2, <1>3
<1>5. s \o t # << >>
  BY <1>1, <1>2, EmptySeq
<1>. QED
  BY <1>2, <1>4, <1>5 DEF Last

\* Selecting from two reports in a row.
LEMMA ReportsConcat ==
  ASSUME NEW T
  PROVE  \A s, t \in Seq(Action) : Select(s \o t, T) = Select(s, T) \o Select(t, T)
BY SelectConcat

(***************************************************************************)
(* The last attestation of an asset, in a report that ends with a batch's  *)
(* observations and some of its credits, is the batch's.                   *)
(***************************************************************************)
LEMMA LastObserved ==
  ASSUME NEW safe \in Nat, NEW fresh \in Seq(Deposits), NEW d \in ToSet(fresh),
         NEW r \in Seq(Action), NEW c \in Seq(CreditActions),
         Observations(safe, fresh) \in Seq(AttestActions)
  PROVE  LET attests == Select(r \o (Observations(safe, fresh) \o c), AttestsOf(d.asset))
         IN attests # << >> /\ Last(attests).observed = Balance(d.asset, safe)
<1> DEFINE o == Observations(safe, fresh)
           T == AttestsOf(d.asset)
           seen == Select(o, T)
<1>1. ToSet(seen) # {} /\ \A a \in ToSet(seen) : a.observed = Balance(d.asset, safe)
  BY EachObserved
<1>2. AttestActions \subseteq Action /\ CreditActions \subseteq Action
  BY DEF Action
<1>3. o \in Seq(Action) /\ c \in Seq(Action)
  BY <1>2, SeqMonotonic
<1>4. ToSet(c) \cap T = {}
  <2>1. ToSet(c) \subseteq CreditActions
    BY EntriesAre
  <2>. QED
    BY <2>1, KindsApart DEF AttestsOf
<1> HIDE DEF o, T
<1>5. Select(c, T) = << >>
  BY <1>3, <1>4, SelectNone
<1>6. seen \in Seq(Action)
  BY <1>3, SelectType
<1>7. o \o c \in Seq(Action)
  BY <1>3, ConcatProperties
<1>8. Select(o \o c, T) = seen
  <2>1. Select(o \o c, T) = seen \o Select(c, T)
    BY <1>3, SelectConcat
  <2>2. seen \o << >> = seen
    BY <1>6, ConcatEmptySeq
  <2>. QED
    BY <1>5, <2>1, <2>2
<1>9. Select(r \o (o \o c), T) = Select(r, T) \o seen
  <2> DEFINE oc == o \o c
  <2>1. oc \in Seq(Action) /\ r \in Seq(Action) /\ Select(oc, T) = seen
    BY <1>7, <1>8
  <2> HIDE DEF oc, seen
  <2>2. Select(r \o oc, T) = Select(r, T) \o Select(oc, T)
    BY <2>1, ReportsConcat, Zenon
  <2>. QED
    BY <2>1, <2>2 DEF oc
<1>10. seen # << >>
  BY <1>1, EntriesOfNone
<1>11. Select(r, T) \in Seq(Action)
  BY SelectType
<1> HIDE DEF seen
<1>12. /\ Select(r, T) \o seen # << >>
       /\ Last(Select(r, T) \o seen) = Last(seen)
  BY <1>6, <1>10, <1>11, LastOfConcat
<1>13. Last(seen) \in ToSet(seen)
  BY <1>6, <1>10, LastIs
<1>. QED
  BY <1>1, <1>9, <1>12, <1>13 DEF o, T

(***************************************************************************)
(* The n-th entry of a report: if it is a credit, its asset was observed,  *)
(* and what was credited by then is no more than observed last.            *)
(***************************************************************************)
CoveredAt(report, n) ==
  LET before == SubSeq(report, 1, n)
      asset == report[n].deposit.asset
      attests == Select(before, AttestsOf(asset))
  IN report[n] \in CreditActions =>
       /\ attests # << >>
       /\ Total(DepositsOf(Select(before, CreditsOf(asset)))) <= Last(attests).observed

CoveredInv == SettledInv /\ CreditsCovered

\* A longer report has the same entries so far.
LEMMA CoveredStays ==
  ASSUME NEW r \in Seq(Action), NEW g \in Seq(Action), NEW n \in 1 .. Len(r)
  PROVE  CoveredAt(r \o g, n) <=> CoveredAt(r, n)
<1>1. Len(r) \in Nat /\ Len(g) \in Nat
  BY LenProperties
<1>2. /\ r \o g \in Seq(Action) /\ Len(r \o g) = Len(r) + Len(g)
      /\ \A i \in 1 .. Len(r) + Len(g) : (r \o g)[i] = IF i <= Len(r) THEN r[i] ELSE g[i - Len(r)]
  BY ConcatProperties
<1>3. (r \o g)[n] = r[n]
  BY <1>1, <1>2
<1>4. SubSeq(r \o g, 1, n) = SubSeq(r, 1, n)
  BY <1>1, SubSeqOfConcat1
<1>. QED
  BY <1>3, <1>4, Zenon DEF CoveredAt

(***************************************************************************)
(* The entries a poll appends are covered: credits come after an           *)
(* observation of their asset at the height the poll scanned to, and all   *)
(* that was credited is deposits through that height.                      *)
(***************************************************************************)
LEMMA CoveredBatch ==
  ASSUME SettledInv, MaxFailures = 0, MaxReorg <= Buried,
         NEW w \in Watchers, NEW failed, Polled(w, failed),
         NEW n \in 1 .. Len(reported'[w]), n > Len(reported[w])
  PROVE  CoveredAt(reported'[w], n)
<1> DEFINE fresh == Found(w, {})
           r == reported[w]
           o == Observations(SafeHeight, fresh)
           c == Numbered(next_index[w], fresh)
           g == Given(w, SafeHeight, fresh)
           report == reported'[w]
<1>1. failed = {}
  BY DEF Polled, SettledInv, TypeOK
<1>2. /\ SafeHeight \in Nat /\ scanned_to[w] \in Nat /\ scanned_to[w] < SafeHeight
      /\ fresh \in Seq(Deposits) /\ g \in Seq(Action) /\ c \in Seq(CreditActions)
  BY <1>1, PollStep DEF SettledInv, Polled
<1>3. r \in Seq(Action) /\ report = r \o g
  BY <1>1 DEF SettledInv, TypeOK, Polled
<1>4. Len(r) \in Nat /\ Len(g) \in Nat /\ Len(report) = Len(r) + Len(g)
  <2> HIDE DEF r, g, report
  <2>. QED
    BY <1>2, <1>3, LenProperties, ConcatProperties
<1>5. fresh # << >>
  <2>1. SUFFICES ASSUME fresh = << >> PROVE FALSE
    OBVIOUS
  <2>2. g = << >>
    BY <2>1, Zenon DEF Given
  <2>3. Len(g) = 0
    BY <2>2
  <2>. QED
    BY <1>4, <2>3
<1>6. g = o \o c /\ o \in Seq(AttestActions) /\ Len(c) = Len(fresh)
  <2>1. next_index[w] \in Nat \ {0}
    BY DEF SettledInv, TypeOK
  <2> HIDE DEF fresh
  <2>. QED
    BY <1>2, <1>5, <2>1, BatchParts DEF Given
<1> SUFFICES ASSUME report[n] \in CreditActions
             PROVE  LET before == SubSeq(report, 1, n)
                        asset == report[n].deposit.asset
                        attests == Select(before, AttestsOf(asset))
                    IN /\ attests # << >>
                       /\ Total(DepositsOf(Select(before, CreditsOf(asset)))) <= Last(attests).observed
  BY Zenon DEF CoveredAt
<1>7. LedgerOf(w)' = CreditsThrough(SafeHeight)
  <2>1. LedgerOf(w)' = LedgerOf(w) \o fresh
    BY <1>1, LedgerStep DEF SettledInv
  <2>2. CreditsThrough(scanned_to[w]) \o fresh = CreditsThrough(SafeHeight)
    BY <1>2, FoundIsAll
  <2>. QED
    BY <2>1, <2>2 DEF SettledInv
<1>8. LedgerOf(w)' = DepositsOf(Select(report, CreditActions))
  BY DEF LedgerOf, Credits, DepositsOf
<1>9. \A i \in 1 .. Len(fresh) : c[i].deposit = fresh[i] /\ fresh[i] \in ToSet(fresh)
  <2>1. DOMAIN fresh = 1 .. Len(fresh)
    BY <1>2, LenProperties
  <2>. QED
    BY <2>1, Zenon DEF Numbered, ToSet
<1> HIDE DEF fresh, r, o, c, g, report
<1>10. AttestActions \subseteq Action /\ CreditActions \subseteq Action
  BY DEF Action
<1>11. o \in Seq(Action) /\ c \in Seq(Action)
  BY <1>2, <1>6, <1>10, SeqMonotonic
<1>12. Len(o) \in Nat /\ Len(c) \in Nat /\ Len(g) = Len(o) + Len(c)
  BY <1>6, <1>11, LenProperties, ConcatProperties
<1> DEFINE k == n - Len(r)
           j == k - Len(o)
<1>13. k \in 1 .. Len(g) /\ n = Len(r) + k
  BY <1>4 DEF report, r
<1>14. report[n] = g[k]
  <2>1. \A i \in 1 .. Len(r) + Len(g) : (r \o g)[i] = IF i <= Len(r) THEN r[i] ELSE g[i - Len(r)]
    BY <1>2, <1>3, ConcatProperties
  <2>. QED
    BY <1>3, <1>4, <1>13, <2>1
<1>15. g[k] = IF k <= Len(o) THEN o[k] ELSE c[j]
  <2>1. \A i \in 1 .. Len(o) + Len(c) : (o \o c)[i] = IF i <= Len(o) THEN o[i] ELSE c[i - Len(o)]
    BY <1>11, ConcatProperties
  <2>. QED
    BY <1>6, <1>12, <1>13, <2>1
<1>16. ~ (k <= Len(o))
  <2>1. SUFFICES ASSUME k <= Len(o) PROVE FALSE
    OBVIOUS
  <2>2. k \in 1 .. Len(o)
    BY <1>4, <1>12, <1>13, <2>1
  <2> HIDE DEF k
  <2>3. o[k] \in AttestActions
    BY <1>6, <2>2, ElementOfSeq
  <2>. QED
    BY <1>14, <1>15, <2>1, <2>3, KindsApart
<1>17. j \in 1 .. Len(c) /\ k = Len(o) + j
  BY <1>4, <1>12, <1>13, <1>16
<1>18. report[n] = c[j]
  BY <1>14, <1>15, <1>16
<1> HIDE DEF j
<1> DEFINE c1 == SubSeq(c, 1, j)
           c2 == SubSeq(c, j + 1, Len(c))
           d == fresh[j]
<1>19. d \in ToSet(fresh) /\ report[n].deposit = d
  BY <1>6, <1>9, <1>17, <1>18
<1>20. c1 \in Seq(CreditActions) /\ c2 \in Seq(CreditActions) /\ Len(c1) = j /\ c = c1 \o c2
  <2>1. c1 \in Seq(CreditActions) /\ Len(c1) = j
    BY <1>2, <1>12, <1>17, SubSeqProperties
  <2>2. c2 \in Seq(CreditActions)
    BY <1>2, <1>12, <1>17, SubSeqProperties
  <2>3. c1 \o c2 = SubSeq(c, 1, Len(c))
    BY <1>2, <1>12, <1>17, ConcatAdjacentSubSeq
  <2>4. SubSeq(c, 1, Len(c)) = c
    BY <1>2, SubSeqFull
  <2>. QED
    BY <2>1, <2>2, <2>3, <2>4
<1> HIDE DEF c1, c2, d, k
<1>21. c1 \in Seq(Action) /\ c2 \in Seq(Action)
  BY <1>10, <1>20, SeqMonotonic
<1> DEFINE before == r \o (o \o c1)
<1>22. before \in Seq(Action) /\ Len(before) = n /\ report = before \o c2
  <2>1. o \o c1 \in Seq(Action) /\ Len(o \o c1) = Len(o) + j
    BY <1>11, <1>20, <1>21, ConcatProperties
  <2>2. before \in Seq(Action) /\ Len(before) = Len(r) + (Len(o) + j)
    BY <1>3, <2>1, ConcatProperties
  <2>3. \A s, t, u \in Seq(Action) : (s \o t) \o u = s \o (t \o u)
    BY ConcatTwice
  <2>4. before \o c2 = r \o ((o \o c1) \o c2)
    BY <1>3, <1>21, <2>1, <2>3, Zenon
  <2>5. (o \o c1) \o c2 = o \o c
    BY <1>11, <1>20, <1>21, <2>3, Zenon
  <2>6. Len(r) + (Len(o) + j) = n
    BY <1>4, <1>12, <1>13, <1>17
  <2>. QED
    BY <1>3, <1>6, <2>2, <2>4, <2>5, <2>6, Zenon
<1>23. Select(before, AttestsOf(d.asset)) # << >>
       /\ Last(Select(before, AttestsOf(d.asset))).observed = Balance(d.asset, SafeHeight)
  BY <1>2, <1>3, <1>6, <1>19, <1>20, LastObserved DEF o
<1> HIDE DEF before
<1>24. SubSeq(report, 1, n) = before
  BY <1>21, <1>22, SubSeqOfConcat1, SubSeqFull
<1>25. Total(DepositsOf(Select(before, CreditsOf(d.asset))))
         <= Total(DepositsOf(Select(report, CreditsOf(d.asset))))
  BY <1>21, <1>22, CreditsGrow
<1>26. report \in Seq(Action)
  BY <1>21, <1>22, ConcatProperties
<1>27. DepositsOf(Select(report, CreditsOf(d.asset)))
         = Select(CreditsThrough(SafeHeight), OfAsset(d.asset))
  BY <1>7, <1>8, <1>26, CreditsOfAsset
<1>28. Total(Select(CreditsThrough(SafeHeight), OfAsset(d.asset))) <= Balance(d.asset, SafeHeight)
  BY <1>2, BalanceCovers
<1>29. Total(DepositsOf(Select(before, CreditsOf(d.asset)))) <= Balance(d.asset, SafeHeight)
  <2>1. \A s \in Seq(Deposits) : Total(s) \in Nat
    BY DepositsAre, TotalNat
  <2>2. \A s \in Seq(Action) : DepositsOf(Select(s, CreditsOf(d.asset))) \in Seq(Deposits)
    BY CreditsOfAsset
  <2>3. /\ Total(DepositsOf(Select(before, CreditsOf(d.asset)))) \in Nat
        /\ Total(DepositsOf(Select(report, CreditsOf(d.asset)))) \in Nat
    BY <1>22, <1>26, <2>1, <2>2
  <2>4. Balance(d.asset, SafeHeight) \in Nat
    BY <1>2, BalanceIsNat
  <2>. QED
    BY <1>25, <1>27, <1>28, <2>3, <2>4
<1>. QED
  BY <1>19, <1>23, <1>24, <1>29

(***************************************************************************)
(* Every step keeps all credits covered.                                   *)
(***************************************************************************)
LEMMA CoveredStep ==
  ASSUME MaxFailures = 0, MaxReorg <= Buried, CoveredInv, [Next]_vars
  PROVE  CoveredInv'
<1>1. SettledInv /\ TypeOK
  BY DEF CoveredInv, SettledInv
<1>2. SettledInv'
  BY <1>1, SettledStep
<1>3. CASE UNCHANGED reported
  BY <1>2, <1>3 DEF CoveredInv, CreditsCovered
<1>4. CASE \E w \in Watchers : \E failed : Polled(w, failed)
  <2>1. PICK w \in Watchers : \E failed : Polled(w, failed)
    BY <1>4
  <2>2. PICK failed : Polled(w, failed)
    BY <2>1
  <2> DEFINE g == Given(w, SafeHeight, Found(w, failed))
  <2>3. reported[w] \in Seq(Action) /\ g \in Seq(Action)
    BY <1>1, <2>2, PollStep DEF TypeOK
  <2>4. reported'[w] = reported[w] \o g /\ \A v \in Watchers : v # w => reported'[v] = reported[v]
    BY <1>1, <2>2 DEF Polled, TypeOK
  <2>5. \A v \in Watchers : \A n \in DOMAIN reported[v] : CoveredAt(reported[v], n)
    BY DEF CoveredInv, CreditsCovered, CoveredAt
  <2> HIDE DEF g
  <2>6. ASSUME NEW n \in DOMAIN reported'[w]
        PROVE  CoveredAt(reported'[w], n)
    <3>1. reported'[w] \in Seq(Action)
      BY <2>3, <2>4, ConcatProperties
    <3>2. /\ DOMAIN reported'[w] = 1 .. Len(reported'[w]) /\ Len(reported'[w]) \in Nat
          /\ DOMAIN reported[w] = 1 .. Len(reported[w]) /\ Len(reported[w]) \in Nat
      BY <2>3, <3>1, LenProperties
    <3>3. CASE n \in 1 .. Len(reported[w])
      BY <2>3, <2>4, <2>5, <3>2, <3>3, CoveredStays
    <3>4. CASE n > Len(reported[w])
      BY <1>1, <2>2, <3>2, <3>4, CoveredBatch
    <3>. QED
      BY <3>2, <3>3, <3>4
  <2>7. \A v \in Watchers : \A n \in DOMAIN reported'[v] : CoveredAt(reported'[v], n)
    BY <2>4, <2>5, <2>6
  <2>8. CreditsCovered'
    BY <2>7 DEF CreditsCovered, CoveredAt
  <2>. QED
    BY <1>2, <2>8 DEF CoveredInv
<1>5. Chain \/ (\E w \in Watchers : Resume(w)) \/ UNCHANGED vars => UNCHANGED reported
  BY <1>1, ChainStep DEF watcherVars, vars, Resume
<1>. QED
  BY <1>1, <1>3, <1>4, <1>5, StepCases

(***************************************************************************)
(* With reorganisations shallower than the confirmations, and no failed    *)
(* view, no credit exceeds what was observed of its asset before           *)
(* (CreditsCovered).                                                       *)
(***************************************************************************)
THEOREM CreditsAreCovered ==
  ASSUME MaxFailures = 0, MaxReorg <= Buried
  PROVE  Spec => []CreditsCovered
<1>1. Init => CoveredInv
  BY SettledInit DEF Init, CoveredInv, CreditsCovered
<1>2. CoveredInv /\ [Next]_vars => CoveredInv'
  BY CoveredStep
<1>3. CoveredInv => CreditsCovered
  BY DEF CoveredInv
<1>. QED
  BY <1>1, <1>2, <1>3, PTL DEF Spec
=============================================================================
