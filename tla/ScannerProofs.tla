----------------------------- MODULE ScannerProofs -----------------------------
(***************************************************************************)
(* What is proved of Scanner for every set of deposits, chain, lag, length *)
(* of a pass and number of reorganisations, payouts, reseeds and failures. *)
(*                                                                         *)
(* Feeding a block is followed transaction by transaction (BlockFed): it   *)
(* puts the block's leaves behind the tree, takes from what is held and in *)
(* flight what the block spends, and forgets nothing of ours.  Rewinding   *)
(* after a failure gives the tree back (BlockUndone).  TypeOK and          *)
(* OwnPayoutsAreKnown follow.                                              *)
(*                                                                         *)
(* TreesAreTheChains needs that blocks are fed without gaps (NoGaps), by   *)
(* whichever thread, to two trees of one height (Level), and below what    *)
(* reorganisations reach (Lagging).  As no leaf is then in a tree twice, a *)
(* note the chain shows spent is not held any more: HeldIsUnspent.         *)
(*                                                                         *)
(* ImplementsDepositLedger: a pass has found, of every height it has done, *)
(* what the chain credits there (FoundInv), and what the watcher has       *)
(* credited is what the chain credits up to where it has scanned           *)
(* (LedgerInv).                                                            *)
(***************************************************************************)
EXTENDS Scanner, DataLemmas

-----------------------------------------------------------------------------
(***************************************************************************)
(* The types, and what they leave out of TypeOK.                           *)
(***************************************************************************)
StoreRecord(T) ==
  [tree : Seq(T), checkpoints : Seq(Nat), held : SUBSET Nat, in_flight : SUBSET Nat,
   spent : SUBSET T, synced_to : Heights]

(* What a store has is in its tree, once; its checkpoints are bounded. *)
Sound(s) ==
  /\ s.held \cup s.in_flight \subseteq DOMAIN s.tree /\ s.held \cap s.in_flight = {}
  /\ Len(s.checkpoints) <= CHECKPOINT_DEPTH

(* Payouts, what a pass finds, and passes. *)
PayoutRecord == [note : Txs, pool : Pools]
Find == [txid : Deposits, height : Nat]
PassRecord == [feed : SUBSET Heights, scan : SUBSET Heights, end : Heights, found : SUBSET Find]

(* The chain and the payouts; the two stores; the work of the threads; the watcher. *)
ChainShape ==
  /\ chain \in Seq(SUBSET Txs) /\ highest \in Heights /\ Tip <= highest /\ reorgs \in 0 .. MaxReorgs
  /\ sent \in Seq(PayoutRecord)
StoreShape ==
  store \in [Pools -> StoreRecord(Txs)] /\ \A p \in Pools : Sound(store[p])
WorkShape ==
  /\ pass \in PassRecord /\ sync \in SUBSET Heights
  /\ reseeding \in Pools \cup {"none", "stopped"} /\ reseeds \in Nat /\ exclusive \in BOOLEAN
WatcherShape ==
  scanned_to \in Heights /\ credited \in SUBSET Deposits /\ ledger \in Seq(Deposits)

Shape == ChainShape /\ StoreShape /\ WorkShape /\ WatcherShape

(* A note that a payout spends is known to the store of the payout's pool. *)
StillKnown(s) == s.spent \cup InFlight(s)

(* Until a reseed, no payout's note is forgotten. *)
KnownInv ==
  reseeds = 0 =>
    /\ reseeding = "none"
    /\ \A i \in DOMAIN sent : sent[i].note \in StillKnown(store[sent[i].pool])

-----------------------------------------------------------------------------
(***************************************************************************)
(* What makes the trees the chain's.                                       *)
(***************************************************************************)
(* A transaction is in one block. *)
BlocksApart == \A g, h \in 1 .. Tip : g # h => chain[g] \cap chain[h] = {}

(* A note is spent in a later block than the one it is made in. *)
SpentLater ==
  \A h \in 1 .. Tip : \A tx \in chain[h] : \A n \in Spends(tx) : \E g \in 1 .. h - 1 : n \in chain[g]

(* The chain: a note is on it before its spend, and reorganisations are bounded. *)
ChainInv == BlocksApart /\ SpentLater /\ highest - MaxReorg <= Tip

(* Leaves, and the notes that payouts spend, are of their pools. *)
InPools ==
  /\ \A p \in Pools : \A n \in ToSet(store[p].tree) : Pool(n) = p
  /\ \A i \in DOMAIN sent : \A n \in {sent[i].note} : Pool(n) = sent[i].pool

(* Nothing is fed that a reorganisation may reach. *)
Lagging ==
  /\ \A h \in pass.feed \cup sync : h + TreeLag <= highest
  /\ \A p \in Pools : store[p].synced_to = 0 \/ store[p].synced_to + TreeLag <= highest

(* What is left to feed, if it is above the trees, begins where they end. *)
NoGaps(fed) == \A h \in fed : \A g \in SyncedTo + 1 .. h : g \in fed

Feeding == exclusive \/ reseeds = 0 => NoGaps(pass.feed) /\ NoGaps(sync)

(* Nobody feeds while the pools are reseeded, and one of them is empty then. *)
Reseeding ==
  exclusive /\ reseeding \in Pools =>
    /\ pass = NoPass /\ sync = {}
    /\ store[Other(reseeding)] = FromFrontier(<< >>, SeedHeight)

(* Both trees stand at one height. *)
Level == Whole /\ reseeding = "none" => store["orchard"].synced_to = store["ironwood"].synced_to

(* The leaves of the chain up to a height. *)
LeavesTo(p, k) == FlattenSeq([h \in 1 .. k |-> Leaves(p, chain[h])])

(* Each tree has the chain's leaves, as far as it is synced. *)
TreesAre == Whole => \A p \in Pools : store[p].tree = LeavesTo(p, store[p].synced_to)

TreesInv == Lagging /\ Feeding /\ Reseeding /\ Level /\ TreesAre

(* A note that a payout spends is in the tree, and not held any more. *)
Promised ==
  reseeds = 0 =>
    \A i \in DOMAIN sent :
      LET s == store[sent[i].pool]
      IN sent[i].note \in ToSet(s.tree) /\ sent[i].note \notin Held(s)

(* A note that a block in the tree spends is not held any more. *)
SpentInTree ==
  Whole => \A p \in Pools : \A h \in 1 .. store[p].synced_to : \A tx \in chain[h] :
    Spends(tx) \cap Held(store[p]) = {}

-----------------------------------------------------------------------------
(***************************************************************************)
(* What makes the ledger the final deposits'.                              *)
(***************************************************************************)
(* What the chain credits at a height, and what a pass found there. *)
Creditable == {d \in Deposits : Credits(d, TRUE)}
CreditsAt(h) == chain[h] \cap Creditable
FoundAt(h) == {d \in Deposits : [txid |-> d, height |-> h] \in pass.found}
(* The highest height a pass may credit. *)
SafeEnd == pass.end - (Confirmations - 1)

(* What a pass found at a height it has done is what the chain credits there. *)
FoundInv ==
  exclusive /\ pass # NoPass =>
    /\ sync = {} /\ reseeding \notin Pools
    /\ pass.end <= highest
    /\ \A h \in pass.feed : h > SyncedTo
    /\ \A h \in 1 .. SafeEnd :
         /\ FoundAt(h) \subseteq CreditsAt(h)
         /\ h > scanned_to /\ h \notin pass.feed \cup pass.scan => CreditsAt(h) \subseteq FoundAt(h)

(* What the chain credits up to a height, in order. *)
LedgerTo(k) == FlattenSeq([h \in 1 .. k |-> Ascending(CreditsAt(h))])

(* The ledger is what the chain credits up to where the watcher has scanned. *)
LedgerInv ==
  exclusive =>
    /\ scanned_to <= FinalHeight
    /\ ledger = LedgerTo(scanned_to)
    /\ credited = UNION {CreditsAt(h) : h \in 1 .. scanned_to}

ScanInv == Shape /\ BlocksApart /\ highest - MaxReorg <= Tip /\ FoundInv /\ LedgerInv

-----------------------------------------------------------------------------
(***************************************************************************)
(* Numbers in order.                                                       *)
(***************************************************************************)
Below(S, x) == {y \in S : y < x}
Rank(S, x) == Cardinality(Below(S, x))

(***************************************************************************)
(* Below a number there are fewer than in all, and fewer than below a      *)
(* greater one.                                                            *)
(***************************************************************************)
LEMMA RanksApart ==
  ASSUME NEW S, S \subseteq Nat, IsFiniteSet(S)
  PROVE  /\ \A x \in S : Rank(S, x) \in 0 .. Cardinality(S) - 1
         /\ \A x, y \in S : x < y => Rank(S, x) < Rank(S, y)
<1>1. Cardinality(S) \in Nat
  BY FS_CardinalityType
<1>2. ASSUME NEW x \in S
      PROVE  IsFiniteSet(Below(S, x)) /\ Rank(S, x) \in Nat /\ Rank(S, x) < Cardinality(S)
  <2>1. Below(S, x) \subseteq S /\ x \notin Below(S, x)
    BY DEF Below
  <2>2. Below(S, x) # S
    BY <2>1
  <2>. QED
    BY <1>1, <2>1, <2>2, FS_Subset, FS_CardinalityType DEF Rank
<1>3. ASSUME NEW x \in S, NEW y \in S, x < y
      PROVE  Rank(S, x) < Rank(S, y)
  <2>1. Below(S, x) \subseteq Below(S, y) /\ x \in Below(S, y) /\ x \notin Below(S, x)
    <3>1. x \in Int /\ y \in Int /\ \A z \in S : z \in Int
      OBVIOUS
    <3>2. \A z \in S : z < x => z < y
      BY <1>3, <3>1
    <3>3. \A z \in Below(S, x) : z \in Below(S, y)
      BY <3>2, Zenon DEF Below
    <3>4. x \in Below(S, y)
      BY <1>3, Zenon DEF Below
    <3>5. ~ (x < x)
      BY <3>1
    <3>6. x \notin Below(S, x)
      BY <3>5, Zenon DEF Below
    <3>. QED
      BY <3>3, <3>4, <3>6
  <2>2. IsFiniteSet(Below(S, y)) /\ Below(S, x) # Below(S, y)
    BY <1>2, <2>1
  <2>. QED
    BY <2>1, <2>2, FS_Subset, FS_CardinalityType DEF Rank
<1>. QED
  BY <1>1, <1>2, <1>3

(***************************************************************************)
(* Ascending lists a finite set of numbers, each once.                     *)
(***************************************************************************)
LEMMA AscendingLists ==
  ASSUME NEW S, S \subseteq Nat, IsFiniteSet(S)
  PROVE  /\ Ascending(S) \in Seq(S) /\ Len(Ascending(S)) = Cardinality(S)
         /\ ToSet(Ascending(S)) = S /\ IsInjective(Ascending(S))
<1> DEFINE n == Cardinality(S)
           R == 0 .. n - 1
           r == [x \in S |-> Rank(S, x)]
           a == Ascending(S)
<1>1. n \in Nat
  BY FS_CardinalityType
<1>2. \A x \in S : Rank(S, x) \in R
  BY RanksApart
<1>3. \A x, y \in S : Rank(S, x) = Rank(S, y) => x = y
  <2>1. ASSUME NEW x \in S, NEW y \in S, x # y
        PROVE  Rank(S, x) # Rank(S, y)
    <3>1. x \in Nat /\ y \in Nat
      OBVIOUS
    <3>2. x < y \/ y < x
      BY <2>1, <3>1
    <3>3. Rank(S, x) < Rank(S, y) \/ Rank(S, y) < Rank(S, x)
      BY <3>2, RanksApart
    <3>4. Rank(S, x) \in Nat /\ Rank(S, y) \in Nat
      BY <1>1, <1>2
    <3>. QED
      BY <3>3, <3>4
  <2>. QED
    BY <2>1
<1>4. r \in Injection(S, R)
  <2>1. r \in [S -> R]
    BY <1>2
  <2>2. \A x, y \in S : r[x] = r[y] => x = y
    BY <1>3
  <2> HIDE DEF r
  <2>. QED
    BY <2>1, <2>2, Zenon DEF Injection, IsInjective
<1>5. IsFiniteSet(R) /\ Cardinality(R) = n
  <2>1. 0 \in Int /\ n - 1 \in Int
    BY <1>1
  <2>2. IsFiniteSet(R) /\ Cardinality(R) = IF 0 > n - 1 THEN 0 ELSE n - 1 - 0 + 1
    BY <2>1, FS_Interval
  <2>. QED
    BY <1>1, <2>2
<1>6. r \in Surjection(S, R)
  BY <1>4, <1>5, FS_Injection
<1>7. \A k \in R : \E x \in S : r[x] = k
  BY <1>6, Zenon DEF Surjection
<1>8. ASSUME NEW i \in 1 .. n
      PROVE  a[i] \in S /\ Rank(S, a[i]) = i - 1
  <2>1. i - 1 \in R
    BY <1>1
  <2>2. \E x \in S : Rank(S, x) = i - 1
    BY <1>7, <2>1
  <2>3. a[i] = CHOOSE x \in S : Rank(S, x) = i - 1
    BY DEF Ascending, Rank, Below
  <2> HIDE DEF a
  <2>. QED
    BY <2>2, <2>3
<1>9. a \in [1 .. n -> S]
  <2> DEFINE e(i) == CHOOSE x \in S : Rank(S, x) = i - 1
  <2>1. a = [i \in 1 .. n |-> e(i)]
    BY DEF Ascending, Rank, Below
  <2> HIDE DEF a, e
  <2>2. a = [i \in 1 .. n |-> a[i]]
    BY <2>1
  <2>. QED
    BY <1>8, <2>2
<1>10. ASSUME NEW x \in S PROVE \E i \in 1 .. n : a[i] = x
  <2>1. Rank(S, x) + 1 \in 1 .. n
    BY <1>1, <1>2
  <2>2. Rank(S, a[Rank(S, x) + 1]) = Rank(S, x) /\ a[Rank(S, x) + 1] \in S
    <3>1. Rank(S, a[Rank(S, x) + 1]) = (Rank(S, x) + 1) - 1
      BY <1>8, <2>1
    <3>2. Rank(S, x) \in Nat
      BY <1>1, <1>2
    <3>. QED
      BY <1>8, <2>1, <3>1, <3>2
  <2>. QED
    BY <1>3, <2>1, <2>2
<1> HIDE DEF a
<1>11. a \in Seq(S) /\ Len(a) = n
  BY <1>1, <1>9, FunctionIsSequence
<1>12. DOMAIN a = 1 .. n
  BY <1>9
<1>13. ToSet(a) = S
  <2>1. ToSet(a) = {a[i] : i \in 1 .. n}
    BY <1>12, Zenon DEF ToSet
  <2>. QED
    BY <1>8, <1>10, <2>1
<1>14. IsInjective(a)
  <2>1. ASSUME NEW i \in 1 .. n, NEW j \in 1 .. n, a[i] = a[j] PROVE i = j
    <3>1. i - 1 = j - 1
      BY <1>8, <2>1
    <3>. QED
      BY <3>1
  <2>. QED
    BY <1>12, <2>1 DEF IsInjective
<1>. QED
  BY <1>11, <1>13, <1>14 DEF a

(***************************************************************************)
(* A finite set of numbers that is not empty has a greatest one.           *)
(***************************************************************************)
LEMMA GreatestNat ==
  ASSUME NEW S, S \subseteq Nat, IsFiniteSet(S), S # {}
  PROVE  \E n \in S : \A m \in S : m <= n
<1> DEFINE Greatest(u) == \E n \in u : \A m \in u : m <= n
           T == {u \in SUBSET S : u = {} \/ Greatest(u)}
<1>1. ASSUME NEW u \in SUBSET S, \A x \in u : u \ {x} \in T
      PROVE  u \in T
  <2>1. CASE u = {}
    BY <2>1
  <2>2. CASE u # {}
    <3>1. PICK x \in u : TRUE
      BY <2>2
    <3>2. u \ {x} = {} \/ Greatest(u \ {x})
      BY <1>1, <3>1
    <3>3. CASE u \ {x} = {}
      <4>1. x \in Nat /\ \A m \in u : m = x
        BY <3>1, <3>3
      <4>. QED
        BY <3>1, <4>1
    <3>4. CASE Greatest(u \ {x})
      <4>1. PICK n \in u \ {x} : \A m \in u \ {x} : m <= n
        BY <3>4
      <4>2. n \in Nat /\ x \in Nat /\ \A m \in u : m \in Nat
        OBVIOUS
      <4>3. \A m \in u : m = x \/ m <= n
        BY <4>1
      <4>4. CASE x <= n
        BY <4>1, <4>2, <4>3, <4>4
      <4>5. CASE ~ (x <= n)
        <5>1. \A m \in u : m <= x
          BY <4>2, <4>3, <4>5
        <5>. QED
          BY <5>1
      <4>. QED
        BY <4>4, <4>5
    <3>. QED
      BY <3>2, <3>3, <3>4
  <2>. QED
    BY <2>1, <2>2
<1> HIDE DEF T
<1>2. \A u \in SUBSET S : u \in T
  BY <1>1, SubsetInduction, Zenon
<1>3. S \in T
  BY <1>2
<1>. QED
  BY <1>3 DEF T

-----------------------------------------------------------------------------
(***************************************************************************)
(* The numbers of transactions.  Payouts come after all deposits.          *)
(***************************************************************************)
LEMMA PayoutsAreLast ==
  FirstPayout \in Nat /\ \A d \in Deposits : d < FirstPayout
<1> DEFINE top == CHOOSE d \in Deposits : \A e \in Deposits : e <= d
<1>1. Deposits \subseteq Nat /\ IsFiniteSet(Deposits)
  BY DepositsAssumption
<1>2. CASE Deposits = {}
  BY <1>2 DEF FirstPayout
<1>3. CASE Deposits # {}
  <2>1. \E d \in Deposits : \A e \in Deposits : e <= d
    BY <1>1, <1>3, GreatestNat
  <2>2. top \in Deposits /\ \A e \in Deposits : e <= top
    BY <2>1
  <2>3. FirstPayout = 1 + top
    BY <1>3 DEF FirstPayout
  <2> HIDE DEF top
  <2>4. top \in Nat
    BY <1>1, <2>2
  <2>5. \A e \in Deposits : e \in Nat
    BY <1>1
  <2>. QED
    BY <2>2, <2>3, <2>4, <2>5
<1>. QED
  BY <1>2, <1>3

(***************************************************************************)
(* Transactions are finitely many numbers, each a deposit or a payout.     *)
(***************************************************************************)
LEMMA TxsAre ==
  ASSUME sent \in Seq(PayoutRecord)
  PROVE  /\ Txs \subseteq Nat /\ IsFiniteSet(Txs)
         /\ Payouts \cap Deposits = {}
         /\ \A tx \in Payouts : tx - FirstPayout + 1 \in DOMAIN sent
         /\ \A i \in DOMAIN sent : /\ FirstPayout + i - 1 \in Payouts
                                   /\ PayoutOf(FirstPayout + i - 1) = sent[i]
<1>1. Len(sent) \in Nat /\ DOMAIN sent = 1 .. Len(sent)
  BY LenProperties
<1>2. FirstPayout \in Nat /\ \A d \in Deposits : d < FirstPayout
  BY PayoutsAreLast
<1>3. \A d \in Deposits : d \in Nat
  BY DepositsAssumption
<1>4. IsFiniteSet(Deposits) /\ IsFiniteSet(Payouts)
  BY <1>1, <1>2, FS_Interval, DepositsAssumption DEF Payouts
<1>5. IsFiniteSet(Txs)
  BY <1>4, FS_Union DEF Txs
<1>6. \A tx \in Payouts : tx \in Nat /\ tx >= FirstPayout /\ tx - FirstPayout + 1 \in DOMAIN sent
  BY <1>1, <1>2 DEF Payouts
<1>7. \A i \in DOMAIN sent : FirstPayout + i - 1 \in Payouts
  BY <1>1, <1>2 DEF Payouts
<1>8. \A i \in DOMAIN sent : PayoutOf(FirstPayout + i - 1) = sent[i]
  <2>1. ASSUME NEW i \in DOMAIN sent PROVE (FirstPayout + i - 1) - FirstPayout + 1 = i
    BY <1>1, <1>2
  <2>. QED
    BY <2>1 DEF PayoutOf
<1>9. Payouts \cap Deposits = {}
  <2>1. ASSUME NEW tx \in Payouts, tx \in Deposits PROVE FALSE
    BY <1>2, <1>3, <1>6, <2>1
  <2>. QED
    BY <2>1
<1>. QED
  BY <1>3, <1>5, <1>6, <1>7, <1>8, <1>9 DEF Txs

(***************************************************************************)
(* A transaction has a pool, and spends at most one note.                  *)
(***************************************************************************)
LEMMA TxParts ==
  ASSUME sent \in Seq(PayoutRecord), NEW tx \in Txs
  PROVE  /\ Pool(tx) \in Pools
         /\ Spends(tx) \in SUBSET Txs
         /\ Spends(tx) = {} \/ \E n \in Txs : Spends(tx) = {n}
         /\ tx \notin Deposits => /\ tx \in Payouts /\ Spends(tx) = {PayoutOf(tx).note}
                                  /\ Pool(tx) = PayoutOf(tx).pool
<1>1. CASE tx \in Deposits
  BY <1>1, DepositsAssumption DEF Pool, Spends
<1>2. CASE tx \notin Deposits
  <2>1. tx \in Payouts /\ tx - FirstPayout + 1 \in DOMAIN sent
    BY <1>2, TxsAre DEF Txs
  <2>2. DOMAIN sent = 1 .. Len(sent)
    BY LenProperties
  <2>3. PayoutOf(tx) \in PayoutRecord
    BY <2>1, <2>2, ElementOfSeq DEF PayoutOf
  <2>4. PayoutOf(tx).note \in Txs /\ PayoutOf(tx).pool \in Pools
    BY <2>3 DEF PayoutRecord
  <2>. QED
    BY <1>2, <2>1, <2>4 DEF Pool, Spends
<1>. QED
  BY <1>1, <1>2

(***************************************************************************)
(* The leaves of a pool that some transactions make, each once.            *)
(***************************************************************************)
LEMMA LeavesAre ==
  ASSUME sent \in Seq(PayoutRecord), NEW p, NEW txs \in SUBSET Txs
  PROVE  /\ Leaves(p, txs) \in Seq(Txs)
         /\ ToSet(Leaves(p, txs)) = {tx \in txs : Pool(tx) = p}
         /\ IsInjective(Leaves(p, txs))
<1> DEFINE mine == {tx \in txs : Pool(tx) = p}
<1>1. Txs \subseteq Nat /\ IsFiniteSet(Txs)
  BY TxsAre
<1>2. mine \subseteq Txs
  OBVIOUS
<1>3. Leaves(p, txs) = Ascending(mine)
  BY DEF Leaves
<1> HIDE DEF mine
<1>4. mine \subseteq Nat /\ IsFiniteSet(mine)
  BY <1>1, <1>2, FS_Subset
<1>5. Ascending(mine) \in Seq(mine) /\ ToSet(Ascending(mine)) = mine /\ IsInjective(Ascending(mine))
  BY <1>4, AscendingLists
<1>6. Ascending(mine) \in Seq(Txs)
  BY <1>2, <1>5, SeqMonotonic
<1>. QED
  BY <1>3, <1>5, <1>6 DEF mine

(***************************************************************************)
(* A payout more changes nothing about the transactions there were.        *)
(***************************************************************************)
LEMMA PayoutAdded ==
  ASSUME sent \in Seq(PayoutRecord), NEW q \in PayoutRecord, sent' = Append(sent, q)
  PROVE  /\ Txs \subseteq Txs' /\ Payouts \subseteq Payouts'
         /\ sent' \in Seq(PayoutRecord')
         /\ DOMAIN sent' = DOMAIN sent \cup {Len(sent) + 1}
         /\ \A i \in DOMAIN sent : sent'[i] = sent[i]
         /\ sent'[Len(sent) + 1] = q /\ Len(sent) + 1 \notin DOMAIN sent
         /\ \A tx \in Txs : Pool(tx)' = Pool(tx) /\ Spends(tx)' = Spends(tx)
<1>1. /\ Len(sent) \in Nat /\ DOMAIN sent = 1 .. Len(sent)
      /\ Len(sent') = Len(sent) + 1 /\ DOMAIN sent' = 1 .. Len(sent) + 1
      /\ \A i \in 1 .. Len(sent) : sent'[i] = sent[i]
      /\ sent'[Len(sent) + 1] = q
  BY AppendProperties, LenProperties
<1>2. FirstPayout \in Nat
  BY PayoutsAreLast
<1>3. Payouts \subseteq Payouts'
  BY <1>1, <1>2 DEF Payouts
<1>4. Txs \subseteq Txs'
  BY <1>3 DEF Txs
<1>5. PayoutRecord \subseteq PayoutRecord'
  BY <1>4 DEF PayoutRecord
<1>6. sent' \in Seq(PayoutRecord')
  <2>1. sent' \in Seq(PayoutRecord)
    BY AppendProperties
  <2>. QED
    BY <1>5, <2>1, SeqMonotonic
<1>7. ASSUME NEW tx \in Txs
      PROVE  Pool(tx)' = Pool(tx) /\ Spends(tx)' = Spends(tx)
  <2>1. CASE tx \in Deposits
    BY <2>1 DEF Pool, Spends
  <2>2. CASE tx \notin Deposits
    <3>1. tx - FirstPayout + 1 \in DOMAIN sent
      BY <2>2, TxsAre DEF Txs
    <3>2. PayoutOf(tx)' = PayoutOf(tx)
      BY <1>1, <3>1 DEF PayoutOf
    <3>. QED
      BY <2>2, <3>2 DEF Pool, Spends
  <2>. QED
    BY <2>1, <2>2
<1>8. DOMAIN sent' = DOMAIN sent \cup {Len(sent) + 1} /\ Len(sent) + 1 \notin DOMAIN sent
  BY <1>1
<1>. QED
  BY <1>1, <1>3, <1>4, <1>6, <1>7, <1>8

\* So blocks have the leaves they had.
LEMMA LeavesStay ==
  ASSUME \A tx \in Txs : Pool(tx)' = Pool(tx)
  PROVE  \A p : \A txs \in SUBSET Txs : Leaves(p, txs)' = Leaves(p, txs)
<1> SUFFICES ASSUME NEW p, NEW txs \in SUBSET Txs
             PROVE  Leaves(p, txs)' = Leaves(p, txs)
  OBVIOUS
<1>1. {tx \in txs : Pool(tx)' = p} = {tx \in txs : Pool(tx) = p}
  OBVIOUS
<1>. QED
  BY <1>1, Zenon DEF Leaves

-----------------------------------------------------------------------------
(***************************************************************************)
(* What the operations of a store do to it.                                *)
(***************************************************************************)
LEMMA BlockBegun ==
  ASSUME NEW T, NEW s \in StoreRecord(T), Sound(s)
  PROVE  LET t == BeginBlock(s)
         IN /\ t \in StoreRecord(T) /\ Sound(t)
            /\ t.tree = s.tree /\ t.synced_to = s.synced_to
            /\ t.held = s.held /\ t.in_flight = s.in_flight /\ t.spent = s.spent
            /\ t.checkpoints # << >> /\ Last(t.checkpoints) = Len(s.tree)
<1> DEFINE all == Append(s.checkpoints, Len(s.tree))
           kept == IF Len(all) > CHECKPOINT_DEPTH THEN Tail(all) ELSE all
           t == BeginBlock(s)
<1>1. s.tree \in Seq(T) /\ s.checkpoints \in Seq(Nat)
  BY DEF StoreRecord
<1>2. Len(s.tree) \in Nat /\ Len(s.checkpoints) \in Nat /\ Len(s.checkpoints) <= CHECKPOINT_DEPTH
  BY <1>1, LenProperties DEF Sound
<1>3. /\ all \in Seq(Nat) /\ Len(all) = Len(s.checkpoints) + 1
      /\ all[Len(s.checkpoints) + 1] = Len(s.tree)
  BY <1>1, <1>2, AppendProperties
<1>4. CHECKPOINT_DEPTH \in Nat /\ CHECKPOINT_DEPTH >= 1
  BY CheckpointAssumption
<1> HIDE DEF all
<1>5. kept \in Seq(Nat) /\ Len(kept) <= CHECKPOINT_DEPTH /\ Len(kept) >= 1 /\ kept[Len(kept)] = Len(s.tree)
  <2>1. CASE Len(all) > CHECKPOINT_DEPTH
    <3>1. /\ Len(all) \in Nat /\ Len(all) = CHECKPOINT_DEPTH + 1 /\ Len(all) >= 2
      BY <1>2, <1>3, <1>4, <2>1
    <3>2. all # << >>
      BY <3>1, EmptySeq
    <3>3. /\ Tail(all) \in Seq(Nat) /\ Len(Tail(all)) = Len(all) - 1
          /\ \A i \in 1 .. Len(Tail(all)) : Tail(all)[i] = all[i + 1]
      BY <1>3, <3>2, HeadTailProperties
    <3>4. Tail(all)[CHECKPOINT_DEPTH] = all[CHECKPOINT_DEPTH + 1]
      BY <1>4, <3>1, <3>3
    <3>. QED
      BY <1>3, <1>4, <2>1, <3>1, <3>3, <3>4
  <2>2. CASE ~ (Len(all) > CHECKPOINT_DEPTH)
    BY <1>2, <1>3, <1>4, <2>2
  <2>. QED
    BY <2>1, <2>2
<1>6. t = [s EXCEPT !.checkpoints = kept]
  BY DEF BeginBlock, all
<1> HIDE DEF kept, t
<1>7. /\ t \in StoreRecord(T) /\ t.checkpoints = kept
      /\ t.tree = s.tree /\ t.synced_to = s.synced_to
      /\ t.held = s.held /\ t.in_flight = s.in_flight /\ t.spent = s.spent
  BY <1>5, <1>6 DEF StoreRecord
<1>8. Sound(t)
  BY <1>5, <1>7 DEF Sound
<1>9. kept # << >> /\ Last(kept) = Len(s.tree)
  BY <1>5, EmptySeq DEF Last
<1>. QED
  BY <1>7, <1>8, <1>9 DEF t

\* Every output considered is the vault's (see Scanner).
AppendOurs(s, note) == AppendNote(s, note, TRUE)

(***************************************************************************)
(* A leaf goes behind the tree, and is held if it is ours.                 *)
(***************************************************************************)
LEMMA NoteAppended ==
  ASSUME NEW T, NEW s \in StoreRecord(T), Sound(s), NEW note \in T
  PROVE  LET t == AppendOurs(s, note)
         IN /\ t \in StoreRecord(T) /\ Sound(t)
            /\ t.tree = Append(s.tree, note) /\ t.synced_to = s.synced_to
            /\ t.checkpoints = s.checkpoints
            /\ t.held = s.held \cup {Len(s.tree) + 1}
            /\ t.in_flight = s.in_flight /\ t.spent = s.spent
<1> DEFINE t == AppendOurs(s, note)
           tree == Append(s.tree, note)
           held == s.held \cup {Len(s.tree) + 1}
<1>1. /\ s.tree \in Seq(T) /\ s.held \subseteq Nat /\ s.in_flight \subseteq Nat
      /\ Len(s.tree) \in Nat /\ DOMAIN s.tree = 1 .. Len(s.tree)
  BY LenProperties DEF StoreRecord
<1>2. tree \in Seq(T) /\ DOMAIN tree = 1 .. Len(s.tree) + 1
  BY <1>1, AppendProperties
<1>3. held \in SUBSET Nat
  BY <1>1
<1>4. t = [s EXCEPT !.tree = tree, !.held = held]
  BY DEF AppendOurs, AppendNote
<1> HIDE DEF t, tree, held
<1>5. /\ t \in StoreRecord(T) /\ t.tree = tree /\ t.held = held /\ t.synced_to = s.synced_to
      /\ t.checkpoints = s.checkpoints /\ t.in_flight = s.in_flight /\ t.spent = s.spent
  BY <1>2, <1>3, <1>4 DEF StoreRecord
<1>6. Sound(t)
  <2>1. s.held \cup s.in_flight \subseteq 1 .. Len(s.tree) /\ s.held \cap s.in_flight = {}
    BY <1>1 DEF Sound
  <2>2. held \cup s.in_flight \subseteq 1 .. Len(s.tree) + 1 /\ held \cap s.in_flight = {}
    BY <1>1, <2>1 DEF held
  <2>. QED
    BY <1>2, <1>5, <2>2 DEF Sound
<1>. QED
  BY <1>5, <1>6 DEF t, tree, held

(***************************************************************************)
(* A nullifier on the chain takes a note, if it is one of ours, and one    *)
(* that is in the tree once is not held any more.                          *)
(***************************************************************************)
LEMMA NoteNullified ==
  ASSUME NEW T, NEW s \in StoreRecord(T), Sound(s), NEW n \in T
  PROVE  LET t == SpendNullifier(s, n)
         IN /\ t \in StoreRecord(T) /\ Sound(t)
            /\ t.tree = s.tree /\ t.synced_to = s.synced_to /\ t.checkpoints = s.checkpoints
            /\ t.held \subseteq s.held /\ t.in_flight \subseteq s.in_flight
            /\ StillKnown(s) \subseteq StillKnown(t)
            /\ IsInjective(s.tree) => \A i \in DOMAIN s.tree : s.tree[i] = n => i \notin t.held
<1> DEFINE flying == Positions(s, s.in_flight, n)
           holding == Positions(s, s.held, n)
           First(ps) == CHOOSE p \in ps : \A o \in ps : p <= o
           t == SpendNullifier(s, n)
<1>1. /\ s.tree \in Seq(T) /\ DOMAIN s.tree = 1 .. Len(s.tree) /\ Len(s.tree) \in Nat
      /\ s.held \subseteq DOMAIN s.tree /\ s.in_flight \subseteq DOMAIN s.tree
      /\ s.held \cap s.in_flight = {}
  BY LenProperties DEF StoreRecord, Sound
<1>2. /\ flying = {p \in s.in_flight : s.tree[p] = n}
      /\ holding = {p \in s.held : s.tree[p] = n}
  BY <1>1 DEF Positions
<1>3. ASSUME NEW ps \in SUBSET DOMAIN s.tree, ps # {}
      PROVE  First(ps) \in ps
  <2>1. \E p \in ps : \A o \in ps : p <= o
    BY <1>1, <1>3, LeastNat
  <2>. QED
    BY <2>1
<1>4. CASE flying # {}
  <2> DEFINE f == First(flying)
  <2>1. f \in flying
    BY <1>1, <1>2, <1>3, <1>4
  <2>2. t = [s EXCEPT !.in_flight = @ \ {f}, !.spent = @ \cup {n}]
    BY <1>4, Zenon DEF SpendNullifier
  <2> HIDE DEF f, t, First
  <2>3. /\ t \in StoreRecord(T)
        /\ t.tree = s.tree /\ t.synced_to = s.synced_to /\ t.checkpoints = s.checkpoints
        /\ t.held = s.held /\ t.in_flight = s.in_flight \ {f} /\ t.spent = s.spent \cup {n}
    BY <2>2 DEF StoreRecord
  <2>4. Sound(t)
    BY <2>3 DEF Sound
  <2>5. s.tree[f] = n /\ f \in s.in_flight
    BY <1>2, <2>1
  <2>6. StillKnown(s) \subseteq StillKnown(t)
    BY <2>3, <2>5 DEF StillKnown, InFlight
  <2>7. ASSUME IsInjective(s.tree), NEW i \in DOMAIN s.tree, s.tree[i] = n
        PROVE  i \notin t.held
    <3>1. i = f
      BY <1>1, <2>5, <2>7 DEF IsInjective
    <3>. QED
      BY <1>1, <2>3, <2>5, <3>1
  <2>. QED
    BY <2>3, <2>4, <2>6, <2>7 DEF t
<1>5. CASE flying = {} /\ holding # {}
  <2> DEFINE f == First(holding)
  <2>1. f \in holding
    BY <1>1, <1>2, <1>3, <1>5
  <2>2. t = [s EXCEPT !.held = @ \ {f}, !.spent = @ \cup {n}]
    BY <1>5, Zenon DEF SpendNullifier
  <2> HIDE DEF f, t, First
  <2>3. /\ t \in StoreRecord(T)
        /\ t.tree = s.tree /\ t.synced_to = s.synced_to /\ t.checkpoints = s.checkpoints
        /\ t.held = s.held \ {f} /\ t.in_flight = s.in_flight /\ t.spent = s.spent \cup {n}
    BY <2>2 DEF StoreRecord
  <2>4. Sound(t)
    BY <2>3 DEF Sound
  <2>5. s.tree[f] = n /\ f \in s.held
    BY <1>2, <2>1
  <2>6. StillKnown(s) \subseteq StillKnown(t)
    BY <2>3 DEF StillKnown, InFlight
  <2>7. ASSUME IsInjective(s.tree), NEW i \in DOMAIN s.tree, s.tree[i] = n
        PROVE  i \notin t.held
    <3>1. i = f
      BY <1>1, <2>5, <2>7 DEF IsInjective
    <3>. QED
      BY <2>3, <3>1
  <2>. QED
    BY <2>3, <2>4, <2>6, <2>7 DEF t
<1>6. CASE flying = {} /\ holding = {}
  <2>1. t = s
    BY <1>6, Zenon DEF SpendNullifier
  <2>2. \A i \in DOMAIN s.tree : s.tree[i] = n => i \notin s.held
    BY <1>2, <1>6
  <2>. QED
    BY <2>1, <2>2
<1>. QED
  BY <1>4, <1>5, <1>6

-----------------------------------------------------------------------------
(***************************************************************************)
(* A transaction that spends at most one note, fed.                        *)
(***************************************************************************)
LEMMA OneTxFed ==
  ASSUME NEW s, NEW tx
  PROVE  /\ Spends(tx) = {} => FeedTx(s, tx) = AppendOurs(s, tx)
         /\ \A n : Spends(tx) = {n} =>
              FeedTx(s, tx) = AppendOurs(SpendNullifier(s, n), tx)
<1> DEFINE c(u) == CHOOSE x \in u : TRUE
           Body(f, u) == IF u = {} THEN s ELSE SpendNullifier(f[u \ {c(u)}], c(u))
           fold == CHOOSE f : f = [u \in SUBSET Spends(tx) |-> Body(f, u)]
<1>1. FeedTx(s, tx) = AppendOurs(fold[Spends(tx)], tx)
  BY Zenon DEF AppendOurs, FeedTx, FoldSet, MapThenFoldSet
<1>2. ASSUME Spends(tx) = {} \/ \E n : Spends(tx) = {n}
      PROVE  fold = [u \in SUBSET Spends(tx) |-> Body(fold, u)]
  <2> DEFINE g == [u \in SUBSET Spends(tx) |-> IF u = {} THEN s ELSE SpendNullifier(s, c(u))]
  <2>1. ASSUME NEW u \in SUBSET Spends(tx)
        PROVE  g[u] = Body(g, u)
    <3>1. CASE u = {}
      BY <3>1
    <3>2. CASE u # {}
      <4>1. c(u) \in u
        BY <3>2
      <4> HIDE DEF c
      <4>2. u \ {c(u)} = {} /\ {} \in SUBSET Spends(tx)
        BY <1>2, <4>1
      <4>3. g[{}] = s
        BY <4>2
      <4>. QED
        BY <3>2, <4>2, <4>3
    <3>. QED
      BY <3>1, <3>2
  <2>2. g = [u \in SUBSET Spends(tx) |-> g[u]]
    OBVIOUS
  <2> HIDE DEF g, Body
  <2>3. g = [u \in SUBSET Spends(tx) |-> Body(g, u)]
    BY <2>1, <2>2
  <2>. QED
    BY <2>3, Zenon
<1> HIDE DEF fold
<1>3. CASE Spends(tx) = {}
  <2>1. fold[{}] = s
    BY <1>2, <1>3
  <2>. QED
    BY <1>1, <1>3, <2>1, Zenon
<1>4. ASSUME NEW n, Spends(tx) = {n}
      PROVE  FeedTx(s, tx) = AppendOurs(SpendNullifier(s, n), tx)
  <2>1. c({n}) = n /\ {n} \ {n} = {} /\ {n} # {}
    OBVIOUS
  <2> HIDE DEF c
  <2>2. fold[{}] = s /\ fold[{n}] = SpendNullifier(fold[{n} \ {c({n})}], c({n}))
    BY <1>2, <1>4, <2>1
  <2>3. fold[{n}] = SpendNullifier(s, n)
    BY <2>1, <2>2, Zenon
  <2>. QED
    BY <1>1, <1>4, <2>3, Zenon
<1>. QED
  BY <1>3, <1>4

\* The function FeedTxs folds with: what the leaves of a set of places leave.
Feeds(f, base, leaves, D) ==
  f = [u \in SUBSET D |-> IF u = {} THEN base ELSE FeedTx(f[u \ {Max(u)}], leaves[Max(u)])]

(***************************************************************************)
(* That function exists for a finite set of places.                        *)
(***************************************************************************)
LEMMA FeedsExists ==
  ASSUME NEW D, D \subseteq Nat, IsFiniteSet(D), NEW base, NEW leaves
  PROVE  \E f : Feeds(f, base, leaves, D)
<1> DEFINE Eq(f, u) == f[u] = IF u = {} THEN base ELSE FeedTx(f[u \ {Max(u)}], leaves[Max(u)])
           UpTo(f, n) == \A u \in SUBSET D : Cardinality(u) <= n => Eq(f, u)
           T == {n \in Nat : \E f : UpTo(f, n)}
<1>0. \A u \in SUBSET D : IsFiniteSet(u) /\ Cardinality(u) \in Nat
  BY FS_Subset, FS_CardinalityType
<1>a. ASSUME NEW u \in SUBSET D, u # {}
      PROVE  /\ u \ {Max(u)} \in SUBSET D
             /\ Cardinality(u \ {Max(u)}) = Cardinality(u) - 1
             /\ Cardinality(u) # 0
  <2>1. Max(u) \in u
    <3>1. u \subseteq Nat /\ IsFiniteSet(u)
      BY <1>0
    <3>2. PICK n \in u : \A m \in u : m <= n
      BY <1>a, <3>1, GreatestNat
    <3>3. \A m \in u : n >= m
      BY <3>1, <3>2
    <3>. QED
      BY <3>3, Zenon DEF Max
  <2>2. Cardinality(u \ {Max(u)}) = Cardinality(u) - 1
    BY <1>0, <2>1, FS_RemoveElement
  <2>3. Cardinality(u) # 0
    BY <1>0, <1>a, FS_EmptySet
  <2>. QED
    BY <2>2, <2>3
<1>1. 0 \in T
  <2> DEFINE f == [u \in SUBSET D |-> base]
  <2>1. ASSUME NEW u \in SUBSET D, Cardinality(u) <= 0 PROVE Eq(f, u)
    <3>1. Cardinality(u) = 0
      BY <1>0, <2>1
    <3>2. u = {}
      BY <1>0, <3>1, FS_EmptySet, Zenon
    <3>. QED
      BY <3>2
  <2> HIDE DEF f, Eq
  <2>. QED
    BY <2>1
<1>2. ASSUME NEW n \in Nat, n \in T PROVE n + 1 \in T
  <2> PICK f : UpTo(f, n)
    BY <1>2
  <2> DEFINE g == [u \in SUBSET D |->
                     IF Cardinality(u) <= n THEN f[u]
                     ELSE FeedTx(f[u \ {Max(u)}], leaves[Max(u)])]
  <2>1. ASSUME NEW u \in SUBSET D, Cardinality(u) <= n + 1 PROVE Eq(g, u)
    <3>1. CASE Cardinality(u) <= n
      <4>1. Eq(f, u) /\ g[u] = f[u]
        BY <3>1
      <4>2. u # {} => g[u \ {Max(u)}] = f[u \ {Max(u)}]
        BY <1>0, <1>a, <3>1
      <4> HIDE DEF g
      <4>. QED
        BY <4>1, <4>2
    <3>2. CASE ~ (Cardinality(u) <= n)
      <4>1. u # {}
        <5>1. Cardinality(u) # 0
          BY <3>2
        <5>. QED
          BY <1>0, <5>1, FS_EmptySet, Zenon
      <4>2. Cardinality(u) = n + 1
        BY <1>0, <2>1, <3>2
      <4>3. g[u] = FeedTx(f[u \ {Max(u)}], leaves[Max(u)])
        BY <3>2
      <4>4. g[u \ {Max(u)}] = f[u \ {Max(u)}]
        BY <1>0, <1>a, <4>1, <4>2
      <4> HIDE DEF g
      <4>. QED
        BY <4>1, <4>3, <4>4
    <3>. QED
      BY <3>1, <3>2
  <2> HIDE DEF g, Eq
  <2>. QED
    BY <2>1
<1>3. Cardinality(D) \in T
  <2> HIDE DEF T
  <2>1. \A n \in Nat : n \in T
    BY <1>1, <1>2, NaturalInduction
  <2>. QED
    BY <1>0, <2>1
<1>4. PICK f : UpTo(f, Cardinality(D))
  BY <1>3
<1> DEFINE g == [u \in SUBSET D |-> f[u]]
<1>5. ASSUME NEW u \in SUBSET D
      PROVE  g[u] = IF u = {} THEN base ELSE FeedTx(g[u \ {Max(u)}], leaves[Max(u)])
  <2>1. Cardinality(u) <= Cardinality(D)
    BY FS_Subset
  <2>2. Eq(f, u) /\ g[u] = f[u]
    BY <1>4, <2>1
  <2>3. u # {} => g[u \ {Max(u)}] = f[u \ {Max(u)}]
    BY <1>a
  <2> HIDE DEF g
  <2>. QED
    BY <2>2, <2>3
<1>6. g = [u \in SUBSET D |-> g[u]]
  OBVIOUS
<1> HIDE DEF g
<1>7. g = [u \in SUBSET D |-> IF u = {} THEN base ELSE FeedTx(g[u \ {Max(u)}], leaves[Max(u)])]
  BY <1>5, <1>6, Zenon
<1>. QED
  BY <1>7, Zenon DEF Feeds

(***************************************************************************)
(* So a block is fed leaf by leaf: there is a history of the store, from   *)
(* the begun block to what FeedTxs returns.                                *)
(***************************************************************************)
LEMMA FedLeafByLeaf ==
  ASSUME NEW p, NEW txs, NEW n \in Nat, DOMAIN Leaves(p, txs) = 1 .. n
  PROVE  \E t : /\ t[0] = BeginBlock(store[p]) /\ t[n] = FeedTxs(p, txs)
                /\ \A k \in 0 .. n - 1 : t[k + 1] = FeedTx(t[k], Leaves(p, txs)[k + 1])
<1> DEFINE D == 1 .. n
           base == BeginBlock(store[p])
           leaves == Leaves(p, txs)
           fold == CHOOSE f : Feeds(f, base, leaves, D)
           t == [k \in 0 .. n |-> fold[1 .. k]]
<1>1. FeedTxs(p, txs) = fold[D]
  <2>1. FeedTxs(p, txs) = FoldLeft(FeedTx, base, leaves)
    BY Zenon DEF FeedTxs
  <2> HIDE DEF base, leaves
  <2>2. DOMAIN leaves = D
    BY DEF leaves
  <2>. QED
    BY <2>1, <2>2, Zenon DEF FoldLeft, MapThenFoldSet, Feeds
<1>2. Feeds(fold, base, leaves, D)
  <2>1. D \subseteq Nat /\ IsFiniteSet(D)
    BY FS_Interval
  <2> HIDE DEF D, base, leaves
  <2>. QED
    BY <2>1, FeedsExists, Zenon
<1> HIDE DEF fold, base, leaves
<1>3. fold[{}] = base
  <2>1. {} \in SUBSET D
    OBVIOUS
  <2> HIDE DEF D
  <2>. QED
    BY <1>2, <2>1, Zenon DEF Feeds
<1>4. ASSUME NEW k \in 0 .. n - 1
      PROVE  fold[1 .. k + 1] = FeedTx(fold[1 .. k], leaves[k + 1])
  <2> DEFINE u == 1 .. k + 1
  <2>1. u \in SUBSET D /\ u # {} /\ u \ {k + 1} = 1 .. k
    OBVIOUS
  <2>2. Max(u) = k + 1
    <3>1. k + 1 \in u /\ \A y \in u : k + 1 >= y
      OBVIOUS
    <3>2. \A x \in u : (\A y \in u : x >= y) => x = k + 1
      OBVIOUS
    <3> HIDE DEF u
    <3>. QED
      BY <3>1, <3>2, Zenon DEF Max
  <2> HIDE DEF u, D
  <2>3. fold[u] = FeedTx(fold[u \ {Max(u)}], leaves[Max(u)])
    BY <1>2, <2>1, Zenon DEF Feeds
  <2>4. fold[u] = FeedTx(fold[1 .. k], leaves[k + 1])
    BY <2>1, <2>2, <2>3, Zenon
  <2>. QED
    BY <2>4, Zenon DEF u
<1>5. t[0] = base /\ t[n] = FeedTxs(p, txs)
  <2>1. 0 \in 0 .. n /\ n \in 0 .. n /\ 1 .. 0 = {}
    OBVIOUS
  <2>. QED
    BY <1>1, <1>3, <2>1
<1>6. ASSUME NEW k \in 0 .. n - 1
      PROVE  t[k + 1] = FeedTx(t[k], leaves[k + 1])
  <2>1. k \in 0 .. n /\ k + 1 \in 0 .. n
    OBVIOUS
  <2>2. t[k] = fold[1 .. k] /\ t[k + 1] = fold[1 .. k + 1]
    BY <2>1
  <2>. QED
    BY <1>4, <2>2, Zenon
<1> HIDE DEF t
<1>. QED
  BY <1>5, <1>6 DEF base, leaves

(***************************************************************************)
(* What feeding some leaves may do to a store: nothing but put them behind *)
(* the tree and hold them, take what is spent, and remember it.            *)
(***************************************************************************)
Grows(s, t, leaves) ==
  /\ t \in StoreRecord(Txs) /\ Sound(t)
  /\ t.tree = s.tree \o leaves
  /\ t.held \subseteq s.held \cup (Len(s.tree) + 1 .. Len(s.tree) + Len(leaves))
  /\ t.in_flight \subseteq s.in_flight
  /\ StillKnown(s) \subseteq StillKnown(t)

\* What the leaves' transactions spend is not held any more.
Takes(s, t, leaves) ==
  \A i \in DOMAIN leaves : \A n \in Spends(leaves[i]) : \A j \in DOMAIN s.tree :
    s.tree[j] = n => j \notin t.held

(***************************************************************************)
(* One transaction does so.                                                *)
(***************************************************************************)
LEMMA TxFed ==
  ASSUME sent \in Seq(PayoutRecord), NEW s \in StoreRecord(Txs), Sound(s), NEW tx \in Txs
  PROVE  LET t == FeedTx(s, tx)
         IN /\ t \in StoreRecord(Txs) /\ Sound(t)
            /\ t.tree = Append(s.tree, tx) /\ t.synced_to = s.synced_to
            /\ t.checkpoints = s.checkpoints
            /\ t.held \subseteq s.held \cup {Len(s.tree) + 1} /\ t.in_flight \subseteq s.in_flight
            /\ StillKnown(s) \subseteq StillKnown(t)
            /\ IsInjective(s.tree) =>
                 \A n \in Spends(tx) : \A j \in DOMAIN s.tree : s.tree[j] = n => j \notin t.held
<1>1. s.tree \in Seq(Txs) /\ DOMAIN s.tree = 1 .. Len(s.tree) /\ Len(s.tree) \in Nat
  BY LenProperties DEF StoreRecord
<1>2. ASSUME NEW u, u \in StoreRecord(Txs), Sound(u), u.tree = s.tree
      PROVE  LET t == AppendOurs(u, tx)
             IN /\ t \in StoreRecord(Txs) /\ Sound(t)
                /\ t.tree = Append(s.tree, tx) /\ t.synced_to = u.synced_to
                /\ t.checkpoints = u.checkpoints
                /\ t.held = u.held \cup {Len(s.tree) + 1} /\ t.in_flight = u.in_flight
                /\ StillKnown(u) \subseteq StillKnown(t)
  <2> DEFINE t == AppendOurs(u, tx)
  <2>1. /\ t \in StoreRecord(Txs) /\ Sound(t)
        /\ t.tree = Append(s.tree, tx) /\ t.synced_to = u.synced_to
        /\ t.checkpoints = u.checkpoints
        /\ t.held = u.held \cup {Len(s.tree) + 1} /\ t.in_flight = u.in_flight
        /\ t.spent = u.spent
    <3>1. u \in StoreRecord(Txs) /\ Sound(u) /\ u.tree = s.tree /\ tx \in Txs
      BY <1>2
    <3>2. /\ t \in StoreRecord(Txs) /\ Sound(t)
          /\ t.tree = Append(u.tree, tx) /\ t.synced_to = u.synced_to
          /\ t.checkpoints = u.checkpoints
          /\ t.held = u.held \cup {Len(u.tree) + 1} /\ t.in_flight = u.in_flight
          /\ t.spent = u.spent
      BY <3>1, NoteAppended
    <3> HIDE DEF t
    <3>. QED
      BY <3>1, <3>2
  <2> HIDE DEF t
  <2>2. u.in_flight \subseteq DOMAIN s.tree
    BY <1>2 DEF Sound
  <2>3. \A j \in DOMAIN s.tree : t.tree[j] = u.tree[j]
    BY <1>1, <1>2, <2>1, AppendProperties
  <2>4. InFlight(u) \subseteq InFlight(t)
    BY <2>1, <2>2, <2>3 DEF InFlight
  <2>. QED
    BY <2>1, <2>4 DEF t, StillKnown
<1>3. CASE Spends(tx) = {}
  <2>1. FeedTx(s, tx) = AppendOurs(s, tx)
    BY <1>3, OneTxFed
  <2>. QED
    BY <1>2, <1>3, <2>1
<1>4. CASE Spends(tx) # {}
  <2>1. PICK n \in Txs : Spends(tx) = {n}
    BY <1>4, TxParts
  <2> DEFINE u == SpendNullifier(s, n)
             t == FeedTx(s, tx)
  <2>2. t = AppendOurs(u, tx)
    BY <2>1, OneTxFed
  <2>3. /\ u \in StoreRecord(Txs) /\ Sound(u)
        /\ u.tree = s.tree /\ u.synced_to = s.synced_to /\ u.checkpoints = s.checkpoints
        /\ u.held \subseteq s.held /\ u.in_flight \subseteq s.in_flight
        /\ StillKnown(s) \subseteq StillKnown(u)
        /\ IsInjective(s.tree) => \A i \in DOMAIN s.tree : s.tree[i] = n => i \notin u.held
    BY NoteNullified
  <2> HIDE DEF u, t
  <2>4. /\ t \in StoreRecord(Txs) /\ Sound(t)
        /\ t.tree = Append(s.tree, tx) /\ t.synced_to = u.synced_to
        /\ t.checkpoints = u.checkpoints
        /\ t.held = u.held \cup {Len(s.tree) + 1} /\ t.in_flight = u.in_flight
        /\ StillKnown(u) \subseteq StillKnown(t)
    BY <1>2, <2>2, <2>3
  <2>5. \A j \in DOMAIN s.tree : j # Len(s.tree) + 1
    BY <1>1
  <2>6. IsInjective(s.tree) =>
          \A m \in Spends(tx) : \A j \in DOMAIN s.tree : s.tree[j] = m => j \notin t.held
    BY <2>1, <2>3, <2>4, <2>5
  <2>. QED
    BY <2>3, <2>4, <2>6 DEF t
<1>. QED
  BY <1>3, <1>4

(***************************************************************************)
(* The beginning of a sequence: one entry more, and behind another one.    *)
(***************************************************************************)
LEMMA Beginnings ==
  ASSUME NEW S, NEW t \in Seq(S)
  PROVE  /\ \A k \in 0 .. Len(t) : /\ SubSeq(t, 1, k) \in Seq(S) /\ Len(SubSeq(t, 1, k)) = k
                                   /\ DOMAIN SubSeq(t, 1, k) = 1 .. k
                                   /\ \A i \in 1 .. k : SubSeq(t, 1, k)[i] = t[i]
         /\ SubSeq(t, 1, 0) = << >> /\ SubSeq(t, 1, Len(t)) = t
         /\ \A k \in 0 .. Len(t) - 1 : SubSeq(t, 1, k + 1) = Append(SubSeq(t, 1, k), t[k + 1])
<1>1. Len(t) \in Nat /\ DOMAIN t = 1 .. Len(t) /\ \A i \in 1 .. Len(t) : t[i] \in S
  BY LenProperties, ElementOfSeq
<1>2. ASSUME NEW k \in 0 .. Len(t)
      PROVE  /\ SubSeq(t, 1, k) \in Seq(S) /\ Len(SubSeq(t, 1, k)) = k
             /\ DOMAIN SubSeq(t, 1, k) = 1 .. k
             /\ \A i \in 1 .. k : SubSeq(t, 1, k)[i] = t[i]
  <2>1. \A i \in 1 .. k : t[i] \in S
    BY <1>1
  <2>2. /\ SubSeq(t, 1, k) \in Seq(S) /\ Len(SubSeq(t, 1, k)) = k
        /\ \A i \in 1 .. k : SubSeq(t, 1, k)[i] = t[i]
    BY <1>1, <2>1, SubSeqProperties
  <2>. QED
    BY <2>2, LenProperties
<1>3. SubSeq(t, 1, 0) = << >>
  <2>1. 0 \in 0 .. Len(t)
    BY <1>1
  <2>. QED
    BY <1>2, <2>1, EmptySeq
<1>4. SubSeq(t, 1, Len(t)) = t
  <2>1. Len(t) \in 0 .. Len(t)
    BY <1>1
  <2>. QED
    BY <1>2, <2>1, SeqEqual
<1>5. ASSUME NEW k \in 0 .. Len(t) - 1
      PROVE  SubSeq(t, 1, k + 1) = Append(SubSeq(t, 1, k), t[k + 1])
  <2> DEFINE a == SubSeq(t, 1, k)
             b == SubSeq(t, 1, k + 1)
             c == Append(a, t[k + 1])
  <2>1. k \in 0 .. Len(t) /\ k + 1 \in 0 .. Len(t) /\ k + 1 \in 1 .. Len(t) /\ k \in Nat
    BY <1>1
  <2>2. /\ a \in Seq(S) /\ Len(a) = k /\ b \in Seq(S) /\ Len(b) = k + 1
        /\ \A i \in 1 .. k : a[i] = t[i]
        /\ \A i \in 1 .. k + 1 : b[i] = t[i]
    BY <1>2, <2>1
  <2>3. t[k + 1] \in S
    BY <1>1, <2>1
  <2> HIDE DEF a, b
  <2>4. /\ c \in Seq(S) /\ Len(c) = k + 1
        /\ \A i \in 1 .. k : c[i] = a[i]
        /\ c[k + 1] = t[k + 1]
    BY <2>2, <2>3, AppendProperties
  <2> HIDE DEF c
  <2>5. \A i \in 1 .. k + 1 : b[i] = c[i]
    <3>1. \A i \in 1 .. k + 1 : i \in 1 .. k \/ i = k + 1
      BY <2>1
    <3>. QED
      BY <2>2, <2>4, <3>1
  <2>6. b = c
    BY <2>2, <2>4, <2>5, SeqEqual
  <2>. QED
    BY <2>6 DEF a, b, c
<1>. QED
  BY <1>2, <1>3, <1>4, <1>5

\* Behind another one, it has no repetition if the whole has none.
LEMMA BeginningInjective ==
  ASSUME NEW S, NEW s \in Seq(S), NEW t \in Seq(S), NEW k \in 0 .. Len(t), IsInjective(s \o t)
  PROVE  IsInjective(s \o SubSeq(t, 1, k))
<1> DEFINE u == SubSeq(t, 1, k)
           m == Len(s)
           n == Len(t)
<1>1. m \in Nat /\ n \in Nat /\ k \in Nat /\ k <= n
  BY LenProperties
<1>2. u \in Seq(S) /\ Len(u) = k /\ \A i \in 1 .. k : u[i] = t[i]
  BY Beginnings
<1> HIDE DEF u
<1>3. /\ s \o t \in Seq(S) /\ Len(s \o t) = m + n
      /\ \A i \in 1 .. m + n : (s \o t)[i] = IF i <= m THEN s[i] ELSE t[i - m]
  BY ConcatAt
<1>4. /\ s \o u \in Seq(S) /\ Len(s \o u) = m + k
      /\ \A i \in 1 .. m + k : (s \o u)[i] = IF i <= m THEN s[i] ELSE u[i - m]
  BY <1>2, ConcatAt
<1> HIDE DEF m, n
<1>5. DOMAIN (s \o t) = 1 .. m + n /\ DOMAIN (s \o u) = 1 .. m + k
  BY <1>3, <1>4, LenProperties
<1>6. \A i \in 1 .. m + k : i \in 1 .. m + n /\ (i <= m \/ i - m \in 1 .. k)
  BY <1>1
<1>7. \A i \in 1 .. m + k : (s \o u)[i] = (s \o t)[i]
  BY <1>2, <1>3, <1>4, <1>6
<1> DEFINE a == s \o t
           b == s \o u
<1>8. /\ IsInjective(a) /\ DOMAIN a = 1 .. m + n /\ DOMAIN b = 1 .. m + k
      /\ \A i \in 1 .. m + k : b[i] = a[i]
  BY <1>5, <1>7
<1> HIDE DEF a, b
<1>9. IsInjective(b)
  BY <1>6, <1>8 DEF IsInjective
<1>. QED
  BY <1>9 DEF a, b, u

(***************************************************************************)
(* And so does a block, or what of it was fed before a failure; the last   *)
(* checkpoint is where the tree was.                                       *)
(***************************************************************************)
LEMMA BlockFed ==
  ASSUME sent \in Seq(PayoutRecord), NEW p, NEW txs \in SUBSET Txs,
         store[p] \in StoreRecord(Txs), Sound(store[p])
  PROVE  LET s == store[p]
             t == FeedTxs(p, txs)
             leaves == Leaves(p, txs)
         IN /\ Grows(s, t, leaves)
            /\ t.synced_to = s.synced_to
            /\ t.checkpoints # << >> /\ Last(t.checkpoints) = Len(s.tree)
            /\ IsInjective(s.tree \o leaves) => Takes(s, t, leaves)
<1> DEFINE s == store[p]
           leaves == Leaves(p, txs)
           n == Len(leaves)
           upTo(k) == SubSeq(leaves, 1, k)
           begun == BeginBlock(s)
<1>1. leaves \in Seq(Txs)
  BY LeavesAre
<1>2. n \in Nat /\ DOMAIN leaves = 1 .. n
  BY <1>1, LenProperties
<1>3. PICK t : /\ t[0] = begun /\ t[n] = FeedTxs(p, txs)
               /\ \A k \in 0 .. n - 1 : t[k + 1] = FeedTx(t[k], leaves[k + 1])
  <2> HIDE DEF n
  <2>. QED
    BY <1>2, FedLeafByLeaf
<1>4. /\ begun \in StoreRecord(Txs) /\ Sound(begun)
      /\ begun.tree = s.tree /\ begun.synced_to = s.synced_to
      /\ begun.held = s.held /\ begun.in_flight = s.in_flight /\ begun.spent = s.spent
      /\ begun.checkpoints # << >> /\ Last(begun.checkpoints) = Len(s.tree)
  BY BlockBegun
<1>5. s.tree \in Seq(Txs) /\ DOMAIN s.tree = 1 .. Len(s.tree) /\ Len(s.tree) \in Nat
  BY LenProperties DEF StoreRecord
<1>6. /\ upTo(0) = << >> /\ upTo(n) = leaves
      /\ \A k \in 0 .. n : /\ upTo(k) \in Seq(Txs) /\ Len(upTo(k)) = k
                          /\ DOMAIN upTo(k) = 1 .. k
                          /\ \A i \in 1 .. k : upTo(k)[i] = leaves[i]
      /\ \A k \in 0 .. n - 1 : upTo(k + 1) = Append(upTo(k), leaves[k + 1])
  <2> HIDE DEF leaves
  <2>. QED
    BY <1>1, Beginnings
<1> HIDE DEF s, leaves, n, upTo, begun
<1> DEFINE After(k) ==
             /\ Grows(s, t[k], upTo(k))
             /\ t[k].synced_to = s.synced_to /\ t[k].checkpoints = begun.checkpoints
             /\ IsInjective(s.tree \o leaves) => Takes(s, t[k], upTo(k))
           T == {k \in Nat : k <= n => After(k)}
<1>7. 0 \in T
  <2>4. s.tree \o << >> = s.tree
    BY <1>5, ConcatEmptySeq
  <2>5. StillKnown(begun) = StillKnown(s)
    BY <1>4 DEF StillKnown, InFlight
  <2>6. Grows(s, begun, << >>)
    BY <1>4, <2>4, <2>5 DEF Grows
  <2>7. Takes(s, begun, << >>)
    BY DEF Takes
  <2>. QED
    BY <1>3, <1>4, <1>6, <2>6, <2>7
<1>8. ASSUME NEW k \in Nat, k \in T PROVE k + 1 \in T
  <2> SUFFICES ASSUME k + 1 <= n PROVE After(k + 1)
    <3> HIDE DEF After
    <3>1. k + 1 \in Nat
      OBVIOUS
    <3>. QED
      BY <3>1
  <2>1. k \in 0 .. n - 1 /\ k \in 0 .. n /\ k + 1 \in 0 .. n /\ k + 1 \in 1 .. n /\ k <= n
    BY <1>2
  <2>2. After(k)
    BY <1>8, <2>1
  <2>3. t[k + 1] = FeedTx(t[k], leaves[k + 1]) /\ leaves[k + 1] \in Txs
    BY <1>1, <1>2, <1>3, <2>1
  <2> DEFINE old == t[k]
             new == t[k + 1]
             tx == leaves[k + 1]
  <2>4. /\ old \in StoreRecord(Txs) /\ Sound(old)
        /\ old.tree = s.tree \o upTo(k)
        /\ old.held \subseteq s.held \cup (Len(s.tree) + 1 .. Len(s.tree) + Len(upTo(k)))
        /\ old.in_flight \subseteq s.in_flight /\ StillKnown(s) \subseteq StillKnown(old)
    BY <2>2, Zenon DEF Grows
  <2> HIDE DEF old, new, tx, After, T
  <2>5. /\ new \in StoreRecord(Txs) /\ Sound(new)
        /\ new.tree = Append(old.tree, tx) /\ new.synced_to = old.synced_to
        /\ new.checkpoints = old.checkpoints
        /\ new.held \subseteq old.held \cup {Len(old.tree) + 1} /\ new.in_flight \subseteq old.in_flight
        /\ StillKnown(old) \subseteq StillKnown(new)
        /\ IsInjective(old.tree) =>
             \A m \in Spends(tx) : \A j \in DOMAIN old.tree : old.tree[j] = m => j \notin new.held
    <3>1. new = FeedTx(old, tx) /\ tx \in Txs
      BY <2>3 DEF old, new, tx
    <3>. QED
      BY <2>4, <3>1, TxFed
  <2>6. /\ upTo(k) \in Seq(Txs) /\ Len(upTo(k)) = k
        /\ upTo(k + 1) \in Seq(Txs) /\ Len(upTo(k + 1)) = k + 1
        /\ DOMAIN upTo(k) = 1 .. k /\ DOMAIN upTo(k + 1) = 1 .. k + 1
        /\ \A i \in 1 .. k : upTo(k)[i] = leaves[i]
        /\ \A i \in 1 .. k + 1 : upTo(k + 1)[i] = leaves[i]
    BY <1>6, <2>1
  <2>7. upTo(k + 1) = Append(upTo(k), tx)
    BY <1>6, <2>1 DEF tx
  <2>8. new.tree = s.tree \o upTo(k + 1)
    <3> DEFINE a == s.tree
               b == upTo(k)
    <3>1. tx \in Txs /\ a \in Seq(Txs) /\ b \in Seq(Txs)
      BY <1>5, <2>3, <2>6 DEF tx
    <3> HIDE DEF a, b
    <3>2. a \o Append(b, tx) = Append(a \o b, tx)
      BY <3>1, ConcatAppend
    <3>. QED
      BY <2>4, <2>5, <2>7, <3>2 DEF a, b
  <2>9. /\ Len(old.tree) = Len(s.tree) + k
        /\ \A j \in DOMAIN s.tree : j \in DOMAIN old.tree /\ old.tree[j] = s.tree[j]
    <3> DEFINE a == s.tree
               b == upTo(k)
               m == Len(s.tree)
    <3>1. a \in Seq(Txs) /\ b \in Seq(Txs) /\ Len(a) = m /\ Len(b) = k /\ m \in Nat
      BY <1>5, <2>6
    <3>2. DOMAIN a = 1 .. m /\ old.tree = a \o b
      BY <1>5, <2>4
    <3> HIDE DEF a, b, m
    <3>3. /\ a \o b \in Seq(Txs) /\ Len(a \o b) = m + k
          /\ \A i \in 1 .. m + k : (a \o b)[i] = IF i <= m THEN a[i] ELSE b[i - m]
      BY <3>1, ConcatAt
    <3>4. DOMAIN (a \o b) = 1 .. m + k
      BY <3>3, LenProperties
    <3>5. \A j \in 1 .. m : j \in 1 .. m + k /\ j <= m
      BY <3>1
    <3>6. Len(old.tree) = m + k /\ \A j \in DOMAIN a : j \in DOMAIN old.tree /\ old.tree[j] = a[j]
      BY <3>2, <3>3, <3>4, <3>5
    <3>. QED
      BY <3>6 DEF a, m
  <2>10. Grows(s, new, upTo(k + 1))
    <3>1. new.held \subseteq s.held \cup (Len(s.tree) + 1 .. Len(s.tree) + Len(upTo(k + 1)))
      <4>1. old.held \subseteq s.held \cup (Len(s.tree) + 1 .. Len(s.tree) + k)
        BY <2>4, <2>6
      <4>2. new.held \subseteq old.held \cup {Len(s.tree) + k + 1}
        BY <2>5, <2>9
      <4>3. /\ (Len(s.tree) + 1 .. Len(s.tree) + k) \subseteq (Len(s.tree) + 1 .. Len(s.tree) + (k + 1))
            /\ Len(s.tree) + k + 1 \in Len(s.tree) + 1 .. Len(s.tree) + (k + 1)
        <5> DEFINE m == Len(s.tree)
        <5>1. m \in Nat
          BY <1>5
        <5> HIDE DEF m
        <5>2. (m + 1 .. m + k) \subseteq (m + 1 .. m + (k + 1)) /\ m + k + 1 \in m + 1 .. m + (k + 1)
          BY <5>1
        <5>. QED
          BY <5>2 DEF m
      <4>4. new.held \subseteq s.held \cup (Len(s.tree) + 1 .. Len(s.tree) + (k + 1))
        BY <4>1, <4>2, <4>3
      <4>. QED
        BY <2>6, <4>4
    <3>. QED
      BY <2>4, <2>5, <2>8, <3>1, Zenon DEF Grows
  <2>11. ASSUME IsInjective(s.tree \o leaves)
         PROVE  Takes(s, new, upTo(k + 1))
    <3>1. Takes(s, old, upTo(k))
      BY <2>2, <2>11 DEF After, old
    <3>2. IsInjective(old.tree)
      <4> DEFINE a == s.tree
      <4>1. a \in Seq(Txs) /\ IsInjective(a \o leaves) /\ k \in 0 .. Len(leaves) /\ old.tree = a \o upTo(k)
        BY <1>5, <2>1, <2>4, <2>11 DEF n
      <4> HIDE DEF a
      <4>. QED
        BY <1>1, <4>1, BeginningInjective DEF upTo
    <3>3. \A j \in DOMAIN s.tree : j # Len(old.tree) + 1
      BY <1>5, <2>9, <2>1
    <3>4. ASSUME NEW i \in 1 .. k + 1, NEW m \in Spends(leaves[i]), NEW j \in DOMAIN s.tree,
                 s.tree[j] = m
          PROVE  j \notin new.held
      <4>1. CASE i = k + 1
        BY <2>5, <2>9, <3>2, <3>4, <4>1 DEF tx
      <4>2. CASE i \in 1 .. k
        <5>1. i \in DOMAIN upTo(k) /\ upTo(k)[i] = leaves[i]
          BY <2>6, <4>2
        <5>2. j \notin old.held
          BY <3>1, <3>4, <5>1 DEF Takes
        <5>. QED
          BY <2>5, <3>3, <5>2
      <4>3. i = k + 1 \/ i \in 1 .. k
        OBVIOUS
      <4>. QED
        BY <4>1, <4>2, <4>3
    <3>. QED
      BY <2>6, <3>4 DEF Takes
  <2>12. new.synced_to = s.synced_to /\ new.checkpoints = begun.checkpoints
    <3>1. old.synced_to = s.synced_to /\ old.checkpoints = begun.checkpoints
      BY <2>2 DEF After, old
    <3>. QED
      BY <2>5, <3>1
  <2>. QED
    BY <2>10, <2>11, <2>12 DEF After, new
<1> HIDE DEF T, After
<1>9. \A k \in Nat : k \in T
  BY <1>7, <1>8, NaturalInduction
<1>10. After(n)
  BY <1>2, <1>9 DEF T
<1>. QED
  BY <1>3, <1>4, <1>6, <1>10 DEF After, s, leaves

-----------------------------------------------------------------------------
(***************************************************************************)
(* Feeding that fails loses nothing but what the chain showed spent.       *)
(***************************************************************************)
Loses(s, t) ==
  /\ t \in StoreRecord(Txs) /\ Sound(t)
  /\ t.tree = s.tree /\ t.synced_to = s.synced_to
  /\ t.held \subseteq s.held /\ t.in_flight \subseteq s.in_flight
  /\ StillKnown(s) \subseteq StillKnown(t)

\* A feed that fails leaves the tree as it was, and holds at most what it held.
LEMMA BlockUndone ==
  ASSUME sent \in Seq(PayoutRecord), NEW p, NEW txs \in SUBSET Txs,
         store[p] \in StoreRecord(Txs), Sound(store[p])
  PROVE  Loses(store[p], Rewind(FeedTxs(p, txs)))
<1> DEFINE s == store[p]
           t == FeedTxs(p, txs)
           leaves == Leaves(p, txs)
           m == Len(s.tree)
           front == Front(t.checkpoints)
           held == {q \in t.held : q <= m}
           r == Rewind(t)
<1>1. /\ Grows(s, t, leaves) /\ t.synced_to = s.synced_to
      /\ t.checkpoints # << >> /\ Last(t.checkpoints) = m
  BY BlockFed
<1>2. leaves \in Seq(Txs)
  BY LeavesAre
<1>3. r = [t EXCEPT !.tree = SubSeq(t.tree, 1, m), !.checkpoints = front, !.held = held]
  BY <1>1 DEF Rewind
<1>4. s.tree \in Seq(Txs) /\ DOMAIN s.tree = 1 .. m /\ m \in Nat
  BY LenProperties DEF StoreRecord
<1>5. s.held \cup s.in_flight \subseteq 1 .. m /\ s.held \cap s.in_flight = {}
  BY <1>4 DEF Sound
<1>6. SubSeq(s.tree \o leaves, 1, m) = s.tree
  <2> DEFINE a == s.tree
             whole == a \o leaves
             b == SubSeq(whole, 1, m)
  <2>1. a \in Seq(Txs) /\ Len(a) = m /\ Len(leaves) \in Nat
    BY <1>2, <1>4, LenProperties
  <2> HIDE DEF a, leaves, m
  <2>2. /\ whole \in Seq(Txs) /\ Len(whole) = m + Len(leaves)
        /\ \A i \in 1 .. m + Len(leaves) : whole[i] = IF i <= m THEN a[i] ELSE leaves[i - m]
    BY <1>2, <2>1, ConcatAt
  <2>3. m \in 0 .. Len(whole)
    BY <1>4, <2>1, <2>2
  <2> HIDE DEF whole
  <2>4. b \in Seq(Txs) /\ Len(b) = m /\ \A i \in 1 .. m : b[i] = whole[i]
    BY <2>2, <2>3, Beginnings
  <2> HIDE DEF b
  <2>5. \A i \in 1 .. m : b[i] = a[i]
    BY <1>4, <2>1, <2>2, <2>4
  <2>6. b = a
    BY <2>1, <2>4, <2>5, SeqEqual
  <2>. QED
    BY <2>6 DEF a, b, whole
<1>7. front \in Seq(Nat) /\ Len(front) <= CHECKPOINT_DEPTH
  <2> DEFINE c == t.checkpoints
  <2>1. c \in Seq(Nat) /\ c # << >> /\ Len(c) <= CHECKPOINT_DEPTH
    BY <1>1 DEF Grows, StoreRecord, Sound
  <2>2. Len(c) \in Nat /\ Len(c) # 0
    BY <2>1, LenProperties, EmptySeq
  <2> HIDE DEF c
  <2>3. Len(c) - 1 \in 0 .. Len(c)
    BY <2>2
  <2>4. SubSeq(c, 1, Len(c) - 1) \in Seq(Nat) /\ Len(SubSeq(c, 1, Len(c) - 1)) = Len(c) - 1
    BY <2>1, <2>3, Beginnings
  <2>5. CHECKPOINT_DEPTH \in Nat
    BY CheckpointAssumption
  <2>6. Front(c) \in Seq(Nat) /\ Len(Front(c)) <= CHECKPOINT_DEPTH
    BY <2>1, <2>2, <2>4, <2>5 DEF Front
  <2>. QED
    BY <2>6 DEF c
<1>8. held \subseteq s.held
  <2>1. t.held \subseteq s.held \cup (m + 1 .. m + Len(leaves))
    BY <1>1 DEF Grows
  <2>2. \A q \in m + 1 .. m + Len(leaves) : ~ (q <= m)
    BY <1>4
  <2>. QED
    BY <2>1, <2>2
<1>9. /\ t \in StoreRecord(Txs) /\ t.tree = s.tree \o leaves
      /\ t.in_flight \subseteq s.in_flight /\ StillKnown(s) \subseteq StillKnown(t)
  BY <1>1 DEF Grows
<1> HIDE DEF s, t, leaves, m, front, held, r
<1>10. /\ r.tree = s.tree /\ r.checkpoints = front /\ r.held = held
       /\ r.in_flight = t.in_flight /\ r.spent = t.spent /\ r.synced_to = t.synced_to
  BY <1>3, <1>6, <1>9 DEF StoreRecord
<1>11. held \in SUBSET Nat
  BY <1>9 DEF StoreRecord, held
<1>12. r \in StoreRecord(Txs)
  BY <1>3, <1>4, <1>6, <1>7, <1>9, <1>11 DEF StoreRecord
<1>13. Sound(r)
  BY <1>4, <1>5, <1>7, <1>8, <1>9, <1>10 DEF Sound
<1>14. StillKnown(t) = StillKnown(r)
  <2>1. \A q \in 1 .. m : t.tree[q] = s.tree[q]
    <3> DEFINE a == s.tree
               whole == a \o leaves
    <3>1. a \in Seq(Txs) /\ Len(a) = m /\ Len(leaves) \in Nat /\ DOMAIN a = 1 .. m
      BY <1>2, <1>4, LenProperties DEF m
    <3> HIDE DEF a
    <3>2. \A i \in 1 .. m + Len(leaves) : whole[i] = IF i <= m THEN a[i] ELSE leaves[i - m]
      BY <1>2, <3>1, ConcatAt
    <3>3. \A i \in 1 .. m : i \in 1 .. m + Len(leaves) /\ i <= m
      BY <1>4, <3>1
    <3>4. \A i \in 1 .. m : whole[i] = a[i]
      BY <3>2, <3>3
    <3>. QED
      BY <1>9, <3>4 DEF a
  <2>2. \A q \in t.in_flight : t.tree[q] = r.tree[q]
    BY <1>5, <1>9, <1>10, <2>1
  <2>. QED
    BY <1>10, <2>2 DEF StillKnown, InFlight
<1>15. Loses(s, r)
  BY <1>1, <1>8, <1>9, <1>10, <1>12, <1>13, <1>14 DEF Loses
<1>. QED
  BY <1>15 DEF s, r, t

(***************************************************************************)
(* A block is fed into both stores, if it is not in and is not refused.    *)
(***************************************************************************)
Fed(h) ==
  /\ h \in SyncedTo + 1 .. Tip
  /\ ~ FeedRefuses(h)
  /\ store' \in [Pools -> StoreRecord(Txs)]
  /\ \A p \in Pools : LET leaves == Leaves(p, chain[h])
                      IN /\ Grows(store[p], store'[p], leaves) /\ store'[p].synced_to = h
                         /\ IsInjective(store'[p].tree) => Takes(store[p], store'[p], leaves)

\* The heights of the chain, the trees and the blocks are numbers.
LEMMA HeightsAre ==
  ASSUME Shape
  PROVE  /\ SyncedTo \in Heights /\ Tip \in Heights /\ Heights \subseteq Nat
         /\ \A p \in Pools : store[p].synced_to \in Heights /\ SyncedTo <= store[p].synced_to
         /\ \A h \in 1 .. Tip : chain[h] \in SUBSET Txs /\ h \in Heights
         /\ Tip <= highest
<1>1. Heights \subseteq Nat /\ MaxHeight \in Nat
  BY ScannerBoundsAssumption DEF Heights
<1>2. "orchard" \in Pools /\ "ironwood" \in Pools /\ Pools = {"orchard", "ironwood"}
  BY DEF Pools
<1>3. \A p \in Pools : store[p].synced_to \in Heights
  BY DEF Shape, StoreShape, StoreRecord
<1>4. chain \in Seq(SUBSET Txs) /\ highest \in Heights /\ Tip <= highest
  BY DEF Shape, ChainShape
<1>5. Tip \in Nat /\ \A h \in 1 .. Tip : chain[h] \in SUBSET Txs
  BY <1>4, LenProperties, ElementOfSeq DEF Tip
<1>6. Tip \in Heights /\ \A h \in 1 .. Tip : h \in Heights
  BY <1>1, <1>4, <1>5 DEF Heights
<1>7. SyncedTo \in Heights /\ \A p \in Pools : SyncedTo <= store[p].synced_to
  <2> DEFINE a == store["orchard"].synced_to
             b == store["ironwood"].synced_to
  <2>1. a \in Nat /\ b \in Nat /\ a \in Heights /\ b \in Heights
    BY <1>1, <1>2, <1>3
  <2>2. SyncedTo = IF a <= b THEN a ELSE b
    BY DEF SyncedTo, Least
  <2>3. \A p \in Pools : store[p].synced_to = a \/ store[p].synced_to = b
    BY <1>2
  <2> HIDE DEF a, b
  <2>. QED
    BY <2>1, <2>2, <2>3
<1>. QED
  BY <1>1, <1>3, <1>4, <1>5, <1>6, <1>7

\* Feeding a block does nothing, or puts all of it in; failing to loses nothing.
LEMMA FeedCases ==
  ASSUME Shape, NEW h \in Heights
  PROVE  /\ FeedBlock(h) => (AlreadyIn(h) /\ UNCHANGED store) \/ Fed(h)
         /\ FeedBlockFails(h) =>
              /\ store' \in [Pools -> StoreRecord(Txs)]
              /\ \A p \in Pools : Loses(store[p], store'[p])
<1>1. sent \in Seq(PayoutRecord)
  BY DEF Shape, ChainShape
<1>2. \A p \in Pools : store[p] \in StoreRecord(Txs) /\ Sound(store[p])
  BY DEF Shape, StoreShape
<1>3. SyncedTo \in Nat /\ Tip \in Nat /\ h \in Nat /\ \A g \in 1 .. Tip : chain[g] \in SUBSET Txs
  BY HeightsAre
<1>4. ASSUME FeedBlock(h), ~ AlreadyIn(h) PROVE Fed(h)
  <2>1. /\ h <= Tip /\ ~ FeedRefuses(h)
        /\ store' = [p \in Pools |-> FinishBlock(FeedTxs(p, chain[h]), h)]
    BY <1>4 DEF FeedBlock
  <2>2. h \in SyncedTo + 1 .. Tip /\ h \in 1 .. Tip
    BY <1>3, <1>4, <2>1 DEF AlreadyIn
  <2>3. chain[h] \in SUBSET Txs
    BY <1>3, <2>2
  <2>4. ASSUME NEW p \in Pools
        PROVE  LET leaves == Leaves(p, chain[h])
               IN /\ store'[p] \in StoreRecord(Txs)
                  /\ Grows(store[p], store'[p], leaves) /\ store'[p].synced_to = h
                  /\ IsInjective(store'[p].tree) => Takes(store[p], store'[p], leaves)
    <3> DEFINE t == FeedTxs(p, chain[h])
               leaves == Leaves(p, chain[h])
               r == store'[p]
    <3>1. /\ Grows(store[p], t, leaves)
          /\ IsInjective(store[p].tree \o leaves) => Takes(store[p], t, leaves)
      BY <1>1, <1>2, <2>3, BlockFed
    <3>2. r = [t EXCEPT !.synced_to = h]
      BY <2>1 DEF FinishBlock
    <3>3. t \in StoreRecord(Txs) /\ Sound(t)
      BY <3>1 DEF Grows
    <3> HIDE DEF t, r, leaves
    <3>4. /\ r \in StoreRecord(Txs) /\ r.tree = t.tree /\ r.held = t.held
          /\ r.in_flight = t.in_flight /\ r.spent = t.spent /\ r.synced_to = h
          /\ r.checkpoints = t.checkpoints
      BY <3>2, <3>3 DEF StoreRecord
    <3>5. Sound(r) /\ StillKnown(r) = StillKnown(t)
      BY <3>3, <3>4 DEF Sound, StillKnown, InFlight
    <3>6. Grows(store[p], r, leaves)
      BY <3>1, <3>4, <3>5 DEF Grows
    <3>7. r.tree = store[p].tree \o leaves
      BY <3>6 DEF Grows
    <3>8. IsInjective(r.tree) => Takes(store[p], r, leaves)
      BY <3>1, <3>4, <3>7 DEF Takes
    <3>. QED
      BY <3>4, <3>6, <3>8 DEF r, leaves
  <2>5. store' \in [Pools -> StoreRecord(Txs)]
    <3>1. store' = [p \in Pools |-> store'[p]]
      BY <2>1
    <3>. QED
      BY <2>4, <3>1
  <2>. QED
    BY <2>1, <2>2, <2>4, <2>5 DEF Fed
<1>5. ASSUME FeedBlockFails(h)
      PROVE  /\ store' \in [Pools -> StoreRecord(Txs)]
             /\ \A p \in Pools : Loses(store[p], store'[p])
  <2>1. PICK txs \in SUBSET (IF h <= Tip THEN chain[h] ELSE {}) :
          store' = [p \in Pools |-> Rewind(FeedTxs(p, txs))]
    BY <1>5 DEF FeedBlockFails
  <2>2. txs \in SUBSET Txs
    <3>1. CASE h <= Tip
      <4>1. h \in 1 .. Tip
        BY <1>3, <1>5, <3>1 DEF FeedBlockFails, AlreadyIn
      <4>. QED
        BY <1>3, <2>1, <3>1, <4>1
    <3>2. CASE ~ (h <= Tip)
      BY <2>1, <3>2
    <3>. QED
      BY <3>1, <3>2
  <2>3. \A p \in Pools : Loses(store[p], Rewind(FeedTxs(p, txs)))
    BY <1>1, <1>2, <2>2, BlockUndone
  <2>. QED
    BY <2>1, <2>3 DEF Loses
<1>6. FeedBlock(h) /\ AlreadyIn(h) => UNCHANGED store
  BY DEF FeedBlock
<1>. QED
  BY <1>4, <1>5, <1>6

-----------------------------------------------------------------------------
(***************************************************************************)
(* The shape holds.                                                        *)
(***************************************************************************)
LEMMA LowestIs ==
  ASSUME NEW S, S \subseteq Heights, S # {}
  PROVE  Lowest(S) \in S /\ \A g \in S : Lowest(S) <= g
<1>1. S \subseteq Nat
  BY ScannerBoundsAssumption DEF Heights
<1>2. \E h \in S : \A g \in S : h <= g
  BY <1>1, LeastNat
<1>. QED
  BY <1>2 DEF Lowest

\* What is said of transactions only depends on the payouts.
LEMMA SentStays ==
  ASSUME UNCHANGED sent
  PROVE  /\ Txs' = Txs /\ Payouts' = Payouts /\ PayoutRecord' = PayoutRecord
         /\ StoreRecord(Txs)' = StoreRecord(Txs)
         /\ \A tx : Pool(tx)' = Pool(tx) /\ Spends(tx)' = Spends(tx)
         /\ \A p, txs : Leaves(p, txs)' = Leaves(p, txs)
         /\ \A tx, a : Credits(tx, a)' = Credits(tx, a)
<1>1. Payouts' = Payouts /\ \A tx : PayoutOf(tx)' = PayoutOf(tx)
  BY DEF Payouts, PayoutOf
<1>2. Txs' = Txs
  BY <1>1 DEF Txs
<1>3. \A tx : Pool(tx)' = Pool(tx) /\ Spends(tx)' = Spends(tx)
  BY <1>1 DEF Pool, Spends
<1>4. ASSUME NEW p, NEW txs PROVE Leaves(p, txs)' = Leaves(p, txs)
  <2>1. {tx \in txs : Pool(tx)' = p} = {tx \in txs : Pool(tx) = p}
    BY <1>3
  <2>. QED
    BY <2>1, Zenon DEF Leaves
<1>5. \A tx, a : Credits(tx, a)' = Credits(tx, a)
  BY DEF Credits
<1>. QED
  BY <1>1, <1>2, <1>3, <1>4, <1>5 DEF PayoutRecord, StoreRecord

\* What a store may hold grows with the transactions there are.
LEMMA StoresWiden ==
  ASSUME NEW T, NEW U, T \subseteq U
  PROVE  StoreRecord(T) \subseteq StoreRecord(U)
<1>1. Seq(T) \subseteq Seq(U)
  BY SeqMonotonic, Zenon
<1>. QED
  BY <1>1 DEF StoreRecord

\* A payout changes one store.
LEMMA NoteSpent ==
  ASSUME Shape, NEW p \in Pools, NEW position \in store[p].held, PayOut(p, position)
  PROVE  LET note == store[p].tree[position]
         IN /\ position \in DOMAIN store[p].tree /\ note \in Txs
            /\ [note |-> note, pool |-> p] \in PayoutRecord
            /\ sent' = Append(sent, [note |-> note, pool |-> p])
            /\ store' \in [Pools -> StoreRecord(Txs)] /\ \A q \in Pools : Sound(store'[q])
            /\ \A q \in Pools \ {p} : store'[q] = store[q]
            /\ store'[p].tree = store[p].tree /\ store'[p].synced_to = store[p].synced_to
            /\ store'[p].held = store[p].held \ {position}
            /\ store'[p].in_flight = store[p].in_flight \cup {position}
            /\ store'[p].spent = store[p].spent
<1> DEFINE s == store[p]
           t == store'[p]
<1>1. s \in StoreRecord(Txs) /\ Sound(s) /\ store \in [Pools -> StoreRecord(Txs)]
  BY DEF Shape, StoreShape
<1>2. position \in DOMAIN s.tree /\ position \in Nat
  BY <1>1 DEF Sound, StoreRecord
<1>3. s.tree[position] \in Txs
  <2>1. s.tree \in Seq(Txs)
    BY <1>1 DEF StoreRecord
  <2>. QED
    BY <1>2, <2>1, LenProperties, ElementOfSeq
<1>4. t = [s EXCEPT !.held = @ \ {position}, !.in_flight = @ \cup {position}]
  BY <1>1 DEF PayOut, Spend
<1>5. store' = [store EXCEPT ![p] = t]
  BY <1>1 DEF PayOut
<1>6. sent' = Append(sent, [note |-> s.tree[position], pool |-> p])
  BY DEF PayOut
<1> HIDE DEF s, t
<1>7. /\ t \in StoreRecord(Txs)
      /\ t.tree = s.tree /\ t.synced_to = s.synced_to /\ t.checkpoints = s.checkpoints
      /\ t.held = s.held \ {position} /\ t.in_flight = s.in_flight \cup {position}
      /\ t.spent = s.spent
  BY <1>1, <1>2, <1>4 DEF StoreRecord
<1>8. Sound(t)
  BY <1>1, <1>2, <1>7 DEF Sound
<1>9. /\ store' \in [Pools -> StoreRecord(Txs)] /\ \A q \in Pools : Sound(store'[q])
      /\ \A q \in Pools \ {p} : store'[q] = store[q]
  <2>1. \A q \in Pools : Sound(store[q])
    BY DEF Shape, StoreShape
  <2>. QED
    BY <1>1, <1>5, <1>7, <1>8, <2>1
<1>. QED
  BY <1>2, <1>3, <1>6, <1>7, <1>9 DEF s, t, PayoutRecord

\* A store from the frontier before the first block is empty.
LEMMA NewStore ==
  ASSUME NEW T
  PROVE  LET s == FromFrontier(<< >>, SeedHeight)
         IN /\ s \in StoreRecord(T) /\ Sound(s)
            /\ s.tree = << >> /\ s.held = {} /\ s.in_flight = {} /\ s.synced_to = 0
<1> DEFINE s == FromFrontier(<< >>, SeedHeight)
<1>1. s = [tree |-> << >>, checkpoints |-> << >>, held |-> {}, in_flight |-> {},
           spent |-> {}, synced_to |-> 0]
  BY DEF FromFrontier, SeedHeight
<1>2. << >> \in Seq(T) /\ << >> \in Seq(Nat) /\ Len(<< >>) = 0 /\ 0 \in Heights
  BY ScannerBoundsAssumption, EmptySeq DEF Heights
<1>3. 0 <= CHECKPOINT_DEPTH
  BY CheckpointAssumption
<1> HIDE DEF s
<1>4. s \in StoreRecord(T)
  BY <1>1, <1>2 DEF StoreRecord
<1>5. Sound(s)
  BY <1>1, <1>2, <1>3 DEF Sound
<1>. QED
  BY <1>1, <1>4, <1>5 DEF s

\* What a block yields are finds.
LEMMA FoundAreFinds ==
  ASSUME NEW h \in Nat
  PROVE  /\ \A a : Observed(h, a) \subseteq Find
         /\ FeedFound(h) \subseteq Find
BY DEF Observed, FeedFound, Find, Credits

\* What the end of a pass credits.
LEMMA InOrderType ==
  ASSUME NEW found \in SUBSET Find, NEW from \in Nat, NEW to \in Nat, from <= to
  PROVE  /\ \A h : {d.txid : d \in {e \in found : e.height = h}} \in SUBSET Deposits
         /\ InOrder(found, from, to) \in Seq(Deposits)
<1> DEFINE at(h) == {d.txid : d \in {e \in found : e.height = h}}
           parts == [i \in 1 .. to - from |-> Ascending(at(from + i))]
<1>1. ASSUME NEW h PROVE at(h) \in SUBSET Deposits /\ Ascending(at(h)) \in Seq(Deposits)
  <2>1. at(h) \subseteq Deposits
    BY DEF Find
  <2> HIDE DEF at
  <2>2. at(h) \subseteq Nat /\ IsFiniteSet(at(h))
    BY <2>1, FS_Subset, DepositsAssumption
  <2>3. Ascending(at(h)) \in Seq(at(h))
    BY <2>2, AscendingLists
  <2>. QED
    BY <2>1, <2>3, SeqMonotonic
<1>2. to - from \in Nat
  OBVIOUS
<1>3. InOrder(found, from, to) = FlattenSeq(parts)
  BY Zenon DEF InOrder
<1>4. parts \in [1 .. to - from -> Seq(Deposits)]
  <2> HIDE DEF at
  <2>. QED
    BY <1>1
<1> HIDE DEF parts
<1>5. parts \in Seq(Seq(Deposits))
  BY <1>2, <1>4, FunctionIsSequence
<1>6. FlattenSeq(parts) \in Seq(Deposits)
  BY <1>5, FlattenType
<1>. QED
  BY <1>1, <1>3, <1>6

(***************************************************************************)
(* What the chain does: it takes a block, or loses some that are not deep. *)
(***************************************************************************)
LEMMA ChainStep ==
  ASSUME Shape, Chain
  PROVE  /\ chain' \in Seq(SUBSET Txs) /\ highest' \in Heights /\ Tip' \in Heights /\ Tip' <= highest'
         /\ reorgs' \in 0 .. MaxReorgs /\ highest <= highest'
         /\ UNCHANGED <<sent, store, pass, sync, reseeding, reseeds, failures, exclusive, watcherVars>>
         /\ \A h \in 1 .. Tip : h <= Tip' => chain'[h] = chain[h]
         /\ \/ /\ Tip' = Tip + 1 /\ Mineable(chain'[Tip + 1])
               /\ highest' = IF Tip + 1 > highest THEN Tip + 1 ELSE highest
            \/ Tip' < Tip /\ highest' = highest /\ Tip' >= highest - MaxReorg
<1>1. /\ chain \in Seq(SUBSET Txs) /\ highest \in Heights /\ Tip <= highest /\ reorgs \in 0 .. MaxReorgs
      /\ sent \in Seq(PayoutRecord)
  BY DEF Shape, ChainShape
<1>2. /\ Tip \in Nat /\ highest \in Nat /\ highest <= MaxHeight /\ MaxHeight \in Nat
      /\ MaxReorg \in Nat /\ MaxReorgs \in Nat /\ reorgs \in Nat
  BY <1>1, LenProperties, ScannerBoundsAssumption DEF Tip, Heights
<1>3. ASSUME NEW block \in SUBSET (Deposits \cup Payouts), Mine(block)
      PROVE  /\ chain' \in Seq(SUBSET Txs) /\ highest' \in Heights /\ Tip' \in Heights /\ Tip' <= highest'
             /\ reorgs' \in 0 .. MaxReorgs /\ highest <= highest'
             /\ UNCHANGED <<sent, store, pass, sync, reseeding, reseeds, failures, exclusive, watcherVars>>
             /\ \A h \in 1 .. Tip : h <= Tip' => chain'[h] = chain[h]
             /\ Tip' = Tip + 1 /\ Mineable(chain'[Tip + 1])
             /\ highest' = IF Tip + 1 > highest THEN Tip + 1 ELSE highest
  <2>1. /\ Tip < MaxHeight /\ Mineable(block) /\ chain' = Append(chain, block)
        /\ highest' = IF Tip + 1 > highest THEN Tip + 1 ELSE highest
        /\ UNCHANGED <<reorgs, sent, store, pass, sync, reseeding, reseeds, failures, exclusive,
                       watcherVars>>
    BY <1>3 DEF Mine
  <2>2. block \in SUBSET Txs
    BY DEF Txs
  <2>3. /\ chain' \in Seq(SUBSET Txs) /\ Len(chain') = Tip + 1
        /\ \A h \in 1 .. Tip : chain'[h] = chain[h]
        /\ chain'[Tip + 1] = block
    BY <1>1, <2>1, <2>2, AppendProperties DEF Tip
  <2>4. Tip' = Tip + 1
    BY <2>3 DEF Tip
  <2>5. highest' \in Heights /\ Tip' \in Heights /\ Tip' <= highest' /\ highest <= highest'
    BY <1>2, <2>1, <2>4 DEF Heights
  <2>. QED
    BY <1>1, <2>1, <2>3, <2>4, <2>5
<1>4. ASSUME NEW height \in 0 .. MaxHeight, Reorg(height)
      PROVE  /\ chain' \in Seq(SUBSET Txs) /\ highest' \in Heights /\ Tip' \in Heights /\ Tip' <= highest'
             /\ reorgs' \in 0 .. MaxReorgs /\ highest <= highest'
             /\ UNCHANGED <<sent, store, pass, sync, reseeding, reseeds, failures, exclusive, watcherVars>>
             /\ \A h \in 1 .. Tip : h <= Tip' => chain'[h] = chain[h]
             /\ Tip' < Tip /\ highest' = highest /\ Tip' >= highest - MaxReorg
  <2>1. /\ reorgs < MaxReorgs /\ height < Tip /\ height >= highest - MaxReorg
        /\ chain' = SubSeq(chain, 1, height) /\ reorgs' = reorgs + 1
        /\ UNCHANGED <<highest, sent, store, pass, sync, reseeding, reseeds, failures, exclusive,
                       watcherVars>>
    BY <1>4 DEF Reorg
  <2>2. height \in 0 .. Len(chain)
    BY <1>2, <2>1 DEF Tip
  <2>3. /\ chain' \in Seq(SUBSET Txs) /\ Len(chain') = height
        /\ \A h \in 1 .. height : chain'[h] = chain[h]
    BY <1>1, <2>1, <2>2, Beginnings
  <2>4. Tip' = height
    BY <2>3 DEF Tip
  <2>5. /\ Tip' \in Heights /\ Tip' <= highest' /\ reorgs' \in 0 .. MaxReorgs
        /\ highest <= highest' /\ highest' \in Heights
    BY <1>1, <1>2, <2>1, <2>4 DEF Heights
  <2>6. \A h \in 1 .. Tip : h <= Tip' => h \in 1 .. height
    BY <1>2, <2>4
  <2>. QED
    BY <2>1, <2>3, <2>4, <2>5, <2>6
<1>. QED
  BY <1>3, <1>4 DEF Chain

(***************************************************************************)
(* What a pass begins with.                                                *)
(***************************************************************************)
LEMMA PassStarted ==
  ASSUME Shape, StartPass
  PROVE  /\ pass = NoPass
         /\ exclusive => sync = {} /\ reseeding \notin Pools
         /\ UNCHANGED <<chainVars, sent, store, sync, reseeding, reseeds, failures, exclusive, watcherVars>>
         /\ pass' \in PassRecord
         /\ \A h \in pass'.feed : h > SyncedTo /\ h + TreeLag <= Tip
         /\ \A h \in pass'.feed : \A g \in SyncedTo + 1 .. h : g \in pass'.feed
         /\ pass'.end <= Tip /\ pass'.end > scanned_to /\ pass'.found = {}
         /\ \A h \in scanned_to + 1 .. pass'.end : h \in pass'.feed \cup pass'.scan
<1> DEFINE start == scanned_to + 1
           end == Least(Tip, start + MaxBlocks - 1)
           tree_from == SyncedTo + 1
           tree_to == Least(Tip - TreeLag, tree_from + MaxBlocks - 1)
           fed == tree_from .. tree_to
<1>1. /\ pass = NoPass
      /\ exclusive => sync = {} /\ reseeding \notin Pools
      /\ end >= start
      /\ pass' = [feed |-> fed, scan |-> (start .. end) \ fed, end |-> end, found |-> {}]
      /\ UNCHANGED <<chainVars, sent, store, sync, reseeding, reseeds, failures, exclusive,
                     watcherVars>>
  BY DEF StartPass
<1>2. /\ Tip \in Nat /\ SyncedTo \in Nat /\ Tip <= MaxHeight /\ MaxHeight \in Nat
      /\ MaxBlocks \in Nat \ {0} /\ TreeLag \in Nat /\ scanned_to \in Nat
  <2>1. scanned_to \in Heights
    BY DEF Shape, WatcherShape
  <2>. QED
    BY <2>1, HeightsAre, DepthAssumption, ScannerBoundsAssumption DEF Heights
<1>3. end \in Int /\ end <= Tip /\ tree_to \in Int /\ tree_to <= Tip - TreeLag
  BY <1>2 DEF Least
<1> HIDE DEF end, tree_to
<1>4. \A h \in fed : h > SyncedTo /\ h + TreeLag <= Tip /\ h \in Heights
  BY <1>2, <1>3 DEF Heights
<1>5. \A h \in fed : \A g \in SyncedTo + 1 .. h : g \in fed
  BY <1>2, <1>3
<1>6. end \in Heights /\ \A h \in start .. end : h \in Heights
  BY <1>1, <1>2, <1>3 DEF Heights
<1>7. end > scanned_to
  BY <1>1, <1>2, <1>3
<1> DEFINE scan == (start .. end) \ fed
<1>8. fed \in SUBSET Heights /\ scan \in SUBSET Heights
  BY <1>4, <1>6
<1>9. \A h \in scanned_to + 1 .. end : h \in fed \cup scan
  OBVIOUS
<1> HIDE DEF fed, scan, start
<1>10. /\ pass'.feed = fed /\ pass'.scan = scan /\ pass'.end = end /\ pass'.found = {}
       /\ pass' \in PassRecord
  BY <1>1, <1>6, <1>8 DEF PassRecord, scan
<1>. QED
  BY <1>1, <1>3, <1>4, <1>5, <1>7, <1>9, <1>10 DEF tree_from

\* A sync feeds from above the lower tree to the lag, without gaps.
LEMMA SyncStarted ==
  ASSUME Shape, StartSync
  PROVE  /\ sync' \in SUBSET Heights
         /\ \A h \in sync' : h > SyncedTo /\ h + TreeLag <= Tip
         /\ \A h \in sync' : \A g \in SyncedTo + 1 .. h : g \in sync'
<1> DEFINE start == SyncedTo + 1
           to == Least(Tip - TreeLag, start + MaxBlocks - 1)
<1>1. sync' = start .. to
  BY DEF StartSync
<1>2. /\ Tip \in Nat /\ SyncedTo \in Nat /\ Tip <= MaxHeight /\ MaxHeight \in Nat
      /\ MaxBlocks \in Nat \ {0} /\ TreeLag \in Nat
  BY HeightsAre, DepthAssumption, ScannerBoundsAssumption DEF Heights
<1>3. to \in Int /\ to <= Tip - TreeLag
  BY <1>2 DEF Least
<1> HIDE DEF to
<1>. QED
  BY <1>1, <1>2, <1>3 DEF Heights

(***************************************************************************)
(* A pass ends: what it found is credited, up to the safe height.          *)
(***************************************************************************)
Fresh == {d \in pass.found : d.height \in scanned_to + 1 .. SafeEnd /\ d.txid \notin credited}

\* A pass that ends well credits what it freshly found, if anything is safe.
LEMMA PassEnded ==
  ASSUME Shape, EndPass
  PROVE  /\ pass # NoPass /\ pass.feed = {} /\ pass.scan = {} /\ pass' = NoPass
         /\ UNCHANGED <<chainVars, sent, store, sync, reseeding, reseeds, failures, exclusive>>
         /\ SafeEnd \in Int /\ SafeEnd <= pass.end /\ Fresh \in SUBSET Find
         /\ \/ /\ SafeEnd > scanned_to /\ SafeEnd \in Heights
               /\ scanned_to' = SafeEnd
               /\ credited' = credited \cup {d.txid : d \in Fresh}
               /\ ledger' = ledger \o InOrder(Fresh, scanned_to, SafeEnd)
            \/ ~ (SafeEnd > scanned_to) /\ UNCHANGED watcherVars
<1>1. pass \in PassRecord /\ scanned_to \in Heights
  BY DEF Shape, WorkShape, WatcherShape
<1>2. /\ pass.end \in Nat /\ pass.end <= MaxHeight /\ MaxHeight \in Nat /\ scanned_to \in Nat
      /\ Confirmations \in Nat /\ Confirmations >= 1 /\ pass.found \in SUBSET Find
  BY <1>1, DepthAssumption, ScannerBoundsAssumption DEF PassRecord, Heights
<1>3. SafeEnd \in Int /\ SafeEnd <= pass.end
  BY <1>2 DEF SafeEnd
<1>4. SafeEnd > scanned_to => SafeEnd \in Heights
  BY <1>2, <1>3 DEF Heights
<1>5. Fresh \in SUBSET Find
  BY <1>2 DEF Fresh
<1>6. /\ pass # NoPass /\ pass.feed = {} /\ pass.scan = {} /\ pass' = NoPass
      /\ UNCHANGED <<chainVars, sent, store, sync, reseeding, reseeds, failures, exclusive>>
  BY DEF EndPass
<1>7. IF SafeEnd > scanned_to
        THEN /\ scanned_to' = SafeEnd
             /\ credited' = credited \cup {d.txid : d \in Fresh}
             /\ ledger' = ledger \o InOrder(Fresh, scanned_to, SafeEnd)
        ELSE UNCHANGED watcherVars
  BY DEF EndPass, SafeEnd, Fresh
<1>. QED
  BY <1>3, <1>4, <1>5, <1>6, <1>7

(***************************************************************************)
(* The steps that feed: one block, or none if it fails.                    *)
(***************************************************************************)
LEMMA PassFed ==
  ASSUME Shape, PassFeeds
  PROVE  LET h == Lowest(pass.feed)
         IN /\ pass.feed # {} /\ h \in pass.feed /\ h \in Heights
            /\ \A g \in pass.feed : h <= g
            /\ UNCHANGED <<chainVars, sent, sync, reseeding, reseeds, failures, exclusive, watcherVars>>
            /\ pass' = [pass EXCEPT !.feed = @ \ {h}, !.found = @ \cup FeedFound(h)]
            /\ pass' \in PassRecord
            /\ (AlreadyIn(h) /\ UNCHANGED store) \/ Fed(h)
<1> DEFINE h == Lowest(pass.feed)
<1>1. pass \in PassRecord
  BY DEF Shape, WorkShape
<1>2. pass.feed # {} /\ pass.feed \in SUBSET Heights
  BY <1>1 DEF PassFeeds, PassRecord
<1>3. h \in pass.feed /\ \A g \in pass.feed : h <= g
  BY <1>2, LowestIs
<1>4. h \in Heights /\ h \in Nat
  BY <1>2, <1>3, HeightsAre
<1>5. /\ FeedBlock(h)
      /\ pass' = [pass EXCEPT !.feed = @ \ {h}, !.found = @ \cup FeedFound(h)]
      /\ UNCHANGED <<chainVars, sent, sync, reseeding, reseeds, failures, exclusive, watcherVars>>
  BY DEF PassFeeds
<1> HIDE DEF h
<1>6. (AlreadyIn(h) /\ UNCHANGED store) \/ Fed(h)
  BY <1>4, <1>5, FeedCases
<1>7. FeedFound(h) \subseteq Find
  BY <1>4, FoundAreFinds
<1>8. pass' \in PassRecord
  BY <1>1, <1>5, <1>7 DEF PassRecord
<1>. QED
  BY <1>2, <1>3, <1>4, <1>5, <1>6, <1>8 DEF h

\* A scan of a block adds what it shows, and leaves the trees alone.
LEMMA PassScanned ==
  ASSUME Shape, PassScans
  PROVE  LET h == Lowest(pass.scan)
         IN /\ pass.feed = {} /\ pass.scan # {} /\ h \in pass.scan /\ h \in Heights
            /\ h <= Tip /\ ~ ScanRefuses(h)
            /\ UNCHANGED <<chainVars, sent, store, sync, reseeding, reseeds, failures, exclusive,
                           watcherVars>>
            /\ pass' = [pass EXCEPT !.scan = @ \ {h}, !.found = @ \cup Observed(h, TRUE)]
            /\ pass' \in PassRecord
<1> DEFINE h == Lowest(pass.scan)
<1>1. pass \in PassRecord
  BY DEF Shape, WorkShape
<1>2. pass.scan # {} /\ pass.scan \in SUBSET Heights
  BY <1>1 DEF PassScans, PassRecord
<1>3. h \in pass.scan
  BY <1>2, LowestIs
<1>4. h \in Heights /\ h \in Nat
  BY <1>2, <1>3, HeightsAre
<1>5. /\ pass.feed = {} /\ h <= Tip /\ ~ ScanRefuses(h)
      /\ pass' = [pass EXCEPT !.scan = @ \ {h}, !.found = @ \cup Observed(h, TRUE)]
      /\ UNCHANGED <<chainVars, sent, store, sync, reseeding, reseeds, failures, exclusive,
                     watcherVars>>
  BY DEF PassScans
<1> HIDE DEF h
<1>6. Observed(h, TRUE) \subseteq Find
  BY <1>4, FoundAreFinds
<1>7. pass' \in PassRecord
  BY <1>1, <1>5, <1>6 DEF PassRecord
<1>. QED
  BY <1>2, <1>3, <1>4, <1>5, <1>7 DEF h

\* A sync feeds its lowest block, whole, or finds it is in already.
LEMMA SyncFed ==
  ASSUME Shape, SyncFeeds
  PROVE  LET h == Lowest(sync)
         IN /\ sync # {} /\ h \in sync /\ h \in Heights
            /\ \A g \in sync : h <= g
            /\ UNCHANGED <<chainVars, sent, pass, reseeding, reseeds, failures, exclusive, watcherVars>>
            /\ sync' = sync \ {h} /\ sync' \in SUBSET Heights
            /\ (AlreadyIn(h) /\ UNCHANGED store) \/ Fed(h)
<1> DEFINE h == Lowest(sync)
<1>1. sync \in SUBSET Heights
  BY DEF Shape, WorkShape
<1>2. /\ sync # {} /\ FeedBlock(h) /\ sync' = sync \ {h}
      /\ UNCHANGED <<chainVars, sent, pass, reseeding, reseeds, failures, exclusive, watcherVars>>
  BY DEF SyncFeeds
<1>3. h \in sync /\ \A g \in sync : h <= g
  BY <1>1, <1>2, LowestIs
<1>4. h \in Heights
  BY <1>1, <1>3
<1> HIDE DEF h
<1>5. (AlreadyIn(h) /\ UNCHANGED store) \/ Fed(h)
  BY <1>2, <1>4, FeedCases
<1>. QED
  BY <1>1, <1>2, <1>3, <1>4, <1>5 DEF h

\* A pass or a sync that fails is over, and loses nothing of the trees.
LEMMA FeedsFailed ==
  ASSUME Shape, PassFails \/ SyncFails
  PROVE  /\ UNCHANGED <<chainVars, sent, reseeding, reseeds, exclusive, watcherVars>>
         /\ PassFails => pass' = NoPass /\ sync' = sync
         /\ SyncFails => pass' = pass /\ sync' = {}
         /\ \/ UNCHANGED store
            \/ /\ store' \in [Pools -> StoreRecord(Txs)]
               /\ \A p \in Pools : Loses(store[p], store'[p])
<1>1. pass.feed \in SUBSET Heights /\ sync \in SUBSET Heights
  BY DEF Shape, WorkShape, PassRecord
<1>2. ASSUME NEW h \in Heights, FeedBlockFails(h)
      PROVE  /\ store' \in [Pools -> StoreRecord(Txs)]
             /\ \A p \in Pools : Loses(store[p], store'[p])
  BY <1>2, FeedCases
<1>3. CASE PassFails
  <2>1. /\ UNCHANGED <<chainVars, sent, sync, reseeding, reseeds, exclusive, watcherVars>>
        /\ pass' = NoPass
        /\ (pass.feed # {} /\ FeedBlockFails(Lowest(pass.feed))) \/ UNCHANGED store
    BY <1>3 DEF PassFails
  <2>2. pass.feed # {} => Lowest(pass.feed) \in Heights
    BY <1>1, LowestIs
  <2>3. SyncFails => pass' = pass /\ sync' = {}
    BY DEF SyncFails
  <2>. QED
    BY <1>2, <2>1, <2>2, <2>3
<1>4. CASE SyncFails
  <2>1. /\ UNCHANGED <<chainVars, sent, pass, reseeding, reseeds, exclusive, watcherVars>>
        /\ sync' = {} /\ sync # {} /\ FeedBlockFails(Lowest(sync))
    BY <1>4 DEF SyncFails
  <2>2. Lowest(sync) \in Heights
    BY <1>1, <2>1, LowestIs
  <2>3. PassFails => pass' = NoPass /\ sync' = sync
    BY DEF PassFails
  <2>. QED
    BY <1>2, <2>1, <2>2, <2>3
<1>. QED
  BY <1>3, <1>4

(***************************************************************************)
(* The steps there are.                                                    *)
(***************************************************************************)
LEMMA StepCases ==
  ASSUME [Next]_vars
  PROVE  \/ Chain \/ StartPass \/ PassFeeds \/ PassScans \/ EndPass \/ PassFails \/ SyncFails
         \/ StartSync \/ SyncFeeds
         \/ \E p \in Pools : \E position \in store[p].held : PayOut(p, position)
         \/ \E p \in Pools : Reseed(p)
         \/ ReseedOther \/ ReseedFails
         \/ UNCHANGED vars
BY DEF Next, Watcher, PassGoesOn, Settler, Failures

\* Every step keeps the types.
LEMMA ShapeNext ==
  ASSUME Shape, [Next]_vars
  PROVE  Shape'
<1>1. /\ chain \in Seq(SUBSET Txs) /\ highest \in Heights /\ Tip <= highest /\ reorgs \in 0 .. MaxReorgs
      /\ sent \in Seq(PayoutRecord)
      /\ store \in [Pools -> StoreRecord(Txs)] /\ \A p \in Pools : Sound(store[p])
      /\ pass \in PassRecord /\ sync \in SUBSET Heights
      /\ reseeding \in Pools \cup {"none", "stopped"} /\ reseeds \in Nat /\ exclusive \in BOOLEAN
      /\ scanned_to \in Heights /\ credited \in SUBSET Deposits /\ ledger \in Seq(Deposits)
  BY DEF Shape, ChainShape, StoreShape, WorkShape, WatcherShape
<1>2. NoPass \in PassRecord
  BY ScannerBoundsAssumption DEF NoPass, PassRecord, Heights
<1>3. ASSUME NEW p \in Pools, store' = [store EXCEPT ![p] = FromFrontier(<< >>, SeedHeight)]
      PROVE  store' \in [Pools -> StoreRecord(Txs)] /\ \A q \in Pools : Sound(store'[q])
  <2> DEFINE new == FromFrontier(<< >>, SeedHeight)
  <2>1. new \in StoreRecord(Txs) /\ Sound(new)
    BY NewStore
  <2>2. store' = [store EXCEPT ![p] = new]
    BY <1>3
  <2> HIDE DEF new
  <2>. QED
    BY <1>1, <2>1, <2>2
<1>4. /\ \A p \in Pools : Other(p) \in Pools
      /\ "none" \notin Pools /\ "stopped" \notin Pools
  <2>1. Pools = {"orchard", "ironwood"} /\ "orchard" # "ironwood"
    BY DEF Pools
  <2>2. \A p \in Pools : \E q \in Pools : q # p
    BY <2>1
  <2>. QED
    BY <2>1, <2>2 DEF Other
<1>5. ASSUME UNCHANGED sent,
             chain' \in Seq(SUBSET Txs), highest' \in Heights, Tip' <= highest', reorgs' \in 0 .. MaxReorgs,
             store' \in [Pools -> StoreRecord(Txs)], \A p \in Pools : Sound(store'[p]),
             pass' \in PassRecord, sync' \in SUBSET Heights,
             reseeding' \in Pools \cup {"none", "stopped"}, reseeds' \in Nat, exclusive' \in BOOLEAN,
             scanned_to' \in Heights, credited' \in SUBSET Deposits, ledger' \in Seq(Deposits)
      PROVE  Shape'
  <2>1. Txs' = Txs /\ PayoutRecord' = PayoutRecord /\ StoreRecord(Txs)' = StoreRecord(Txs)
    BY <1>5, SentStays
  <2>2. sent' \in Seq(PayoutRecord)
    BY <1>1, <1>5
  <2>3. ChainShape'
    BY <1>5, <2>1, <2>2 DEF ChainShape
  <2>4. StoreShape'
    BY <1>5, <2>1 DEF StoreShape, Sound
  <2>5. WorkShape'
    BY <1>5 DEF WorkShape, PassRecord, Find
  <2>6. WatcherShape'
    BY <1>5 DEF WatcherShape
  <2>. QED
    BY <2>3, <2>4, <2>5, <2>6 DEF Shape
<1>6. UNCHANGED chainVars => /\ chain' \in Seq(SUBSET Txs) /\ highest' \in Heights /\ Tip' <= highest'
                             /\ reorgs' \in 0 .. MaxReorgs
  BY <1>1 DEF chainVars, Tip
<1>7. UNCHANGED watcherVars =>
        scanned_to' \in Heights /\ credited' \in SUBSET Deposits /\ ledger' \in Seq(Deposits)
  BY <1>1 DEF watcherVars
<1>8. UNCHANGED store => store' \in [Pools -> StoreRecord(Txs)] /\ \A p \in Pools : Sound(store'[p])
  BY <1>1
<1>9. /\ (\A p \in Pools : Loses(store[p], store'[p])) => \A p \in Pools : Sound(store'[p])
      /\ \A h : Fed(h) => store' \in [Pools -> StoreRecord(Txs)] /\ \A p \in Pools : Sound(store'[p])
  BY DEF Loses, Fed, Grows
<1>c1. CASE Chain
  <2>1. /\ chain' \in Seq(SUBSET Txs) /\ highest' \in Heights /\ Tip' <= highest' /\ reorgs' \in 0 .. MaxReorgs
        /\ UNCHANGED <<sent, store, pass, sync, reseeding, reseeds, failures, exclusive, watcherVars>>
    BY <1>c1, ChainStep
  <2>. QED
    BY <1>1, <1>5, <1>7, <1>8, <2>1
<1>c2. CASE StartPass
  BY <1>c2, <1>1, <1>5, <1>6, <1>7, <1>8, PassStarted
<1>c3. CASE PassFeeds
  BY <1>c3, <1>1, <1>5, <1>6, <1>7, <1>8, <1>9, PassFed
<1>c4. CASE PassScans
  BY <1>c4, <1>1, <1>5, <1>6, <1>7, <1>8, PassScanned
<1>c5. CASE EndPass
  <2>1. scanned_to' \in Heights /\ credited' \in SUBSET Deposits /\ ledger' \in Seq(Deposits)
    <3>1. CASE SafeEnd > scanned_to
      <4>1. /\ SafeEnd \in Heights /\ Fresh \in SUBSET Find
            /\ scanned_to' = SafeEnd
            /\ credited' = credited \cup {d.txid : d \in Fresh}
            /\ ledger' = ledger \o InOrder(Fresh, scanned_to, SafeEnd)
        BY <1>c5, <3>1, PassEnded
      <4>2. scanned_to \in Nat /\ SafeEnd \in Nat /\ scanned_to <= SafeEnd
        BY <1>1, <3>1, <4>1, ScannerBoundsAssumption DEF Heights
      <4>3. InOrder(Fresh, scanned_to, SafeEnd) \in Seq(Deposits)
        BY <4>1, <4>2, InOrderType
      <4>4. {d.txid : d \in Fresh} \subseteq Deposits
        BY <4>1 DEF Find
      <4>5. ledger' \in Seq(Deposits)
        BY <1>1, <4>1, <4>3, ConcatProperties
      <4>. QED
        BY <1>1, <4>1, <4>4, <4>5
    <3>2. CASE ~ (SafeEnd > scanned_to)
      BY <1>c5, <1>7, <3>2, PassEnded
    <3>. QED
      BY <3>1, <3>2
  <2>. QED
    BY <1>c5, <1>1, <1>2, <1>5, <1>6, <1>8, <2>1, PassEnded
<1>c6. CASE PassFails
  BY <1>c6, <1>1, <1>2, <1>5, <1>6, <1>7, <1>8, <1>9, FeedsFailed
<1>c7. CASE SyncFails
  BY <1>c7, <1>1, <1>5, <1>6, <1>7, <1>8, <1>9, FeedsFailed
<1>c8. CASE StartSync
  <2>1. UNCHANGED <<chainVars, sent, store, pass, reseeding, reseeds, failures, exclusive, watcherVars>>
    BY <1>c8 DEF StartSync
  <2>. QED
    BY <1>c8, <1>1, <1>5, <1>6, <1>7, <1>8, <2>1, SyncStarted
<1>c9. CASE SyncFeeds
  BY <1>c9, <1>1, <1>5, <1>6, <1>7, <1>8, <1>9, SyncFed
<1>c10. ASSUME NEW p \in Pools, NEW position \in store[p].held, PayOut(p, position)
        PROVE  Shape'
  <2> DEFINE q == [note |-> store[p].tree[position], pool |-> p]
  <2>1. /\ q \in PayoutRecord /\ sent' = Append(sent, q)
        /\ store' \in [Pools -> StoreRecord(Txs)] /\ \A r \in Pools : Sound(store'[r])
    BY <1>c10, NoteSpent
  <2> HIDE DEF q
  <2>2. UNCHANGED <<chainVars, pass, sync, reseeding, reseeds, failures, exclusive, watcherVars>>
    BY <1>c10 DEF PayOut
  <2>3. Txs \subseteq Txs' /\ sent' \in Seq(PayoutRecord')
    BY <1>1, <2>1, PayoutAdded
  <2>4. chain' \in Seq(SUBSET Txs')
    <3>1. SUBSET Txs \subseteq SUBSET Txs'
      BY <2>3
    <3>. QED
      BY <1>6, <2>2, <3>1, SeqMonotonic
  <2>5. StoreRecord(Txs) \subseteq StoreRecord(Txs')
    BY <2>3, StoresWiden
  <2>6. store' \in [Pools -> StoreRecord(Txs')]
    BY <2>1, <2>5
  <2>7. StoreShape'
    BY <2>1, <2>6 DEF StoreShape, StoreRecord, Sound
  <2>8. ChainShape'
    BY <1>6, <2>2, <2>3, <2>4 DEF ChainShape
  <2>9. WorkShape'
    BY <1>1, <2>2 DEF WorkShape, PassRecord, Find
  <2>10. WatcherShape'
    BY <1>7, <2>2 DEF WatcherShape
  <2>. QED
    BY <2>7, <2>8, <2>9, <2>10 DEF Shape
<1>c11. ASSUME NEW p \in Pools, Reseed(p) PROVE Shape'
  <2>1. /\ store' = [store EXCEPT ![p] = FromFrontier(<< >>, SeedHeight)]
        /\ reseeding' = Other(p) /\ reseeds' = reseeds + 1
        /\ UNCHANGED <<chainVars, sent, pass, sync, failures, exclusive, watcherVars>>
    BY <1>c11 DEF Reseed
  <2>2. reseeds' \in Nat
    BY <1>1, <2>1
  <2>. QED
    BY <1>1, <1>3, <1>4, <1>5, <1>6, <1>7, <2>1, <2>2
<1>c12. CASE ReseedOther
  <2>1. /\ reseeding \in Pools /\ store' = [store EXCEPT ![reseeding] = FromFrontier(<< >>, SeedHeight)]
        /\ reseeding' = "none"
        /\ UNCHANGED <<chainVars, sent, pass, sync, reseeds, failures, exclusive, watcherVars>>
    BY <1>c12 DEF ReseedOther
  <2>2. store' \in [Pools -> StoreRecord(Txs)] /\ \A q \in Pools : Sound(store'[q])
    <3> DEFINE p == reseeding
    <3>1. p \in Pools /\ store' = [store EXCEPT ![p] = FromFrontier(<< >>, SeedHeight)]
      BY <2>1
    <3> HIDE DEF p
    <3>. QED
      BY <1>3, <3>1
  <2>. QED
    BY <1>1, <1>5, <1>6, <1>7, <2>1, <2>2
<1>c13. CASE ReseedFails
  <2>1. /\ reseeding' = "stopped"
        /\ UNCHANGED <<chainVars, sent, store, pass, sync, reseeds, exclusive, watcherVars>>
    BY <1>c13 DEF ReseedFails
  <2>. QED
    BY <1>1, <1>5, <1>6, <1>7, <1>8, <2>1
<1>c14. CASE UNCHANGED vars
  <2>1. UNCHANGED <<chainVars, sent, store, pass, sync, reseeding, reseeds, failures, exclusive, watcherVars>>
    BY <1>c14 DEF vars
  <2>. QED
    BY <1>1, <1>5, <1>6, <1>7, <1>8, <2>1
<1>. QED
  BY <1>c1, <1>c2, <1>c3, <1>c4, <1>c5, <1>c6, <1>c7, <1>c8, <1>c9, <1>c10, <1>c11, <1>c12, <1>c13, <1>c14,
     StepCases

\* The initial state has the types.
LEMMA ShapeInit ==
  ASSUME Init
  PROVE  Shape
<1>1. 0 \in Heights /\ 0 \in 0 .. MaxReorgs
  BY ScannerBoundsAssumption DEF Heights
<1>2. << >> \in Seq(SUBSET Txs) /\ << >> \in Seq(PayoutRecord) /\ << >> \in Seq(Deposits) /\ Len(<< >>) = 0
  BY EmptySeq
<1>3. ChainShape
  BY <1>1, <1>2 DEF Init, ChainShape, Tip
<1>4. StoreShape
  <2> DEFINE new == FromFrontier(<< >>, SeedHeight)
  <2>1. new \in StoreRecord(Txs) /\ Sound(new)
    BY NewStore
  <2>2. store = [p \in Pools |-> new]
    BY DEF Init
  <2> HIDE DEF new
  <2>. QED
    BY <2>1, <2>2 DEF StoreShape
<1>5. WorkShape
  BY <1>1, ExclusionsAssumption DEF Init, WorkShape, NoPass, PassRecord
<1>6. WatcherShape
  BY <1>1, <1>2 DEF Init, WatcherShape, SeedHeight
<1>. QED
  BY <1>3, <1>4, <1>5, <1>6 DEF Shape

\* The types are invariant.
LEMMA ShapeHolds == Spec => []Shape
<1>1. Init => Shape
  BY ShapeInit
<1>2. Shape /\ [Next]_vars => Shape'
  BY ShapeNext
<1>. QED
  BY <1>1, <1>2, PTL DEF Spec

(***************************************************************************)
(* Whatever the two threads, the chain and the node do: notes that are     *)
(* held or in flight are leaves of their tree, and none is both; a tree    *)
(* remembers no more checkpoints than it may; and what a pass is still to  *)
(* feed and to scan are heights (Scanner::observe, feed_block, reseed).    *)
(***************************************************************************)
THEOREM TypeCorrect == Spec => []TypeOK
<1>1. Shape => TypeOK
  <2> SUFFICES ASSUME Shape PROVE TypeOK
    OBVIOUS
  <2>1. /\ chain \in Seq(SUBSET Txs) /\ highest \in Heights /\ reorgs \in 0 .. MaxReorgs
        /\ sent \in Seq(PayoutRecord)
        /\ store \in [Pools -> StoreRecord(Txs)] /\ \A p \in Pools : Sound(store[p])
        /\ pass \in PassRecord /\ sync \in SUBSET Heights
        /\ reseeding \in Pools \cup {"none", "stopped"}
        /\ scanned_to \in Heights /\ credited \in SUBSET Deposits /\ ledger \in Seq(Deposits)
    BY DEF Shape, ChainShape, StoreShape, WorkShape, WatcherShape
  <2>2. \A i \in DOMAIN sent : sent[i] \in [note : Txs, pool : Pools]
    <3>1. \A i \in DOMAIN sent : sent[i] \in PayoutRecord
      BY <2>1, LenProperties, ElementOfSeq
    <3>. QED
      BY <3>1 DEF PayoutRecord
  <2>3. ASSUME NEW p \in Pools
        PROVE  /\ store[p].tree \in Seq(Txs)
               /\ store[p].held \cup store[p].in_flight \subseteq DOMAIN store[p].tree
               /\ store[p].held \cap store[p].in_flight = {}
               /\ store[p].spent \subseteq Txs
               /\ store[p].synced_to \in Heights
               /\ Len(store[p].checkpoints) <= CHECKPOINT_DEPTH
    BY <2>1 DEF StoreRecord, Sound
  <2>4. pass.feed \cup pass.scan \subseteq Heights /\ pass.end \in Heights
    BY <2>1 DEF PassRecord
  <2>. QED
    BY <2>1, <2>2, <2>3, <2>4 DEF TypeOK
<1>. QED
  BY <1>1, ShapeHolds, PTL

-----------------------------------------------------------------------------
(***************************************************************************)
(* What a payout spends stays known: whatever feeds or fails, a store      *)
(* forgets nothing of ours.                                                *)
(***************************************************************************)
LEMMA StillKnownGrows ==
  ASSUME Shape, [Next]_vars, reseeds' = 0, KnownInv
  PROVE  /\ reseeding' = "none" /\ reseeds = 0
         /\ \A p \in Pools : StillKnown(store[p]) \subseteq StillKnown(store[p])'
<1>1. reseeds \in Nat /\ "none" \notin Pools /\ "stopped" \notin Pools
  BY DEF Shape, WorkShape, Pools
<1>2. UNCHANGED store => \A p \in Pools : StillKnown(store[p]) \subseteq StillKnown(store[p])'
  BY DEF StillKnown, InFlight
<1>3. /\ (\A p \in Pools : Loses(store[p], store'[p])) =>
           \A p \in Pools : StillKnown(store[p]) \subseteq StillKnown(store[p])'
      /\ \A h : Fed(h) => \A p \in Pools : StillKnown(store[p]) \subseteq StillKnown(store[p])'
  BY DEF Loses, Fed, Grows, StillKnown, InFlight
<1>4. reseeds = 0 => reseeding = "none"
  BY DEF KnownInv
<1>c1. CASE Chain
  BY <1>c1, <1>2, <1>4, ChainStep
<1>c2. CASE StartPass
  BY <1>c2, <1>2, <1>4, PassStarted
<1>c3. CASE PassFeeds
  BY <1>c3, <1>2, <1>3, <1>4, PassFed
<1>c4. CASE PassScans
  BY <1>c4, <1>2, <1>4, PassScanned
<1>c5. CASE EndPass
  BY <1>c5, <1>2, <1>4, PassEnded
<1>c6. CASE PassFails \/ SyncFails
  BY <1>c6, <1>2, <1>3, <1>4, FeedsFailed
<1>c8. CASE StartSync
  BY <1>c8, <1>2, <1>4 DEF StartSync
<1>c9. CASE SyncFeeds
  BY <1>c9, <1>2, <1>3, <1>4, SyncFed
<1>c10. ASSUME NEW p \in Pools, NEW position \in store[p].held, PayOut(p, position)
        PROVE  /\ reseeding' = "none" /\ reseeds = 0
               /\ \A q \in Pools : StillKnown(store[q]) \subseteq StillKnown(store[q])'
  <2>1. /\ \A q \in Pools \ {p} : store'[q] = store[q]
        /\ store'[p].tree = store[p].tree
        /\ store'[p].in_flight = store[p].in_flight \cup {position}
        /\ store'[p].spent = store[p].spent
    BY <1>c10, NoteSpent
  <2>2. reseeding' = reseeding /\ reseeds' = reseeds
    BY <1>c10 DEF PayOut
  <2>3. StillKnown(store[p]) \subseteq StillKnown(store[p])'
    BY <2>1 DEF StillKnown, InFlight
  <2>4. \A q \in Pools \ {p} : StillKnown(store[q]) \subseteq StillKnown(store[q])'
    BY <2>1 DEF StillKnown, InFlight
  <2>. QED
    BY <1>4, <2>2, <2>3, <2>4
<1>c11. ASSUME NEW p \in Pools, Reseed(p) PROVE FALSE
  BY <1>c11, <1>1 DEF Reseed
<1>c12. CASE ReseedOther
  BY <1>c12, <1>1, <1>4 DEF ReseedOther
<1>c13. CASE ReseedFails
  BY <1>c13, <1>1, <1>4 DEF ReseedFails
<1>c14. CASE UNCHANGED vars
  BY <1>c14, <1>2, <1>4 DEF vars
<1>. QED
  BY <1>c1, <1>c2, <1>c3, <1>c4, <1>c5, <1>c6, <1>c8, <1>c9, <1>c10, <1>c11, <1>c12, <1>c13, <1>c14,
     StepCases

\* The payouts there are: no more, or one that takes a held note.
LEMMA SentGrows ==
  ASSUME Shape, [Next]_vars
  PROVE  \/ UNCHANGED sent
         \/ \E p \in Pools : \E position \in store[p].held : PayOut(p, position)
<1>2. CASE Chain
  BY <1>2, ChainStep
<1>3. CASE PassFails \/ SyncFails
  BY <1>3, FeedsFailed
<1>. QED
  BY <1>2, <1>3, StepCases
  DEF StartPass, PassFeeds, PassScans, EndPass, StartSync, SyncFeeds, Reseed, ReseedOther, ReseedFails, vars

\* Every step keeps the notes that payouts spend known.
LEMMA KnownNext ==
  ASSUME Shape, KnownInv, [Next]_vars
  PROVE  KnownInv'
<1> SUFFICES ASSUME reseeds' = 0
             PROVE  /\ reseeding' = "none"
                    /\ \A i \in DOMAIN sent' : sent'[i].note \in StillKnown(store[sent[i].pool])'
  BY DEF KnownInv
<1>1. /\ reseeding' = "none" /\ reseeds = 0
      /\ \A p \in Pools : StillKnown(store[p]) \subseteq StillKnown(store[p])'
  BY StillKnownGrows
<1>2. \A i \in DOMAIN sent : sent[i].note \in StillKnown(store[sent[i].pool])
  BY <1>1 DEF KnownInv
<1>3. sent \in Seq(PayoutRecord) /\ \A i \in DOMAIN sent : sent[i].pool \in Pools
  <2>1. sent \in Seq(PayoutRecord)
    BY DEF Shape, ChainShape
  <2>2. \A i \in DOMAIN sent : sent[i] \in PayoutRecord
    BY <2>1, LenProperties, ElementOfSeq
  <2>. QED
    BY <2>1, <2>2 DEF PayoutRecord
<1>4. \A i \in DOMAIN sent : \A p \in Pools : sent[i].pool = p => sent[i].note \in StillKnown(store[p])'
  BY <1>1, <1>2
<1>5. CASE UNCHANGED sent
  <2>1. ASSUME NEW i \in DOMAIN sent
        PROVE  sent'[i].note \in StillKnown(store[sent[i].pool])'
    <3>1. PICK p \in Pools : sent[i].pool = p
      BY <1>3
    <3>2. sent[i].note \in StillKnown(store[p])' /\ sent'[i] = sent[i]
      BY <1>4, <1>5, <3>1
    <3>. QED
      BY <3>1, <3>2
  <2>. QED
    BY <1>1, <1>5, <2>1
<1>6. ASSUME NEW p \in Pools, NEW position \in store[p].held, PayOut(p, position)
      PROVE  \A i \in DOMAIN sent' : sent'[i].note \in StillKnown(store[sent[i].pool])'
  <2> DEFINE q == [note |-> store[p].tree[position], pool |-> p]
  <2>1. /\ q \in PayoutRecord /\ sent' = Append(sent, q)
        /\ store'[p].tree = store[p].tree
        /\ store'[p].in_flight = store[p].in_flight \cup {position}
    BY <1>6, NoteSpent
  <2>2. q.note = store[p].tree[position] /\ q.pool = p
    OBVIOUS
  <2> HIDE DEF q
  <2>3. /\ DOMAIN sent' = DOMAIN sent \cup {Len(sent) + 1}
        /\ \A i \in DOMAIN sent : sent'[i] = sent[i]
        /\ sent'[Len(sent) + 1] = q
    BY <1>3, <2>1, PayoutAdded
  <2>4. q.note \in StillKnown(store[p])'
    BY <2>1, <2>2 DEF StillKnown, InFlight
  <2>5. ASSUME NEW i \in DOMAIN sent'
        PROVE  \E r \in Pools : sent'[i].pool = r /\ sent'[i].note \in StillKnown(store[r])'
    <3>1. CASE i \in DOMAIN sent
      BY <1>3, <1>4, <2>3, <3>1
    <3>2. CASE i = Len(sent) + 1
      BY <2>2, <2>3, <2>4, <3>2
    <3>. QED
      BY <2>3, <3>1, <3>2
  <2>. QED
    BY <2>5
<1>. QED
  BY <1>1, <1>5, <1>6, SentGrows

(***************************************************************************)
(* The vault's own payouts never stop a pass, whichever of the two threads *)
(* first sees the note spent, and whatever blocks a failed feed undoes:    *)
(* until a reseed, every note a payout spends is in flight or among the    *)
(* spent (spend_nullifier, rewind, and spends_ours of classify).           *)
(***************************************************************************)
THEOREM PayoutsStayKnown == Spec => []OwnPayoutsAreKnown
<1>1. Init => KnownInv
  <2> SUFFICES ASSUME Init PROVE KnownInv
    OBVIOUS
  <2>1. reseeding = "none" /\ DOMAIN sent = {}
    BY DEF Init
  <2>. QED
    BY <2>1 DEF KnownInv
<1>2. Shape /\ KnownInv /\ [Next]_vars => KnownInv'
  BY KnownNext
<1>3. Shape /\ KnownInv => OwnPayoutsAreKnown
  <2> SUFFICES ASSUME Shape, KnownInv, reseeds = 0, NEW tx \in Payouts PROVE Spends(tx) \subseteq Known
    BY DEF OwnPayoutsAreKnown
  <2>1. sent \in Seq(PayoutRecord)
    BY DEF Shape, ChainShape
  <2> DEFINE i == tx - FirstPayout + 1
  <2>2. i \in DOMAIN sent /\ tx \notin Deposits /\ tx \in Txs /\ PayoutOf(tx) = sent[i]
    BY <2>1, TxsAre DEF Txs, PayoutOf
  <2>3. Spends(tx) = {sent[i].note} /\ sent[i].pool = Pool(tx) /\ Pool(tx) \in Pools
    BY <2>1, <2>2, TxParts
  <2> HIDE DEF i
  <2>4. sent[i].note \in StillKnown(store[Pool(tx)])
    BY <2>2, <2>3 DEF KnownInv
  <2>5. StillKnown(store[Pool(tx)]) \subseteq Known
    BY <2>3 DEF StillKnown, Known
  <2>. QED
    BY <2>3, <2>4, <2>5
<1>4. Spec => []KnownInv
  BY <1>1, <1>2, ShapeHolds, PTL DEF Spec
<1>. QED
  BY <1>3, <1>4, ShapeHolds, PTL

-----------------------------------------------------------------------------
(***************************************************************************)
(* The chain: its blocks share nothing, and notes are spent after they are *)
(* made.                                                                   *)
(***************************************************************************)
LEMMA ChainOrNot ==
  ASSUME Shape, [Next]_vars
  PROVE  Chain \/ UNCHANGED chainVars
<1>1. CASE PassFails \/ SyncFails
  BY <1>1, FeedsFailed
<1>. QED
  BY <1>1, StepCases
  DEF StartPass, PassFeeds, PassScans, EndPass, StartSync, SyncFeeds, PayOut, Reseed, ReseedOther,
      ReseedFails, vars

\* Every step keeps blocks apart, spends after what they spend, and the bound.
LEMMA ChainInvNext ==
  ASSUME Shape, ChainInv, [Next]_vars
  PROVE  ChainInv'
<1>1. /\ chain \in Seq(SUBSET Txs) /\ sent \in Seq(PayoutRecord)
      /\ \A h \in 1 .. Tip : chain[h] \in SUBSET Txs /\ h \in Heights
      /\ Tip \in Nat /\ highest \in Nat /\ MaxReorg \in Nat
  BY HeightsAre, ScannerBoundsAssumption DEF Shape, ChainShape, Heights
<1>2. /\ \A g, h \in 1 .. Tip : g # h => chain[g] \cap chain[h] = {}
      /\ \A h \in 1 .. Tip : \A tx \in chain[h] : \A n \in Spends(tx) :
           \E g \in 1 .. h - 1 : n \in chain[g]
      /\ highest - MaxReorg <= Tip
  BY DEF ChainInv, BlocksApart, SpentLater
<1>3. CASE Chain
  <2>1. /\ Tip' \in Nat /\ highest' \in Nat
        /\ \A h \in 1 .. Tip : h <= Tip' => chain'[h] = chain[h]
        /\ UNCHANGED sent
        /\ \/ /\ Tip' = Tip + 1 /\ Mineable(chain'[Tip + 1])
              /\ highest' = IF Tip + 1 > highest THEN Tip + 1 ELSE highest
           \/ Tip' < Tip /\ highest' = highest /\ Tip' >= highest - MaxReorg
    <3>1. highest' \in Nat /\ Tip' \in Nat
      BY <1>3, ChainStep, ScannerBoundsAssumption DEF Heights
    <3>. QED
      BY <1>3, <3>1, ChainStep
  <2>2. \A tx : Spends(tx)' = Spends(tx)
    BY <2>1, SentStays
  <2>3. highest' - MaxReorg <= Tip'
    BY <1>1, <1>2, <2>1
  <2>4. CASE Tip' < Tip
    <3>1. \A h \in 1 .. Tip' : h \in 1 .. Tip /\ chain'[h] = chain[h]
      BY <1>1, <2>1, <2>4
    <3>2. BlocksApart'
      BY <1>2, <3>1 DEF BlocksApart
    <3>3. SpentLater'
      <4>1. ASSUME NEW h \in 1 .. Tip', NEW tx \in chain'[h], NEW n \in Spends(tx)
            PROVE  \E g \in 1 .. h - 1 : n \in chain'[g]
        <5>1. PICK g \in 1 .. h - 1 : n \in chain[g]
          BY <1>2, <3>1
        <5>2. g \in 1 .. Tip'
          BY <2>1
        <5>. QED
          BY <3>1, <5>1, <5>2
      <4>. QED
        BY <2>2, <4>1 DEF SpentLater
    <3>. QED
      BY <2>3, <3>2, <3>3 DEF ChainInv
  <2>5. CASE Tip' = Tip + 1 /\ Mineable(chain'[Tip + 1])
    <3> DEFINE block == chain'[Tip + 1]
    <3>1. /\ \A h \in 1 .. Tip : chain'[h] = chain[h]
          /\ \A h \in 1 .. Tip' : h \in 1 .. Tip \/ h = Tip + 1
      BY <1>1, <2>1, <2>5
    <3>2. \A h \in 1 .. Tip : block \cap chain[h] = {}
      BY <2>5 DEF Mineable, MinedTxs
    <3>3. \A tx \in block : \A n \in Spends(tx) : \E g \in 1 .. Tip : n \in chain[g]
      <4> SUFFICES ASSUME NEW tx \in block, NEW n \in Spends(tx)
                   PROVE  \E g \in 1 .. Tip : n \in chain[g]
        OBVIOUS
      <4>1. tx \in Txs
        <5>1. chain' \in Seq(SUBSET Txs)
          BY <1>3, ChainStep
        <5>2. Len(chain') = Tip + 1
          BY <2>5 DEF Tip
        <5>3. Tip + 1 \in 1 .. Len(chain')
          BY <1>1, <5>2
        <5>4. block \in SUBSET Txs
          BY <5>1, <5>3, ElementOfSeq
        <5>. QED
          BY <5>4
      <4>2. tx \in Payouts /\ n = PayoutOf(tx).note
        BY <1>1, <4>1, TxParts DEF Spends
      <4>3. PayoutOf(tx).note \in MinedTxs
        BY <2>5, <4>2 DEF Mineable
      <4>. QED
        BY <4>2, <4>3 DEF MinedTxs
    <3> HIDE DEF block
    <3>4. block = chain'[Tip + 1]
      BY DEF block
    <3>5. BlocksApart'
      BY <1>1, <1>2, <3>1, <3>2, <3>4 DEF BlocksApart
    <3>6. SpentLater'
      <4>1. ASSUME NEW h \in 1 .. Tip', NEW tx \in chain'[h], NEW n \in Spends(tx)
            PROVE  \E g \in 1 .. h - 1 : n \in chain'[g]
        <5>1. CASE h \in 1 .. Tip
          <6>1. PICK g \in 1 .. h - 1 : n \in chain[g]
            BY <1>2, <3>1, <5>1
          <6>2. g \in 1 .. Tip
            BY <1>1, <5>1
          <6>. QED
            BY <3>1, <6>1, <6>2
        <5>2. CASE h = Tip + 1
          <6>1. PICK g \in 1 .. Tip : n \in chain[g]
            BY <3>3, <3>4, <5>2
          <6>2. g \in 1 .. h - 1
            BY <1>1, <5>2
          <6>. QED
            BY <3>1, <6>1, <6>2
        <5>. QED
          BY <3>1, <5>1, <5>2
      <4>. QED
        BY <2>2, <4>1 DEF SpentLater
    <3>. QED
      BY <2>3, <3>5, <3>6 DEF ChainInv
  <2>. QED
    BY <2>1, <2>4, <2>5
<1>4. CASE UNCHANGED chainVars
  <2>1. chain' = chain /\ Tip' = Tip /\ highest' = highest
    BY <1>4 DEF chainVars, Tip
  <2>2. \A tx \in Txs : Spends(tx)' = Spends(tx)
    <3>1. CASE UNCHANGED sent
      BY <3>1, SentStays
    <3>2. ASSUME NEW p \in Pools, NEW position \in store[p].held, PayOut(p, position)
          PROVE  \A tx \in Txs : Spends(tx)' = Spends(tx)
      BY <1>1, <3>2, NoteSpent, PayoutAdded
    <3>. QED
      BY <3>1, <3>2, SentGrows
  <2>3. BlocksApart'
    BY <1>2, <2>1 DEF BlocksApart
  <2>4. SpentLater'
    <3>1. ASSUME NEW h \in 1 .. Tip, NEW tx \in chain[h]
          PROVE  Spends(tx)' = Spends(tx)
      BY <1>1, <2>2
    <3>2. \A h \in 1 .. Tip : \A tx \in chain[h] : \A n \in Spends(tx)' :
            \E g \in 1 .. h - 1 : n \in chain[g]
      BY <1>2, <3>1
    <3>. QED
      BY <2>1, <3>2 DEF SpentLater
  <2>. QED
    BY <1>2, <2>1, <2>3, <2>4 DEF ChainInv
<1>. QED
  BY <1>3, <1>4, ChainOrNot

-----------------------------------------------------------------------------
(***************************************************************************)
(* The leaves of the chain, up to a height.                                *)
(***************************************************************************)
LEMMA LeavesToAre ==
  ASSUME Shape, NEW p, NEW k \in 0 .. Tip
  PROVE  /\ [h \in 1 .. k |-> Leaves(p, chain[h])] \in [1 .. k -> Seq(Txs)]
         /\ LeavesTo(p, k) \in Seq(Txs)
<1>1. sent \in Seq(PayoutRecord) /\ \A h \in 1 .. Tip : chain[h] \in SUBSET Txs
  BY HeightsAre DEF Shape, ChainShape
<1>2. Tip \in Nat /\ k \in Nat
  BY HeightsAre
<1> DEFINE parts == [h \in 1 .. k |-> Leaves(p, chain[h])]
<1>3. \A h \in 1 .. k : h \in 1 .. Tip
  BY <1>2
<1>4. \A h \in 1 .. k : Leaves(p, chain[h]) \in Seq(Txs)
  BY <1>1, <1>3, LeavesAre
<1>5. parts \in [1 .. k -> Seq(Txs)]
  BY <1>4
<1>6. LeavesTo(p, k) = FlattenSeq(parts)
  BY DEF LeavesTo
<1> HIDE DEF parts
<1>7. parts \in Seq(Seq(Txs))
  BY <1>2, <1>5, FunctionIsSequence
<1>8. FlattenSeq(parts) \in Seq(Txs)
  BY <1>7, FlattenType
<1>. QED
  BY <1>5, <1>6, <1>8 DEF parts

\* Before the first block there are no leaves.
LEMMA LeavesToNone ==
  ASSUME NEW p
  PROVE  LeavesTo(p, 0) = << >>
<1>1. [h \in 1 .. 0 |-> Leaves(p, chain[h])] = << >>
  OBVIOUS
<1>. QED
  BY <1>1, FlattenEmpty DEF LeavesTo

\* Flattening in two goes (FlattenSplit), for any function.
LEMMA PartsSplit ==
  ASSUME NEW T, NEW m \in Nat, NEW n \in Nat
  PROVE  \A f \in [1 .. m + n -> Seq(T)] :
           FlattenSeq(f) = FlattenSeq([i \in 1 .. m |-> f[i]]) \o FlattenSeq([i \in 1 .. n |-> f[m + i]])
BY FlattenSplit

\* One more block puts its leaves behind those before it.
LEMMA LeavesToMore ==
  ASSUME Shape, NEW p, NEW k \in 0 .. Tip - 1
  PROVE  LeavesTo(p, k + 1) = LeavesTo(p, k) \o Leaves(p, chain[k + 1])
<1> DEFINE f == [h \in 1 .. k + 1 |-> Leaves(p, chain[h])]
           a == [h \in 1 .. k |-> f[h]]
           b == [h \in 1 .. 1 |-> f[k + h]]
<1>1. k \in Nat /\ 1 \in Nat /\ k + 1 \in 0 .. Tip /\ Tip \in Nat
  BY HeightsAre
<1>2. f \in [1 .. k + 1 -> Seq(Txs)]
  BY <1>1, LeavesToAre
<1>3. a = [h \in 1 .. k |-> Leaves(p, chain[h])]
  BY <1>1
<1>4. Len(b) = 1 /\ b[1] = Leaves(p, chain[k + 1])
  BY <1>1
<1>5. LeavesTo(p, k + 1) = FlattenSeq(f)
  BY DEF LeavesTo
<1> HIDE DEF f
<1>6. FlattenSeq(f) = FlattenSeq(a) \o FlattenSeq(b)
  <2> DEFINE T == Txs
  <2>1. k \in Nat /\ 1 \in Nat /\ f \in [1 .. k + 1 -> Seq(T)]
    BY <1>1, <1>2
  <2> HIDE DEF T
  <2>2. \A g \in [1 .. k + 1 -> Seq(T)] :
          FlattenSeq(g) = FlattenSeq([i \in 1 .. k |-> g[i]]) \o FlattenSeq([i \in 1 .. 1 |-> g[k + i]])
    BY <2>1, PartsSplit, Zenon
  <2>. QED
    BY <2>1, <2>2, Zenon
<1> HIDE DEF b
<1>7. FlattenSeq(b) = Leaves(p, chain[k + 1])
  BY <1>4, FlattenSingle
<1>. QED
  BY <1>3, <1>5, <1>6, <1>7 DEF LeavesTo

\* The leaves of blocks that stay are the same leaves.
LEMMA LeavesToStay ==
  ASSUME Shape, NEW k \in 0 .. Tip, Tip' \in Nat, k <= Tip',
         \A h \in 1 .. Tip : h <= Tip' => chain'[h] = chain[h],
         \A tx \in Txs : Pool(tx)' = Pool(tx)
  PROVE  \A p : LeavesTo(p, k)' = LeavesTo(p, k)
<1>1. \A p : \A txs \in SUBSET Txs : Leaves(p, txs)' = Leaves(p, txs)
  BY LeavesStay
<1>2. \A h \in 1 .. k : h \in 1 .. Tip /\ chain'[h] = chain[h] /\ chain[h] \in SUBSET Txs
  <2>1. Tip \in Nat /\ \A h \in 1 .. Tip : chain[h] \in SUBSET Txs
    BY HeightsAre
  <2>2. \A h \in 1 .. k : h \in 1 .. Tip /\ h <= k
    BY <2>1
  <2>. QED
    BY <2>1, <2>2
<1>3. ASSUME NEW p
      PROVE  [h \in 1 .. k |-> Leaves(p, chain[h])'] = [h \in 1 .. k |-> Leaves(p, chain[h])]
  <2>1. \A h \in 1 .. k : Leaves(p, chain[h])' = Leaves(p, chain[h])
    BY <1>1, <1>2
  <2>. QED
    BY <2>1
<1>. QED
  BY <1>3, Zenon DEF LeavesTo

-----------------------------------------------------------------------------
(***************************************************************************)
(* The heights the trees are synced to.                                    *)
(***************************************************************************)
LEMMA SyncedToMoves ==
  ASSUME Shape
  PROVE  /\ \A h : Fed(h) => /\ SyncedTo' = h
                             /\ \A p \in Pools : store'[p].synced_to = h
         /\ (\A p \in Pools : store'[p].synced_to = store[p].synced_to) => SyncedTo' = SyncedTo
         /\ UNCHANGED store => SyncedTo' = SyncedTo
<1>1. "orchard" \in Pools /\ "ironwood" \in Pools
  BY DEF Pools
<1>2. ASSUME NEW h, Fed(h)
      PROVE  SyncedTo' = h /\ \A p \in Pools : store'[p].synced_to = h
  <2>1. \A p \in Pools : store'[p].synced_to = h
    BY <1>2 DEF Fed
  <2>2. store'["orchard"].synced_to = h /\ store'["ironwood"].synced_to = h
    BY <1>1, <2>1
  <2>3. SyncedTo' = h
    BY <2>2 DEF SyncedTo, Least
  <2>. QED
    BY <2>1, <2>3
<1>3. (\A p \in Pools : store'[p].synced_to = store[p].synced_to) => SyncedTo' = SyncedTo
  BY <1>1 DEF SyncedTo, Least
<1>4. UNCHANGED store => SyncedTo' = SyncedTo
  BY DEF SyncedTo
<1>. QED
  BY <1>2, <1>3, <1>4

\* The steps that change no tree, nor how far one is synced.
TreesStay ==
  /\ \A p \in Pools : /\ store'[p].tree = store[p].tree /\ store'[p].synced_to = store[p].synced_to
                      /\ store'[p].held \subseteq store[p].held
  /\ UNCHANGED <<reseeds, exclusive>>

\* The steps that reseed.
Reseeds == (\E p \in Pools : Reseed(p)) \/ ReseedOther \/ ReseedFails

\* Trees change only when a thread feeds a block, or in a reseed.
LEMMA TreeCases ==
  ASSUME Shape, [Next]_vars
  PROVE  \/ TreesStay /\ UNCHANGED reseeding
         \/ PassFeeds /\ Fed(Lowest(pass.feed))
         \/ SyncFeeds /\ Fed(Lowest(sync))
         \/ Reseeds
<1>1. CASE Chain
  BY <1>1, ChainStep DEF TreesStay
<1>2. CASE StartPass
  BY <1>2, PassStarted DEF TreesStay
<1>3. CASE PassFeeds
  BY <1>3, PassFed DEF TreesStay
<1>4. CASE PassScans
  BY <1>4, PassScanned DEF TreesStay
<1>5. CASE EndPass
  BY <1>5, PassEnded DEF TreesStay
<1>6. CASE PassFails \/ SyncFails
  BY <1>6, FeedsFailed DEF TreesStay, Loses
<1>7. CASE StartSync
  BY <1>7 DEF StartSync, TreesStay
<1>8. CASE SyncFeeds
  BY <1>8, SyncFed DEF TreesStay
<1>9. ASSUME NEW p \in Pools, NEW position \in store[p].held, PayOut(p, position)
      PROVE  TreesStay /\ UNCHANGED reseeding
  <2>1. /\ \A q \in Pools \ {p} : store'[q] = store[q]
        /\ store'[p].tree = store[p].tree /\ store'[p].synced_to = store[p].synced_to
        /\ store'[p].held \subseteq store[p].held
    BY <1>9, NoteSpent
  <2>2. UNCHANGED <<reseeding, reseeds, exclusive>>
    BY <1>9 DEF PayOut
  <2>. QED
    BY <2>1, <2>2 DEF TreesStay
<1>10. CASE UNCHANGED vars
  BY <1>10 DEF vars, TreesStay
<1>. QED
  BY <1>1, <1>2, <1>3, <1>4, <1>5, <1>6, <1>7, <1>8, <1>9, <1>10, StepCases DEF Reseeds

\* What reseeding does to the stores.
LEMMA Reseeded ==
  ASSUME Shape, Reseeds
  PROVE  /\ UNCHANGED <<chainVars, sent, pass, sync, exclusive>>
         /\ sync = {} \/ reseeding \in Pools
         /\ \A p \in Pools : store'[p] = store[p] \/ store'[p] = FromFrontier(<< >>, SeedHeight)
         /\ \/ /\ reseeding \notin Pools
               /\ exclusive => pass = NoPass
               /\ sync = {} /\ reseeds' = reseeds + 1
               /\ reseeding' \in Pools
               /\ store'[Other(reseeding')] = FromFrontier(<< >>, SeedHeight)
               /\ store'[reseeding'] = store[reseeding']
            \/ /\ reseeding \in Pools /\ reseeds' = reseeds
               /\ reseeding' = "none"
               /\ store'[reseeding] = FromFrontier(<< >>, SeedHeight)
               /\ store'[Other(reseeding)] = store[Other(reseeding)]
            \/ /\ reseeding \in Pools /\ UNCHANGED <<reseeds, store>>
               /\ reseeding' = "stopped"
<1> DEFINE new == FromFrontier(<< >>, SeedHeight)
<1>1. store \in [Pools -> StoreRecord(Txs)]
  BY DEF Shape, StoreShape
<1>2. \A p \in Pools : Other(p) \in Pools /\ Other(p) # p /\ Other(Other(p)) = p
  <2>1. Pools = {"orchard", "ironwood"} /\ "orchard" # "ironwood"
    BY DEF Pools
  <2>2. \A p \in Pools : Other(p) \in Pools /\ Other(p) # p
    <3>1. \A p \in Pools : \E q \in Pools : q # p
      BY <2>1
    <3>. QED
      BY <3>1 DEF Other
  <2>3. \A p, q, r \in Pools : q # p /\ r # q => r = p
    BY <2>1
  <2>. QED
    BY <2>2, <2>3
<1>3. ASSUME NEW p \in Pools, Reseed(p)
      PROVE  /\ UNCHANGED <<chainVars, sent, pass, sync, exclusive>>
             /\ \A q \in Pools : store'[q] = store[q] \/ store'[q] = new
             /\ reseeding \notin Pools
             /\ exclusive => pass = NoPass
             /\ sync = {} /\ reseeds' = reseeds + 1
             /\ reseeding' \in Pools
             /\ store'[Other(reseeding')] = new
             /\ store'[reseeding'] = store[reseeding']
  <2>1. /\ sync = {} /\ reseeding \notin Pools
        /\ exclusive => pass = NoPass
        /\ store' = [store EXCEPT ![p] = new]
        /\ reseeding' = Other(p) /\ reseeds' = reseeds + 1
        /\ UNCHANGED <<chainVars, sent, pass, sync, exclusive>>
    BY <1>3 DEF Reseed
  <2> HIDE DEF new
  <2> DEFINE o == Other(p)
  <2>2. o \in Pools /\ o # p /\ Other(o) = p /\ reseeding' = o
    BY <1>2, <2>1
  <2> HIDE DEF o
  <2>3. /\ store'[p] = new /\ store'[o] = store[o]
        /\ \A q \in Pools : store'[q] = store[q] \/ store'[q] = new
    BY <1>1, <2>1, <2>2
  <2>4. Other(reseeding') = p /\ store'[reseeding'] = store[reseeding']
    BY <2>2, <2>3, Zenon
  <2>5. store'[Other(reseeding')] = new /\ reseeding' \in Pools
    BY <2>2, <2>3, <2>4, Zenon
  <2>. QED
    BY <2>1, <2>3, <2>4, <2>5, Zenon DEF new
<1>4. CASE ReseedOther
  <2>1. /\ reseeding \in Pools
        /\ store' = [store EXCEPT ![reseeding] = new]
        /\ reseeding' = "none" /\ reseeds' = reseeds
        /\ UNCHANGED <<chainVars, sent, pass, sync, exclusive>>
    BY <1>4 DEF ReseedOther
  <2> HIDE DEF new
  <2>2. /\ \A q \in Pools : store'[q] = store[q] \/ store'[q] = new
        /\ store'[reseeding] = new /\ store'[Other(reseeding)] = store[Other(reseeding)]
    BY <1>1, <1>2, <2>1
  <2>. QED
    BY <2>1, <2>2 DEF new
<1>5. CASE ReseedFails
  BY <1>5 DEF ReseedFails
<1>. QED
  BY <1>3, <1>4, <1>5 DEF Reseeds

(***************************************************************************)
(* Lagging.                                                                *)
(***************************************************************************)
LEMMA LaggingNext ==
  ASSUME Shape, Lagging, [Next]_vars
  PROVE  Lagging'
<1>1. /\ \A h \in pass.feed \cup sync : h + TreeLag <= highest
      /\ \A p \in Pools : store[p].synced_to = 0 \/ store[p].synced_to + TreeLag <= highest
  BY DEF Lagging
<1>2. /\ TreeLag \in Nat /\ highest \in Nat /\ Tip \in Nat /\ Tip <= highest
      /\ pass.feed \in SUBSET Heights /\ sync \in SUBSET Heights /\ Heights \subseteq Nat
      /\ \A p \in Pools : store[p].synced_to \in Nat
  <2>1. pass.feed \in SUBSET Heights /\ sync \in SUBSET Heights /\ highest \in Heights
    BY DEF Shape, ChainShape, WorkShape, PassRecord
  <2>. QED
    BY <2>1, DepthAssumption, HeightsAre
<1>3. highest <= highest' /\ highest' \in Nat
  <2>1. CASE Chain
    <3>1. highest' \in Heights
      BY <2>1, ChainStep
    <3>. QED
      BY <1>2, <2>1, <3>1, ChainStep
  <2>2. CASE UNCHANGED chainVars
    BY <1>2, <2>2 DEF chainVars
  <2>. QED
    BY <2>1, <2>2, ChainOrNot
<1>4. /\ \A h \in pass.feed \cup sync : h + TreeLag <= highest'
      /\ \A p \in Pools : store[p].synced_to = 0 \/ store[p].synced_to + TreeLag <= highest'
  <2>1. \A h \in pass.feed \cup sync : h \in Nat
    BY <1>2
  <2>. QED
    BY <1>1, <1>2, <1>3, <2>1
<1>5. \A h \in pass'.feed \cup sync' : h + TreeLag <= highest'
  <2>1. CASE pass'.feed \subseteq pass.feed /\ sync' \subseteq sync
    BY <1>4, <2>1
  <2>2. CASE StartPass
    <3>1. (\A h \in pass'.feed : h + TreeLag <= Tip) /\ sync' = sync /\ pass' \in PassRecord
      BY <2>2, PassStarted
    <3>2. \A h \in pass'.feed : h \in Nat
      BY <1>2, <3>1 DEF PassRecord
    <3>3. \A h \in pass'.feed : h + TreeLag <= highest'
      BY <1>2, <1>3, <3>1, <3>2
    <3>. QED
      BY <1>4, <3>1, <3>3
  <2>3. CASE StartSync
    <3>1. (\A h \in sync' : h + TreeLag <= Tip) /\ sync' \in SUBSET Heights /\ pass' = pass
      BY <2>3, SyncStarted DEF StartSync
    <3>2. \A h \in sync' : h \in Nat
      BY <1>2, <3>1
    <3>3. \A h \in sync' : h + TreeLag <= highest'
      BY <1>2, <1>3, <3>1, <3>2
    <3>. QED
      BY <1>4, <3>1, <3>3
  <2>4. NoPass.feed = {}
    BY DEF NoPass
  <2>5. CASE PassFeeds
    <3>1. pass'.feed = pass.feed \ {Lowest(pass.feed)} /\ sync' = sync
      <4>1. pass \in PassRecord
        BY DEF Shape, WorkShape
      <4>. QED
        BY <2>5, <4>1, PassFed DEF PassRecord
    <3>. QED
      BY <2>1, <3>1
  <2>6. CASE PassScans
    <3>1. pass'.feed = pass.feed /\ sync' = sync
      <4>1. pass \in PassRecord
        BY DEF Shape, WorkShape
      <4>. QED
        BY <2>6, <4>1, PassScanned DEF PassRecord
    <3>. QED
      BY <2>1, <3>1
  <2>7. CASE EndPass
    BY <2>1, <2>4, <2>7, PassEnded
  <2>8. CASE PassFails \/ SyncFails
    BY <2>1, <2>4, <2>8, FeedsFailed
  <2>9. CASE SyncFeeds
    BY <2>1, <2>9, SyncFed
  <2>10. CASE Chain
    BY <2>1, <2>10, ChainStep
  <2>11. CASE Reseeds
    BY <2>1, <2>11, Reseeded
  <2>. QED
    BY <2>1, <2>2, <2>3, <2>5, <2>6, <2>7, <2>8, <2>9, <2>10, <2>11, StepCases DEF Reseeds, PayOut, vars
<1>6. \A p \in Pools : store'[p].synced_to = 0 \/ store'[p].synced_to + TreeLag <= highest'
  <2>1. CASE TreesStay
    BY <1>4, <2>1 DEF TreesStay
  <2>2. ASSUME NEW h \in pass.feed \cup sync, Fed(h)
        PROVE  \A p \in Pools : store'[p].synced_to = 0 \/ store'[p].synced_to + TreeLag <= highest'
    BY <1>4, <2>2, SyncedToMoves
  <2>3. CASE Reseeds
    <3>1. \A p \in Pools : store'[p] = store[p] \/ store'[p].synced_to = 0
      BY <2>3, Reseeded, NewStore
    <3>. QED
      BY <1>4, <3>1
  <2>4. PassFeeds => Lowest(pass.feed) \in pass.feed
    BY PassFed
  <2>5. SyncFeeds => Lowest(sync) \in sync
    BY SyncFed
  <2>. QED
    BY <2>1, <2>2, <2>3, <2>4, <2>5, TreeCases
<1>. QED
  BY <1>5, <1>6 DEF Lagging

(***************************************************************************)
(* Nobody feeds in a reseed that excludes it.                              *)
(***************************************************************************)
LEMMA ReseedingNext ==
  ASSUME Shape, Reseeding, [Next]_vars
  PROVE  Reseeding'
<1> SUFFICES ASSUME exclusive', reseeding' \in Pools
             PROVE  /\ pass' = NoPass /\ sync' = {}
                    /\ store'[Other(reseeding')] = FromFrontier(<< >>, SeedHeight)
  BY DEF Reseeding, NoPass, FromFrontier, Other, SeedHeight
<1>1. NoPass.feed = {} /\ NoPass.scan = {}
  BY DEF NoPass
<1>2. exclusive /\ reseeding \in Pools =>
        /\ pass = NoPass /\ sync = {}
        /\ store[Other(reseeding)] = FromFrontier(<< >>, SeedHeight)
  BY DEF Reseeding
<1>3. "none" \notin Pools /\ "stopped" \notin Pools
  BY DEF Pools
<1>4. CASE Reseeds
  <2>1. /\ reseeding \notin Pools
        /\ exclusive => pass = NoPass
        /\ sync = {}
        /\ store'[Other(reseeding')] = FromFrontier(<< >>, SeedHeight)
    BY <1>3, <1>4, Reseeded
  <2>. QED
    BY <1>4, <2>1, Reseeded
<1>5. CASE Chain
  BY <1>2, <1>5, ChainStep
<1>6. CASE StartPass
  BY <1>6, PassStarted
<1>7. CASE PassFeeds
  BY <1>1, <1>2, <1>7, PassFed
<1>8. CASE PassScans
  BY <1>1, <1>2, <1>8, PassScanned
<1>9. CASE EndPass
  BY <1>2, <1>9, PassEnded
<1>10. CASE PassFails
  <2>1. pass.feed # {} \/ pass.scan # {}
    BY <1>10 DEF PassFails
  <2>. QED
    BY <1>1, <1>2, <1>10, <2>1, FeedsFailed
<1>11. CASE SyncFails
  <2>1. sync # {}
    BY <1>11 DEF SyncFails
  <2>. QED
    BY <1>2, <1>11, <2>1, FeedsFailed
<1>12. CASE StartSync
  BY <1>12 DEF StartSync
<1>13. CASE SyncFeeds
  BY <1>2, <1>13, SyncFed
<1>14. ASSUME NEW p \in Pools, NEW position \in store[p].held, PayOut(p, position)
       PROVE  FALSE
  BY <1>14 DEF PayOut
<1>15. CASE UNCHANGED vars
  BY <1>2, <1>15 DEF vars
<1>. QED
  BY <1>4, <1>5, <1>6, <1>7, <1>8, <1>9, <1>10, <1>11, <1>12, <1>13, <1>14, <1>15, StepCases DEF Reseeds

(***************************************************************************)
(* What is left to feed has no gaps.                                       *)
(***************************************************************************)
LEMMA GapsStay ==
  ASSUME Shape, NEW fed, NoGaps(fed), fed \subseteq Heights, NEW to \in Nat, SyncedTo <= to,
         NEW done, \A h \in done : h <= to
  PROVE  \A h \in fed \ done : \A g \in to + 1 .. h : g \in fed \ done
<1>1. SyncedTo \in Nat /\ \A h \in fed : h \in Nat
  BY HeightsAre
<1>2. ASSUME NEW h \in fed \ done, NEW g \in to + 1 .. h
      PROVE  g \in fed \ done
  <2>1. g \in SyncedTo + 1 .. h /\ ~ (g <= to)
    BY <1>1
  <2>2. g \in fed
    BY <2>1 DEF NoGaps
  <2>. QED
    BY <2>1, <2>2
<1>. QED
  BY <1>2

\* Every step keeps what is left to feed without gaps.
LEMMA FeedingNext ==
  ASSUME Shape, KnownInv, Reseeding, Feeding, [Next]_vars
  PROVE  Feeding'
<1> SUFFICES ASSUME exclusive' \/ reseeds' = 0
             PROVE  /\ \A h \in pass'.feed : \A g \in SyncedTo' + 1 .. h : g \in pass'.feed
                    /\ \A h \in sync' : \A g \in SyncedTo' + 1 .. h : g \in sync'
  BY DEF Feeding, NoGaps
<1> DEFINE Gapless(fed) == \A h \in fed : \A g \in SyncedTo' + 1 .. h : g \in fed
<1>1. /\ pass.feed \in SUBSET Heights /\ sync \in SUBSET Heights /\ pass \in PassRecord
      /\ SyncedTo \in Nat /\ reseeds \in Nat
  BY HeightsAre DEF Shape, WorkShape, PassRecord
<1>2. NoPass.feed = {} /\ Gapless({})
  BY DEF NoPass
<1>3. exclusive \/ reseeds = 0 => NoGaps(pass.feed) /\ NoGaps(sync)
  BY DEF Feeding
<1>4. UNCHANGED <<reseeds, exclusive>> => NoGaps(pass.feed) /\ NoGaps(sync)
  BY <1>3
<1>5. SyncedTo' = SyncedTo /\ UNCHANGED <<reseeds, exclusive>> =>
        Gapless(pass.feed) /\ Gapless(sync)
  BY <1>4 DEF NoGaps
<1>6. ASSUME NEW h \in Nat, Fed(h), UNCHANGED <<reseeds, exclusive>>
      PROVE  /\ Gapless(pass.feed) /\ Gapless(sync)
             /\ Gapless(pass.feed \ {h}) /\ Gapless(sync \ {h})
  <2>1. SyncedTo' = h /\ SyncedTo <= h
    BY <1>1, <1>6, SyncedToMoves DEF Fed
  <2>2. NoGaps(pass.feed) /\ NoGaps(sync)
    BY <1>4, <1>6
  <2>4. \A done : (\A x \in done : x <= h) =>
          /\ \A k \in pass.feed \ done : \A g \in h + 1 .. k : g \in pass.feed \ done
          /\ \A k \in sync \ done : \A g \in h + 1 .. k : g \in sync \ done
    BY <1>1, <2>1, <2>2, GapsStay
  <2>5. \A done : (\A x \in done : x <= h) => Gapless(pass.feed \ done) /\ Gapless(sync \ done)
    BY <2>1, <2>4
  <2>6. (\A x \in {} : x <= h) /\ \A x \in {h} : x <= h
    OBVIOUS
  <2>7. pass.feed \ {} = pass.feed /\ sync \ {} = sync
    OBVIOUS
  <2> HIDE DEF Gapless
  <2>. QED
    BY <2>5, <2>6, <2>7
<1>7. ASSUME NEW h \in Nat, AlreadyIn(h), SyncedTo' = SyncedTo, UNCHANGED <<reseeds, exclusive>>
      PROVE  Gapless(pass.feed \ {h}) /\ Gapless(sync \ {h})
  <2> DEFINE k == SyncedTo
  <2>1. NoGaps(pass.feed) /\ NoGaps(sync)
    BY <1>4, <1>7
  <2>2. k \in Nat /\ k <= k /\ SyncedTo' = k /\ \A x \in {h} : x <= k
    BY <1>1, <1>7 DEF AlreadyIn
  <2>3. SyncedTo <= k
    BY <2>2
  <2> HIDE DEF k
  <2>4. \A done : (\A x \in done : x <= k) =>
          /\ \A x \in pass.feed \ done : \A g \in k + 1 .. x : g \in pass.feed \ done
          /\ \A x \in sync \ done : \A g \in k + 1 .. x : g \in sync \ done
    BY <1>1, <2>1, <2>2, <2>3, GapsStay
  <2>5. \A done : (\A x \in done : x <= k) => Gapless(pass.feed \ done) /\ Gapless(sync \ done)
    BY <2>2, <2>4
  <2> HIDE DEF Gapless
  <2>. QED
    BY <2>2, <2>5
<1> HIDE DEF Gapless
<1> SUFFICES Gapless(pass'.feed) /\ Gapless(sync')
  BY DEF Gapless
<1>8. CASE Chain
  BY <1>5, <1>8, ChainStep, SyncedToMoves
<1>9. CASE StartPass
  <2>1. /\ \A h \in pass'.feed : \A g \in SyncedTo + 1 .. h : g \in pass'.feed
        /\ UNCHANGED <<store, sync, reseeds, exclusive>>
    BY <1>9, PassStarted
  <2>2. SyncedTo' = SyncedTo
    BY <2>1, SyncedToMoves
  <2>. QED
    BY <1>5, <2>1, <2>2 DEF Gapless
<1>10. CASE StartSync
  <2>1. /\ \A h \in sync' : \A g \in SyncedTo + 1 .. h : g \in sync'
        /\ UNCHANGED <<store, pass, reseeds, exclusive>>
    BY <1>10, SyncStarted DEF StartSync
  <2>2. SyncedTo' = SyncedTo
    BY <2>1, SyncedToMoves
  <2>. QED
    BY <1>5, <2>1, <2>2 DEF Gapless
<1>11. CASE PassFeeds
  <2> DEFINE h == Lowest(pass.feed)
  <2>1. /\ h \in Nat /\ UNCHANGED <<sync, reseeds, exclusive>>
        /\ pass' = [pass EXCEPT !.feed = @ \ {h}, !.found = @ \cup FeedFound(h)]
        /\ (AlreadyIn(h) /\ UNCHANGED store) \/ Fed(h)
    BY <1>11, PassFed, HeightsAre
  <2> HIDE DEF h
  <2>2. pass'.feed = pass.feed \ {h}
    BY <1>1, <2>1 DEF PassRecord
  <2>. QED
    BY <1>5, <1>6, <1>7, <2>1, <2>2, SyncedToMoves
<1>12. CASE SyncFeeds
  <2> DEFINE h == Lowest(sync)
  <2>1. /\ h \in Nat /\ UNCHANGED <<pass, reseeds, exclusive>>
        /\ sync' = sync \ {h}
        /\ (AlreadyIn(h) /\ UNCHANGED store) \/ Fed(h)
    BY <1>12, SyncFed, HeightsAre
  <2> HIDE DEF h
  <2>. QED
    BY <1>5, <1>6, <1>7, <2>1, SyncedToMoves
<1>13. CASE PassScans
  <2>1. pass'.feed = pass.feed /\ UNCHANGED <<store, sync, reseeds, exclusive>>
    BY <1>1, <1>13, PassScanned DEF PassRecord
  <2>. QED
    BY <1>5, <2>1, SyncedToMoves
<1>14. CASE EndPass
  BY <1>2, <1>5, <1>14, PassEnded, SyncedToMoves
<1>15. CASE PassFails \/ SyncFails
  <2>1. SyncedTo' = SyncedTo /\ UNCHANGED <<reseeds, exclusive>>
    <3>1. \A p \in Pools : store'[p].synced_to = store[p].synced_to
      BY <1>15, FeedsFailed DEF Loses
    <3>. QED
      BY <1>15, <3>1, FeedsFailed, SyncedToMoves
  <2>. QED
    BY <1>2, <1>5, <1>15, <2>1, FeedsFailed
<1>16. ASSUME NEW p \in Pools, NEW position \in store[p].held, PayOut(p, position)
       PROVE  Gapless(pass'.feed) /\ Gapless(sync')
  <2>1. \A q \in Pools : store'[q].synced_to = store[q].synced_to
    BY <1>16, NoteSpent
  <2>2. UNCHANGED <<pass, sync, reseeds, exclusive>>
    BY <1>16 DEF PayOut
  <2>. QED
    BY <1>5, <2>1, <2>2, SyncedToMoves
<1>17. CASE Reseeds
  <2>1. pass' = pass /\ sync' = sync /\ exclusive' = exclusive
    BY <1>17, Reseeded
  <2>2. "none" \notin Pools /\ (reseeds = 0 => reseeding = "none")
    BY DEF Pools, KnownInv
  <2>3. exclusive
    BY <1>1, <1>17, <2>1, <2>2, Reseeded
  <2>4. pass = NoPass /\ sync = {}
    BY <1>17, <2>3, Reseeded DEF Reseeding
  <2>. QED
    BY <1>2, <2>1, <2>4
<1>18. CASE UNCHANGED vars
  BY <1>5, <1>18, SyncedToMoves DEF vars
<1>. QED
  BY <1>8, <1>9, <1>10, <1>11, <1>12, <1>13, <1>14, <1>15, <1>16, <1>17, <1>18, StepCases DEF Reseeds

(***************************************************************************)
(* The two trees are level.                                                *)
(***************************************************************************)
LEMMA LevelNext ==
  ASSUME Shape, KnownInv, Reseeding, Level, [Next]_vars
  PROVE  Level'
<1>0. "orchard" \in Pools /\ "ironwood" \in Pools /\ "none" \notin Pools /\ "stopped" \notin Pools
  BY DEF Pools
<1> SUFFICES ASSUME Whole', reseeding' = "none"
             PROVE  store'["orchard"].synced_to = store'["ironwood"].synced_to
  BY DEF Level
<1>1. CASE TreesStay /\ UNCHANGED reseeding
  <2>1. Whole /\ reseeding = "none"
    BY <1>1 DEF TreesStay, Whole
  <2>2. \A p \in Pools : store'[p].synced_to = store[p].synced_to
    BY <1>1 DEF TreesStay
  <2>. QED
    BY <1>0, <2>1, <2>2 DEF Level
<1>2. ASSUME NEW h, Fed(h)
      PROVE  store'["orchard"].synced_to = store'["ironwood"].synced_to
  BY <1>0, <1>2, SyncedToMoves
<1>3. CASE Reseeds
  <2>1. /\ reseeding \in Pools /\ reseeds' = reseeds /\ exclusive' = exclusive
        /\ store'[reseeding] = FromFrontier(<< >>, SeedHeight)
        /\ store'[Other(reseeding)] = store[Other(reseeding)]
    BY <1>0, <1>3, Reseeded
  <2>2. reseeds # 0
    BY <1>0, <2>1 DEF KnownInv
  <2>3. exclusive
    BY <2>1, <2>2 DEF Whole
  <2>4. store'[Other(reseeding)] = FromFrontier(<< >>, SeedHeight)
    BY <2>1, <2>3 DEF Reseeding
  <2>5. \A p \in Pools : p = reseeding \/ p = Other(reseeding)
    <3>1. Pools = {"orchard", "ironwood"} /\ "orchard" # "ironwood"
      BY DEF Pools
    <3>2. \E q \in Pools : q # reseeding
      BY <3>1
    <3>3. Other(reseeding) \in Pools /\ Other(reseeding) # reseeding
      BY <3>2 DEF Other
    <3>. QED
      BY <2>1, <3>1, <3>3
  <2> DEFINE new == FromFrontier(<< >>, SeedHeight)
  <2>6. store'[reseeding] = new /\ store'[Other(reseeding)] = new
    BY <2>1, <2>4
  <2> HIDE DEF new
  <2>7. store'["orchard"] = new /\ store'["ironwood"] = new
    BY <1>0, <2>5, <2>6
  <2>. QED
    BY <2>7
<1>. QED
  BY <1>1, <1>2, <1>3, TreeCases

-----------------------------------------------------------------------------
(***************************************************************************)
(* What no reorganisation reaches stays as it is.                          *)
(***************************************************************************)
LEMMA ChainAgrees ==
  ASSUME Shape, highest - MaxReorg <= Tip, [Next]_vars
  PROVE  /\ highest \in Nat /\ highest' \in Nat /\ highest <= highest'
         /\ Tip \in Nat /\ Tip' \in Nat /\ highest - MaxReorg <= Tip'
         /\ \A h \in 1 .. Tip : h <= Tip' => chain'[h] = chain[h]
<1>1. MaxReorg \in Nat /\ highest \in Nat /\ Tip \in Nat
  <2>1. highest \in Heights
    BY DEF Shape, ChainShape
  <2>. QED
    BY <2>1, ScannerBoundsAssumption, HeightsAre
<1>2. CASE Chain
  <2>1. Tip' \in Nat /\ highest' \in Nat
    BY <1>2, ChainStep, HeightsAre
  <2>2. /\ Tip' = Tip + 1 \/ Tip' >= highest - MaxReorg
        /\ highest <= highest'
        /\ \A h \in 1 .. Tip : h <= Tip' => chain'[h] = chain[h]
    BY <1>2, ChainStep
  <2>. QED
    BY <1>1, <2>1, <2>2
<1>3. CASE UNCHANGED chainVars
  BY <1>1, <1>3 DEF chainVars, Tip
<1>. QED
  BY <1>2, <1>3, ChainOrNot

(***************************************************************************)
(* The trees are the chain's.  They only have blocks that reorganisations  *)
(* do not reach.                                                           *)
(***************************************************************************)
LEMMA SyncedBelow ==
  ASSUME Shape, Lagging, ChainInv, MaxReorg <= TreeLag, [Next]_vars
  PROVE  /\ \A p \in Pools : store[p].synced_to <= Tip /\ store[p].synced_to <= Tip'
         /\ Tip' \in Nat
         /\ \A h \in 1 .. Tip : h <= Tip' => chain'[h] = chain[h]
<1>1. /\ \A p \in Pools : store[p].synced_to = 0 \/ store[p].synced_to + TreeLag <= highest
      /\ highest - MaxReorg <= Tip
  BY DEF Lagging, ChainInv
<1>2. TreeLag \in Nat /\ MaxReorg \in Nat /\ \A p \in Pools : store[p].synced_to \in Nat
  BY DepthAssumption, ScannerBoundsAssumption, HeightsAre
<1>3. /\ highest \in Nat /\ Tip \in Nat /\ Tip' \in Nat /\ highest - MaxReorg <= Tip'
      /\ \A h \in 1 .. Tip : h <= Tip' => chain'[h] = chain[h]
  BY <1>1, ChainAgrees
<1>4. ASSUME NEW p \in Pools
      PROVE  store[p].synced_to <= Tip /\ store[p].synced_to <= Tip'
  BY <1>1, <1>2, <1>3
<1>. QED
  BY <1>3, <1>4

\* A transaction keeps its pool and the note it spends.
LEMMA TxsStay ==
  ASSUME Shape, [Next]_vars
  PROVE  Txs \subseteq Txs' /\ \A tx \in Txs : Pool(tx)' = Pool(tx) /\ Spends(tx)' = Spends(tx)
<1>1. sent \in Seq(PayoutRecord)
  BY DEF Shape, ChainShape
<1>2. CASE UNCHANGED sent
  BY <1>2, SentStays
<1>3. ASSUME NEW p \in Pools, NEW position \in store[p].held, PayOut(p, position)
      PROVE  Txs \subseteq Txs' /\ \A tx \in Txs : Pool(tx)' = Pool(tx) /\ Spends(tx)' = Spends(tx)
  BY <1>1, <1>3, NoteSpent, PayoutAdded
<1>. QED
  BY <1>2, <1>3, SentGrows

\* The block that is fed is the one after both trees.
LEMMA FedIsNext ==
  ASSUME Shape, KnownInv, Feeding, Reseeding, Level, Whole,
         NEW fed, fed = pass.feed \/ fed = sync, NEW h \in fed, \A g \in fed : h <= g, Fed(h)
  PROVE  reseeding = "none" /\ h \in 1 .. Tip /\ \A p \in Pools : store[p].synced_to = h - 1
<1>1. /\ SyncedTo \in Nat /\ Tip \in Nat /\ \A p \in Pools : store[p].synced_to \in Nat
      /\ reseeds \in Nat
  BY HeightsAre DEF Shape, WorkShape
<1>2. h \in SyncedTo + 1 .. Tip
  BY DEF Fed
<1>3. exclusive \/ reseeds = 0
  BY DEF Whole
<1>4. NoGaps(fed)
  BY <1>3 DEF Feeding
<1>5. SyncedTo + 1 \in SyncedTo + 1 .. h
  BY <1>1, <1>2
<1>6. SyncedTo + 1 \in fed
  BY <1>4, <1>5 DEF NoGaps
<1>7. h = SyncedTo + 1
  BY <1>1, <1>2, <1>6
<1>8. reseeding = "none"
  <2> SUFFICES ASSUME reseeding \in Pools /\ reseeds = 1 PROVE FALSE
    BY DEF Whole
  <2>1. pass = NoPass /\ sync = {}
    BY <1>3 DEF Reseeding
  <2>. QED
    BY <2>1 DEF NoPass
<1>9. store["orchard"].synced_to = store["ironwood"].synced_to
  BY <1>8 DEF Level
<1>10. \A p \in Pools : store[p].synced_to = SyncedTo
  BY <1>9 DEF Pools, SyncedTo, Least
<1>. QED
  BY <1>1, <1>2, <1>7, <1>8, <1>10

\* A reseed that leaves the pools whole begins with both whole, or replaces both.
LEMMA ReseedsTwo ==
  ASSUME Shape, KnownInv, Reseeding, Reseeds, Whole', NEW p \in Pools
  PROVE  store'[p] = FromFrontier(<< >>, SeedHeight) \/ (store'[p] = store[p] /\ Whole)
<1> DEFINE new == FromFrontier(<< >>, SeedHeight)
<1>1. reseeding' # "stopped" /\ reseeds \in Nat /\ "none" \notin Pools /\ "stopped" \notin Pools
  BY DEF Whole, Shape, WorkShape, Pools
<1>2. reseeding \in Pools => p = reseeding \/ p = Other(reseeding)
  <2>1. Pools = {"orchard", "ironwood"} /\ "orchard" # "ironwood"
    BY DEF Pools
  <2>2. reseeding \in Pools => \E q \in Pools : q # reseeding
    BY <2>1
  <2>3. reseeding \in Pools => Other(reseeding) \in Pools /\ Other(reseeding) # reseeding
    BY <2>2 DEF Other
  <2>. QED
    BY <2>1, <2>3
<1>3. CASE reseeding \notin Pools
  <2>1. reseeds' = reseeds + 1 /\ reseeding' \in Pools
    BY <1>3, Reseeded
  <2>2. reseeds' = 1
    BY <1>1, <2>1 DEF Whole
  <2>3. reseeds = 0
    BY <1>1, <2>1, <2>2
  <2>4. Whole
    BY <2>3 DEF Whole, KnownInv
  <2>5. store'[p] = store[p] \/ store'[p] = new
    BY Reseeded
  <2>. QED
    BY <2>4, <2>5
<1>4. CASE reseeding \in Pools
  <2>1. /\ reseeds' = reseeds /\ UNCHANGED exclusive
        /\ store'[reseeding] = new /\ store'[Other(reseeding)] = store[Other(reseeding)]
    BY <1>1, <1>4, Reseeded
  <2>2. reseeds # 0
    BY <1>1, <1>4 DEF KnownInv
  <2>3. exclusive
    BY <2>1, <2>2 DEF Whole
  <2>4. store[Other(reseeding)] = new
    BY <1>4, <2>3 DEF Reseeding
  <2> HIDE DEF new
  <2>5. store'[p] = new
    BY <1>2, <1>4, <2>1, <2>4
  <2>. QED
    BY <2>5 DEF new
<1>. QED
  BY <1>3, <1>4

\* With the block that is fed, each tree is the chain's up to the block.
LEMMA FedToBlock ==
  ASSUME Shape, KnownInv, TreesInv, Whole,
         NEW fed, fed = pass.feed \/ fed = sync, NEW h \in fed, \A g \in fed : h <= g, Fed(h)
  PROVE  /\ h \in 1 .. Tip
         /\ \A p \in Pools : /\ store[p].synced_to = h - 1 /\ store[p].tree = LeavesTo(p, h - 1)
                             /\ store'[p].synced_to = h /\ store'[p].tree = LeavesTo(p, h)
<1>1. h \in 1 .. Tip /\ \A p \in Pools : store[p].synced_to = h - 1
  BY FedIsNext DEF TreesInv
<1> SUFFICES ASSUME NEW p \in Pools
             PROVE  /\ store[p].synced_to = h - 1 /\ store[p].tree = LeavesTo(p, h - 1)
                    /\ store'[p].synced_to = h /\ store'[p].tree = LeavesTo(p, h)
  BY <1>1
<1>2. store'[p].tree = store[p].tree \o Leaves(p, chain[h]) /\ store'[p].synced_to = h
  BY DEF Fed, Grows
<1>3. store[p].tree = LeavesTo(p, h - 1)
  BY <1>1 DEF TreesInv, TreesAre
<1> DEFINE g == h - 1
<1>4. Tip \in Nat
  BY HeightsAre
<1>5. g \in 0 .. Tip - 1 /\ h = g + 1
  BY <1>1, <1>4
<1> HIDE DEF g
<1>6. LeavesTo(p, g + 1) = LeavesTo(p, g) \o Leaves(p, chain[g + 1])
  BY <1>5, LeavesToMore
<1>7. store'[p].tree = LeavesTo(p, h)
  BY <1>2, <1>3, <1>5, <1>6 DEF g
<1>. QED
  BY <1>1, <1>2, <1>3, <1>7

\* So the trees stay the chain's.
LEMMA TreesNext ==
  ASSUME Shape, KnownInv, ChainInv, TreesInv, MaxReorg <= TreeLag, [Next]_vars
  PROVE  TreesAre'
<1>1. Lagging /\ Feeding /\ Reseeding /\ Level
  BY DEF TreesInv
<1>2. Whole => \A p \in Pools : store[p].tree = LeavesTo(p, store[p].synced_to)
  BY DEF TreesInv, TreesAre
<1>3. /\ Tip' \in Nat /\ Tip \in Nat
      /\ \A h \in 1 .. Tip : h <= Tip' => chain'[h] = chain[h]
      /\ \A p \in Pools : /\ store[p].synced_to \in 0 .. Tip
                          /\ store[p].synced_to <= Tip'
  <2>1. Tip \in Nat /\ \A p \in Pools : store[p].synced_to \in Nat
    BY HeightsAre
  <2>. QED
    BY <1>1, <2>1, SyncedBelow
<1>4. \A k \in 0 .. Tip : k <= Tip' => \A p : LeavesTo(p, k)' = LeavesTo(p, k)
  BY <1>3, TxsStay, LeavesToStay
<1> SUFFICES ASSUME Whole', NEW p \in Pools
             PROVE  \E k : k = store'[p].synced_to /\ store'[p].tree = LeavesTo(p, k)'
  BY DEF TreesAre, LeavesTo
<1>5. CASE TreesStay /\ UNCHANGED reseeding
  <2>1. Whole
    BY <1>5 DEF TreesStay, Whole
  <2> DEFINE k == store[p].synced_to
  <2>2. k \in 0 .. Tip /\ k <= Tip' /\ store[p].tree = LeavesTo(p, k)
    BY <1>2, <1>3, <2>1
  <2>3. store'[p].tree = store[p].tree /\ store'[p].synced_to = k
    BY <1>5 DEF TreesStay
  <2> HIDE DEF k
  <2>. QED
    BY <1>4, <2>2, <2>3, Zenon
<1>6. ASSUME NEW fed, fed = pass.feed \/ fed = sync, NEW h \in fed, \A g \in fed : h <= g, Fed(h),
             UNCHANGED <<chain, reseeding, reseeds, exclusive>>
      PROVE  \E k : k = store'[p].synced_to /\ store'[p].tree = LeavesTo(p, k)'
  <2>1. Whole
    BY <1>6 DEF Whole
  <2>2. h \in 1 .. Tip /\ store'[p].synced_to = h /\ store'[p].tree = LeavesTo(p, h)
    BY <1>6, <2>1, FedToBlock
  <2>3. h \in 0 .. Tip /\ h <= Tip'
    BY <1>6, <2>2 DEF Tip
  <2>. QED
    BY <1>4, <2>2, <2>3, Zenon
<1>7. CASE Reseeds
  <2>2. LeavesTo(p, 0)' = << >>
    BY FlattenEmpty DEF LeavesTo
  <2> DEFINE new == FromFrontier(<< >>, SeedHeight)
  <2>3. new.tree = << >> /\ new.synced_to = 0
    BY NewStore
  <2>4. store'[p] = new \/ (store'[p] = store[p] /\ Whole)
    BY <1>1, <1>7, ReseedsTwo
  <2>5. store[p] = store'[p] /\ Whole => \E k : k = store'[p].synced_to /\ store'[p].tree = LeavesTo(p, k)'
    <3> SUFFICES ASSUME store[p] = store'[p], Whole
                 PROVE  \E k : k = store'[p].synced_to /\ store'[p].tree = LeavesTo(p, k)'
      OBVIOUS
    <3> DEFINE k == store[p].synced_to
    <3>1. k \in 0 .. Tip /\ k <= Tip' /\ store[p].tree = LeavesTo(p, k) /\ store'[p].synced_to = k
      BY <1>2, <1>3
    <3> HIDE DEF k
    <3>2. store'[p].tree = LeavesTo(p, k)
      BY <3>1
    <3>. QED
      BY <1>4, <3>1, <3>2, Zenon
  <2> HIDE DEF new
  <2>6. store'[p] = new => 0 = store'[p].synced_to /\ store'[p].tree = LeavesTo(p, 0)'
    BY <2>2, <2>3
  <2>. QED
    BY <2>4, <2>5, <2>6
<1>8. CASE PassFeeds /\ Fed(Lowest(pass.feed))
  BY <1>6, <1>8, PassFed DEF chainVars
<1>9. CASE SyncFeeds /\ Fed(Lowest(sync))
  BY <1>6, <1>9, SyncFed DEF chainVars
<1>. QED
  BY <1>5, <1>7, <1>8, <1>9, TreeCases

(***************************************************************************)
(* The invariant of the trees.                                             *)
(***************************************************************************)
LEMMA KnownHolds == Spec => []KnownInv
<1>1. Init => KnownInv
  <2> SUFFICES ASSUME Init PROVE KnownInv
    OBVIOUS
  <2>1. reseeding = "none" /\ DOMAIN sent = {}
    BY DEF Init
  <2>. QED
    BY <2>1 DEF KnownInv
<1>2. Shape /\ KnownInv /\ [Next]_vars => KnownInv'
  BY KnownNext
<1>. QED
  BY <1>1, <1>2, ShapeHolds, PTL DEF Spec

\* With reorganisations no deeper than the lag, the trees are the chain's.
LEMMA TreesHold ==
  ASSUME MaxReorg <= TreeLag
  PROVE  Spec => [](Shape /\ KnownInv /\ ChainInv /\ TreesInv)
<1>1. Init => ChainInv /\ TreesInv
  <2> SUFFICES ASSUME Init PROVE ChainInv /\ TreesInv
    OBVIOUS
  <2> DEFINE new == FromFrontier(<< >>, SeedHeight)
  <2>1. /\ Tip = 0 /\ highest = 0 /\ pass = NoPass /\ NoPass.feed = {} /\ sync = {}
        /\ reseeding = "none" /\ "none" \notin Pools
        /\ \A p \in Pools : store[p] = new
    BY DEF Init, Tip, NoPass, Pools
  <2>2. new.tree = << >> /\ new.synced_to = 0
    BY NewStore
  <2> HIDE DEF new
  <2>3. \A p \in Pools : store[p].tree = << >> /\ store[p].synced_to = 0
    BY <2>1, <2>2
  <2>4. ChainInv
    BY <2>1, ScannerBoundsAssumption DEF ChainInv, BlocksApart, SpentLater
  <2>5. Lagging /\ Feeding /\ Reseeding
    BY <2>1, <2>3 DEF Lagging, Feeding, NoGaps, Reseeding
  <2>6. Level
    BY <2>3 DEF Level, Pools
  <2>7. TreesAre
    BY <2>3, LeavesToNone DEF TreesAre
  <2>. QED
    BY <2>4, <2>5, <2>6, <2>7 DEF TreesInv
<1>2. Shape /\ KnownInv /\ ChainInv /\ TreesInv /\ [Next]_vars => ChainInv' /\ TreesInv'
  <2> SUFFICES ASSUME Shape, KnownInv, ChainInv, TreesInv, [Next]_vars PROVE ChainInv' /\ TreesInv'
    OBVIOUS
  <2>1. Lagging /\ Feeding /\ Reseeding /\ Level
    BY DEF TreesInv
  <2>2. Lagging' /\ Feeding' /\ Reseeding' /\ Level'
    BY <2>1, LaggingNext, FeedingNext, ReseedingNext, LevelNext
  <2>3. ChainInv' /\ TreesAre'
    BY ChainInvNext, TreesNext
  <2>. QED
    BY <2>2, <2>3 DEF TreesInv
<1>. QED
  BY <1>1, <1>2, ShapeHolds, KnownHolds, PTL DEF Spec

(***************************************************************************)
(* Each tree is the chain's up to where it is synced: feed_block appends   *)
(* every block once, whole and in order, whichever thread feeds it,        *)
(* wherever feeding fails and is rewound, and however the chain            *)
(* reorganises, if no reorganisation goes deeper than tree_lag.            *)
(***************************************************************************)
THEOREM TreesFollowTheChain == MaxReorg <= TreeLag => (Spec => []TreesAreTheChains)
<1> SUFFICES ASSUME MaxReorg <= TreeLag PROVE Spec => []TreesAreTheChains
  OBVIOUS
<1>1. Shape /\ ChainInv /\ TreesInv => TreesAreTheChains
  <2> SUFFICES ASSUME Shape, ChainInv, TreesInv PROVE TreesAreTheChains
    OBVIOUS
  <2>1. /\ \A p \in Pools : store[p].synced_to = 0 \/ store[p].synced_to + TreeLag <= highest
        /\ highest - MaxReorg <= Tip
    BY DEF TreesInv, Lagging, ChainInv
  <2>2. /\ TreeLag \in Nat /\ MaxReorg \in Nat /\ highest \in Nat /\ Tip \in Nat
        /\ \A p \in Pools : store[p].synced_to \in Nat
    <3>1. highest \in Heights
      BY DEF Shape, ChainShape
    <3>. QED
      BY <3>1, DepthAssumption, ScannerBoundsAssumption, HeightsAre
  <2>3. \A p \in Pools : store[p].synced_to <= Tip
    BY <2>1, <2>2
  <2>4. Whole => \A p \in Pools : store[p].tree = LeavesTo(p, store[p].synced_to)
    BY DEF TreesInv, TreesAre
  <2>. QED
    BY <2>3, <2>4 DEF TreesAreTheChains, LeavesTo
<1>. QED
  BY <1>1, TreesHold, PTL

-----------------------------------------------------------------------------
(***************************************************************************)
(* No leaf is in a tree twice: the chain has no transaction twice.         *)
(***************************************************************************)
LEMMA LeavesToApart ==
  ASSUME Shape, BlocksApart, NEW p, NEW k \in 0 .. Tip
  PROVE  /\ IsInjective(LeavesTo(p, k))
         /\ \A n \in ToSet(LeavesTo(p, k)) : \E h \in 1 .. k : n \in chain[h]
<1> DEFINE parts == [h \in 1 .. k |-> Leaves(p, chain[h])]
<1>1. sent \in Seq(PayoutRecord) /\ \A h \in 1 .. Tip : chain[h] \in SUBSET Txs
  BY HeightsAre DEF Shape, ChainShape
<1>2. Tip \in Nat /\ k \in Nat /\ \A h \in 1 .. k : h \in 1 .. Tip
  BY HeightsAre
<1>3. \A h \in 1 .. k : /\ IsInjective(parts[h])
                        /\ ToSet(parts[h]) \subseteq chain[h]
  BY <1>1, <1>2, LeavesAre
<1>4. parts \in [1 .. k -> Seq(Txs)]
  BY LeavesToAre
<1>5. LeavesTo(p, k) = FlattenSeq(parts)
  BY DEF LeavesTo
<1> HIDE DEF parts
<1>6. parts \in Seq(Seq(Txs)) /\ Len(parts) = k /\ DOMAIN parts = 1 .. k
  BY <1>2, <1>4, FunctionIsSequence, LenProperties
<1>7. PartsApart(parts)
  <2>1. ASSUME NEW i \in 1 .. k, NEW j \in 1 .. k, i # j
        PROVE  ToSet(parts[i]) \cap ToSet(parts[j]) = {}
    <3>1. chain[i] \cap chain[j] = {}
      BY <1>2, <2>1 DEF BlocksApart
    <3>. QED
      BY <1>3, <3>1
  <2>. QED
    BY <1>3, <1>6, <2>1 DEF PartsApart
<1>8. IsInjective(FlattenSeq(parts))
  BY <1>6, <1>7, FlattenInjective
<1>9. ToSet(FlattenSeq(parts)) = UNION {ToSet(q) : q \in ToSet(parts)}
  BY <1>6, FlattenEntries
<1>10. \A q \in ToSet(parts) : \E h \in 1 .. k : q = parts[h]
  BY <1>6 DEF ToSet
<1>. QED
  BY <1>3, <1>5, <1>8, <1>9, <1>10

\* The tree of a whole pool has no leaf twice.
LEMMA TreeInjective ==
  ASSUME Shape, Lagging, ChainInv, TreesAre, Whole, MaxReorg <= TreeLag, NEW p \in Pools
  PROVE  IsInjective(store[p].tree)
<1>1. store[p].synced_to = 0 \/ store[p].synced_to + TreeLag <= highest
  BY DEF Lagging
<1>2. /\ TreeLag \in Nat /\ MaxReorg \in Nat /\ highest \in Nat /\ Tip \in Nat
      /\ store[p].synced_to \in Nat /\ highest - MaxReorg <= Tip
  <2>1. highest \in Heights
    BY DEF Shape, ChainShape
  <2>. QED
    BY <2>1, DepthAssumption, ScannerBoundsAssumption, HeightsAre DEF ChainInv
<1>3. store[p].synced_to \in 0 .. Tip
  BY <1>1, <1>2
<1>4. store[p].tree = LeavesTo(p, store[p].synced_to)
  BY DEF TreesAre
<1>. QED
  BY <1>3, <1>4, LeavesToApart DEF ChainInv

(***************************************************************************)
(* Leaves, and what payouts spend, are of their pools.                     *)
(***************************************************************************)
LEMMA InPoolsNext ==
  ASSUME Shape, InPools, [Next]_vars
  PROVE  InPools'
<1>1. /\ sent \in Seq(PayoutRecord)
      /\ \A p \in Pools : store[p] \in StoreRecord(Txs) /\ store[p].tree \in Seq(Txs)
      /\ \A h \in 1 .. Tip : chain[h] \in SUBSET Txs
      /\ SyncedTo \in Nat
  BY HeightsAre DEF Shape, ChainShape, StoreShape, StoreRecord
<1>2. \A tx \in Txs : Pool(tx)' = Pool(tx)
  BY TxsStay
<1>3. \A p \in Pools : \A n \in ToSet(store[p].tree) : n \in Txs /\ Pool(n)' = p
  BY <1>1, <1>2, EntriesAre DEF InPools
<1>4. \A p \in Pools : \A n \in ToSet(store'[p].tree) : Pool(n)' = p
  <2>1. CASE TreesStay
    BY <1>3, <2>1 DEF TreesStay
  <2>2. ASSUME NEW h, Fed(h)
        PROVE  \A p \in Pools : \A n \in ToSet(store'[p].tree) : Pool(n)' = p
    <3> SUFFICES ASSUME NEW p \in Pools, NEW n \in ToSet(store'[p].tree) PROVE Pool(n)' = p
      OBVIOUS
    <3> DEFINE leaves == Leaves(p, chain[h])
               tree == store[p].tree
    <3>0. store'[p].tree = tree \o leaves
      BY <2>2 DEF Fed, Grows
    <3>1. store'[p].tree = tree \o leaves /\ h \in 1 .. Tip
      <4>1. h \in SyncedTo + 1 .. Tip
        BY <2>2 DEF Fed
      <4>. QED
        BY <1>1, <3>0, <4>1
    <3>2. leaves \in Seq(Txs) /\ ToSet(leaves) = {tx \in chain[h] : Pool(tx) = p} /\ tree \in Seq(Txs)
      BY <1>1, <3>1, LeavesAre
    <3>3. \A x \in ToSet(leaves) : Pool(x)' = p
      BY <1>1, <1>2, <3>1, <3>2
    <3>4. \A x \in ToSet(tree) : Pool(x)' = p
      BY <1>3
    <3> HIDE DEF leaves, tree
    <3>5. ToSet(tree \o leaves) = ToSet(tree) \cup ToSet(leaves)
      BY <3>2, EntriesConcat
    <3>. QED
      BY <3>1, <3>3, <3>4, <3>5
  <2>3. CASE Reseeds
    <3>1. FromFrontier(<< >>, SeedHeight).tree = << >>
      BY NewStore
    <3>. QED
      BY <1>3, <2>3, <3>1, EntriesOfNone, Reseeded
  <2>. QED
    BY <2>1, <2>2, <2>3, TreeCases
<1>5. \A i \in DOMAIN sent : \A n \in {sent[i].note} : Pool(n)' = sent[i].pool
  <2>1. \A i \in DOMAIN sent : sent[i].note \in Txs
    <3>1. \A i \in DOMAIN sent : sent[i] \in PayoutRecord
      BY <1>1, LenProperties, ElementOfSeq
    <3>. QED
      BY <3>1 DEF PayoutRecord
  <2>. QED
    BY <1>2, <2>1 DEF InPools
<1>6. \A i \in DOMAIN sent' : \A n \in {sent'[i].note} : Pool(n)' = sent'[i].pool
  <2>1. CASE UNCHANGED sent
    BY <1>5, <2>1
  <2>2. ASSUME NEW p \in Pools, NEW position \in store[p].held, PayOut(p, position)
        PROVE  \A i \in DOMAIN sent' : \A n \in {sent'[i].note} : Pool(n)' = sent'[i].pool
    <3>1. /\ position \in DOMAIN store[p].tree
          /\ [note |-> store[p].tree[position], pool |-> p] \in PayoutRecord
          /\ sent' = Append(sent, [note |-> store[p].tree[position], pool |-> p])
      BY <2>2, NoteSpent
    <3>2. PICK note : note = store[p].tree[position]
      OBVIOUS
    <3>3. note \in ToSet(store[p].tree)
      BY <3>1, <3>2 DEF ToSet
    <3>4. Pool(note)' = p
      BY <1>3, <3>3
    <3> DEFINE q == [note |-> note, pool |-> p]
    <3>5. q \in PayoutRecord /\ sent' = Append(sent, q) /\ q.note = note /\ q.pool = p
      BY <3>1, <3>2
    <3> HIDE DEF q
    <3>6. /\ DOMAIN sent' = DOMAIN sent \cup {Len(sent) + 1}
          /\ \A i \in DOMAIN sent : sent'[i] = sent[i]
          /\ sent'[Len(sent) + 1] = q
      BY <1>1, <3>5, PayoutAdded
    <3>7. \A i \in DOMAIN sent : \A n \in {sent'[i].note} : Pool(n)' = sent'[i].pool
      BY <1>5, <3>6
    <3>8. \A i \in {Len(sent) + 1} : \A n \in {sent'[i].note} : Pool(n)' = sent'[i].pool
      BY <3>4, <3>5, <3>6
    <3>. QED
      BY <3>6, <3>7, <3>8
  <2>. QED
    BY <2>1, <2>2, SentGrows
<1>. QED
  BY <1>4, <1>6 DEF InPools

(***************************************************************************)
(* A note held after a block is fed is new, or was held and is not spent   *)
(* by the block.                                                           *)
(***************************************************************************)
LEMMA FedHeld ==
  ASSUME Shape, NEW h, Fed(h), NEW p \in Pools, IsInjective(store'[p].tree),
         NEW n, n \in Held(store[p])', n \notin chain[h]
  PROVE  n \in Held(store[p]) /\ \A tx \in chain[h] : Pool(tx) = p => n \notin Spends(tx)
<1> DEFINE leaves == Leaves(p, chain[h])
           s == store[p]
           t == store'[p]
           m == Len(s.tree)
<1>1. /\ sent \in Seq(PayoutRecord) /\ s \in StoreRecord(Txs) /\ Sound(s)
      /\ s.tree \in Seq(Txs) /\ m \in Nat /\ DOMAIN s.tree = 1 .. m
  BY LenProperties DEF Shape, ChainShape, StoreShape, StoreRecord
<1>2. h \in 1 .. Tip /\ chain[h] \in SUBSET Txs
  BY HeightsAre DEF Fed
<1>3. leaves \in Seq(Txs) /\ ToSet(leaves) = {tx \in chain[h] : Pool(tx) = p}
  BY <1>1, <1>2, LeavesAre
<1>4. /\ t.tree = s.tree \o leaves
      /\ t.held \subseteq s.held \cup (m + 1 .. m + Len(leaves))
      /\ Takes(s, t, leaves)
  BY DEF Fed, Grows
<1>5. PICK j \in t.held : t.tree[j] = n
  BY DEF Held
<1> DEFINE a == s.tree
<1>6. /\ Len(leaves) \in Nat /\ DOMAIN leaves = 1 .. Len(leaves)
      /\ \A i \in 1 .. m + Len(leaves) : t.tree[i] = IF i <= m THEN a[i] ELSE leaves[i - m]
  <2>1. a \in Seq(Txs) /\ Len(a) = m /\ Len(leaves) \in Nat /\ DOMAIN leaves = 1 .. Len(leaves)
    BY <1>1, <1>3, LenProperties
  <2> HIDE DEF a, leaves, m
  <2>2. \A i \in 1 .. m + Len(leaves) : (a \o leaves)[i] = IF i <= m THEN a[i] ELSE leaves[i - m]
    BY <1>3, <2>1, ConcatAt
  <2>. QED
    BY <1>4, <2>1, <2>2 DEF a
<1>7. s.held \subseteq 1 .. m
  BY <1>1 DEF Sound
<1> HIDE DEF leaves, m, s, t, a
<1>8. j \in 1 .. m
  <2> SUFFICES ASSUME j \notin 1 .. m PROVE FALSE
    OBVIOUS
  <2>1. j \in m + 1 .. m + Len(leaves)
    BY <1>4, <1>5, <1>7
  <2> DEFINE l == Len(leaves)
             i == j - m
  <2>2. i \in 1 .. l /\ j \in 1 .. m + l /\ ~ (j <= m)
    BY <1>1, <1>6, <2>1
  <2>3. t.tree[j] = leaves[i]
    BY <1>6, <2>2
  <2>4. n \in ToSet(leaves)
    BY <1>5, <1>6, <2>2, <2>3 DEF ToSet
  <2>. QED
    BY <1>3, <2>4
<1>9. j \in DOMAIN s.tree /\ s.tree[j] = n
  <2>1. j \in 1 .. m + Len(leaves) /\ j <= m
    BY <1>1, <1>6, <1>8
  <2>. QED
    BY <1>1, <1>5, <1>6, <1>8, <2>1 DEF a
<1>10. n \in Held(s)
  <2>1. j \in s.held
    <3>1. j \notin m + 1 .. m + Len(leaves)
      BY <1>1, <1>6, <1>8
    <3>. QED
      BY <1>4, <1>5, <3>1
  <2>. QED
    BY <1>9, <2>1 DEF Held
<1>11. ASSUME NEW tx \in chain[h], Pool(tx) = p, n \in Spends(tx) PROVE FALSE
  <2>1. tx \in ToSet(leaves)
    BY <1>3, <1>11
  <2>2. PICK i \in DOMAIN leaves : tx = leaves[i]
    BY <2>1 DEF ToSet
  <2>. QED
    BY <1>4, <1>5, <1>9, <1>11, <2>2 DEF Takes
<1>. QED
  BY <1>10, <1>11 DEF s

(***************************************************************************)
(* A note that a payout spends is in the tree, and not held any more.      *)
(***************************************************************************)
LEMMA PromisedNext ==
  ASSUME Shape, KnownInv, ChainInv, TreesInv, InPools, Promised, MaxReorg <= TreeLag, [Next]_vars
  PROVE  Promised'
<1> SUFFICES ASSUME reseeds' = 0
             PROVE  \A i \in DOMAIN sent' : \A n \in {sent'[i].note} : \A p \in {sent'[i].pool} :
                      n \in ToSet(store'[p].tree) /\ n \notin Held(store[p])'
  BY DEF Promised, Held
<1>1. reseeding' = "none" /\ reseeds = 0 /\ reseeding = "none" /\ "none" \notin Pools
  BY StillKnownGrows DEF KnownInv, Pools
<1>2. Whole
  BY <1>1 DEF Whole
<1>3. /\ sent \in Seq(PayoutRecord) /\ \A i \in DOMAIN sent : sent[i].pool \in Pools
      /\ \A p \in Pools : store[p].tree \in Seq(Txs) /\ Sound(store[p])
      /\ \A h \in 1 .. Tip : chain[h] \in SUBSET Txs
      /\ Tip \in Nat /\ SyncedTo \in Nat
  <2>1. sent \in Seq(PayoutRecord) /\ \A p \in Pools : store[p].tree \in Seq(Txs) /\ Sound(store[p])
    BY DEF Shape, ChainShape, StoreShape, StoreRecord
  <2>2. \A i \in DOMAIN sent : sent[i] \in PayoutRecord
    BY <2>1, LenProperties, ElementOfSeq
  <2>. QED
    BY <2>1, <2>2, HeightsAre DEF PayoutRecord
<1>4. \A i \in DOMAIN sent : \A n \in {sent[i].note} : \A p \in {sent[i].pool} :
        p \in Pools /\ n \in ToSet(store[p].tree) /\ n \notin Held(store[p])
  BY <1>1, <1>3 DEF Promised
<1>5. ASSUME NEW p \in Pools, NEW n \in ToSet(store[p].tree), n \notin Held(store[p])
      PROVE  n \in ToSet(store'[p].tree) /\ n \notin Held(store[p])'
  <2>1. CASE TreesStay
    <3>1. store'[p].tree = store[p].tree /\ store'[p].held \subseteq store[p].held
      BY <2>1 DEF TreesStay
    <3>. QED
      BY <1>5, <3>1 DEF Held
  <2>2. ASSUME NEW fed, fed = pass.feed \/ fed = sync, NEW h \in fed, \A g \in fed : h <= g, Fed(h)
        PROVE  n \in ToSet(store'[p].tree) /\ n \notin Held(store[p])'
    <3>1. /\ h \in 1 .. Tip /\ store[p].tree = LeavesTo(p, h - 1)
          /\ store'[p].tree = LeavesTo(p, h)
      BY <1>2, <2>2, FedToBlock
    <3>2. h \in 0 .. Tip /\ h - 1 \in 0 .. Tip
      BY <1>3, <3>1
    <3>3. IsInjective(store'[p].tree)
      BY <3>1, <3>2, LeavesToApart DEF ChainInv
    <3>4. PICK g \in 1 .. h - 1 : n \in chain[g]
      BY <1>5, <3>1, <3>2, LeavesToApart DEF ChainInv
    <3>5. n \notin chain[h]
      <4>1. g \in 1 .. Tip /\ g # h
        BY <1>3, <3>1
      <4>2. chain[g] \cap chain[h] = {}
        BY <3>1, <4>1 DEF ChainInv, BlocksApart
      <4>. QED
        BY <3>4, <4>2
    <3>6. n \notin Held(store[p])'
      BY <1>5, <2>2, <3>3, <3>5, FedHeld
    <3> DEFINE tree == store[p].tree
               leaves == Leaves(p, chain[h])
    <3>7. store'[p].tree = tree \o leaves /\ tree \in Seq(Txs) /\ leaves \in Seq(Txs)
      BY <1>3, <2>2, <3>1, LeavesAre DEF Fed, Grows
    <3>8. n \in ToSet(tree)
      BY <1>5
    <3> HIDE DEF tree, leaves
    <3>9. n \in ToSet(store'[p].tree)
      BY <3>7, <3>8, EntriesConcat
    <3>. QED
      BY <3>6, <3>9
  <2>3. CASE PassFeeds /\ Fed(Lowest(pass.feed))
    BY <2>2, <2>3, PassFed
  <2>4. CASE SyncFeeds /\ Fed(Lowest(sync))
    BY <2>2, <2>4, SyncFed
  <2>5. ~ Reseeds
    <3>1. reseeds \in Nat
      BY DEF Shape, WorkShape
    <3>. QED
      BY <1>1, <3>1, Reseeded
  <2>. QED
    BY <2>1, <2>3, <2>4, <2>5, TreeCases
<1>6. \A i \in DOMAIN sent : \A n \in {sent[i].note} : \A p \in {sent[i].pool} :
        n \in ToSet(store'[p].tree) /\ n \notin Held(store[p])'
  BY <1>4, <1>5
<1>7. CASE UNCHANGED sent
  BY <1>6, <1>7
<1>8. ASSUME NEW q \in Pools, NEW position \in store[q].held, PayOut(q, position)
      PROVE  \A i \in DOMAIN sent' : \A n \in {sent'[i].note} : \A p \in {sent'[i].pool} :
               n \in ToSet(store'[p].tree) /\ n \notin Held(store[p])'
  <2>1. /\ position \in DOMAIN store[q].tree
        /\ [note |-> store[q].tree[position], pool |-> q] \in PayoutRecord
        /\ sent' = Append(sent, [note |-> store[q].tree[position], pool |-> q])
        /\ store'[q].tree = store[q].tree
        /\ store'[q].held = store[q].held \ {position}
    BY <1>8, NoteSpent
  <2>2. PICK note : note = store[q].tree[position]
    OBVIOUS
  <2>3. note \in ToSet(store'[q].tree)
    BY <2>1, <2>2 DEF ToSet
  <2>4. note \notin Held(store[q])'
    <3>1. IsInjective(store[q].tree)
      BY <1>2, TreeInjective DEF TreesInv
    <3>2. store[q].held \subseteq DOMAIN store[q].tree
      BY <1>3 DEF Sound
    <3>3. \A j \in store'[q].held : store'[q].tree[j] # note
      BY <2>1, <2>2, <3>1, <3>2 DEF IsInjective
    <3>. QED
      BY <3>3 DEF Held
  <2> DEFINE r == [note |-> note, pool |-> q]
  <2>5. r \in PayoutRecord /\ sent' = Append(sent, r) /\ r.note = note /\ r.pool = q
    BY <2>1, <2>2
  <2> HIDE DEF r
  <2>6. /\ DOMAIN sent' = DOMAIN sent \cup {Len(sent) + 1}
        /\ \A i \in DOMAIN sent : sent'[i] = sent[i]
        /\ sent'[Len(sent) + 1] = r
    BY <1>3, <2>5, PayoutAdded
  <2>7. \A i \in DOMAIN sent : \A n \in {sent'[i].note} : \A p \in {sent'[i].pool} :
          n \in ToSet(store'[p].tree) /\ n \notin Held(store[p])'
    BY <1>6, <2>6
  <2>8. \A i \in {Len(sent) + 1} : \A n \in {sent'[i].note} : \A p \in {sent'[i].pool} :
          n \in ToSet(store'[p].tree) /\ n \notin Held(store[p])'
    BY <2>3, <2>4, <2>5, <2>6
  <2>. QED
    BY <2>6, <2>7, <2>8
<1>. QED
  BY <1>7, <1>8, SentGrows

(***************************************************************************)
(* A note that a block in the tree spends is not held any more.            *)
(***************************************************************************)
LEMMA SpentInTreeNext ==
  ASSUME Shape, KnownInv, ChainInv, TreesInv, InPools, SpentInTree, MaxReorg <= TreeLag, [Next]_vars
  PROVE  SpentInTree'
<1> SUFFICES ASSUME Whole', NEW p \in Pools, NEW g \in 1 .. store'[p].synced_to, NEW tx \in chain'[g],
                    NEW n, n \in Spends(tx)', n \in Held(store[p])'
             PROVE  FALSE
  BY DEF SpentInTree
<1>1. /\ sent \in Seq(PayoutRecord)
      /\ \A h \in 1 .. Tip : chain[h] \in SUBSET Txs
      /\ Tip \in Nat /\ SyncedTo \in Nat /\ store[p].synced_to \in Nat /\ store[p].tree \in Seq(Txs)
      /\ Sound(store[p])
  BY HeightsAre DEF Shape, ChainShape, StoreShape, StoreRecord
<1>2. /\ store[p].synced_to <= Tip /\ store[p].synced_to <= Tip' /\ Tip' \in Nat
      /\ \A h \in 1 .. Tip : h <= Tip' => chain'[h] = chain[h]
  BY SyncedBelow DEF TreesInv
<1>3. \A x \in Txs : Spends(x)' = Spends(x)
  BY TxsStay
<1>4. ASSUME Whole, g \in 1 .. store[p].synced_to, n \in Held(store[p])
      PROVE  FALSE
  <2>1. g \in 1 .. Tip /\ chain'[g] = chain[g]
    BY <1>1, <1>2, <1>4
  <2>2. tx \in chain[g] /\ tx \in Txs
    BY <1>1, <2>1
  <2>3. n \in Spends(tx)
    BY <1>3, <2>2
  <2>. QED
    BY <1>4, <2>2, <2>3 DEF SpentInTree
<1>5. CASE TreesStay /\ UNCHANGED reseeding
  <2>1. /\ store'[p].tree = store[p].tree /\ store'[p].held \subseteq store[p].held
        /\ store'[p].synced_to = store[p].synced_to
    BY <1>5 DEF TreesStay
  <2>2. Whole
    BY <1>5 DEF TreesStay, Whole
  <2>. QED
    BY <1>4, <2>1, <2>2 DEF Held
<1>6. ASSUME NEW fed, fed = pass.feed \/ fed = sync, NEW h \in fed, \A x \in fed : h <= x, Fed(h),
             UNCHANGED <<chain, reseeding, reseeds, exclusive>>
      PROVE  FALSE
  <2>1. Whole
    BY <1>6 DEF Whole
  <2>2. /\ h \in 1 .. Tip /\ store[p].synced_to = h - 1 /\ store'[p].synced_to = h
        /\ store'[p].tree = LeavesTo(p, h)
    BY <1>6, <2>1, FedToBlock
  <2>3. h \in 0 .. Tip /\ g \in 1 .. h /\ g \in 1 .. Tip
    BY <1>1, <2>2
  <2>4. IsInjective(store'[p].tree)
    BY <2>2, <2>3, LeavesToApart DEF ChainInv
  <2>5. tx \in chain[g] /\ tx \in Txs
    BY <1>1, <1>6, <2>3
  <2>6. n \in Spends(tx)
    BY <1>3, <2>5
  <2>7. PICK k \in 1 .. g - 1 : n \in chain[k]
    BY <2>3, <2>5, <2>6 DEF ChainInv, SpentLater
  <2>8. n \notin chain[h]
    <3>1. k \in 1 .. Tip /\ k # h
      BY <1>1, <2>2, <2>3
    <3>2. chain[k] \cap chain[h] = {}
      BY <2>2, <3>1 DEF ChainInv, BlocksApart
    <3>. QED
      BY <2>7, <3>2
  <2>9. n \in Held(store[p]) /\ \A x \in chain[h] : Pool(x) = p => n \notin Spends(x)
    BY <1>6, <2>4, <2>8, FedHeld
  <2>10. CASE g = h
    <3>1. Pool(n) = p
      <4>1. n \in ToSet(store[p].tree)
        BY <1>1, <2>9 DEF Held, Sound, ToSet
      <4>. QED
        BY <4>1 DEF InPools
    <3>2. tx \notin Deposits /\ tx \in Payouts /\ n = PayoutOf(tx).note /\ Pool(tx) = PayoutOf(tx).pool
      <4>1. tx \notin Deposits
        BY <2>6 DEF Spends
      <4>. QED
        BY <1>1, <2>5, <2>6, <4>1, TxParts
    <3> DEFINE i == tx - FirstPayout + 1
    <3>3. i \in DOMAIN sent /\ PayoutOf(tx) = sent[i]
      BY <1>1, <3>2, TxsAre DEF PayoutOf
    <3> HIDE DEF i
    <3>4. Pool(n) = sent[i].pool
      BY <3>2, <3>3 DEF InPools
    <3>5. Pool(tx) = p
      BY <3>1, <3>2, <3>3, <3>4
    <3>. QED
      BY <2>5, <2>6, <2>9, <2>10, <3>5
  <2>11. CASE g # h
    <3>1. g \in 1 .. store[p].synced_to
      BY <1>1, <2>2, <2>3, <2>11
    <3>. QED
      BY <1>4, <2>1, <2>9, <3>1
  <2>. QED
    BY <2>10, <2>11
<1>7. CASE Reseeds
  <2> DEFINE new == FromFrontier(<< >>, SeedHeight)
  <2>1. new.held = {}
    BY NewStore
  <2>2. store'[p] = new \/ (store'[p] = store[p] /\ Whole)
    BY <1>7, ReseedsTwo DEF TreesInv
  <2> HIDE DEF new
  <2>3. store'[p] # new
    BY <2>1 DEF Held
  <2>4. store'[p] = store[p] /\ Whole
    BY <2>2, <2>3
  <2>. QED
    BY <1>4, <2>4 DEF Held
<1>8. CASE PassFeeds /\ Fed(Lowest(pass.feed))
  BY <1>6, <1>8, PassFed DEF chainVars
<1>9. CASE SyncFeeds /\ Fed(Lowest(sync))
  BY <1>6, <1>9, SyncFed DEF chainVars
<1>. QED
  BY <1>5, <1>7, <1>8, <1>9, TreeCases

(***************************************************************************)
(* A payout is never offered a note that another payout spends, or that    *)
(* the chain shows spent up to where the store is: spend moves the note    *)
(* out of held, feed_block takes what its block spends, rewind brings      *)
(* nothing back, and no note is a leaf twice.                              *)
(***************************************************************************)
THEOREM HeldNotesAreUnspent == MaxReorg <= TreeLag => (Spec => []HeldIsUnspent)
<1> SUFFICES ASSUME MaxReorg <= TreeLag PROVE Spec => []HeldIsUnspent
  OBVIOUS
<1> DEFINE Trees == Shape /\ KnownInv /\ ChainInv /\ TreesInv
           Unspent == InPools /\ Promised /\ SpentInTree
<1>1. Init => Unspent
  <2> SUFFICES ASSUME Init PROVE Unspent
    OBVIOUS
  <2> DEFINE new == FromFrontier(<< >>, SeedHeight)
  <2>1. DOMAIN sent = {} /\ \A p \in Pools : store[p] = new
    BY DEF Init
  <2>2. new.tree = << >> /\ new.synced_to = 0
    BY NewStore
  <2> HIDE DEF new
  <2>3. \A p \in Pools : store[p].tree = << >> /\ store[p].synced_to = 0
    BY <2>1, <2>2
  <2>4. InPools
    BY <2>1, <2>3, EntriesOfNone DEF InPools
  <2>5. Promised /\ SpentInTree
    BY <2>1, <2>3 DEF Promised, SpentInTree
  <2>. QED
    BY <2>4, <2>5
<1>2. Trees /\ Unspent /\ [Next]_vars => Unspent'
  BY InPoolsNext, PromisedNext, SpentInTreeNext
<1>3. Trees /\ Unspent => HeldIsUnspent
  <2> SUFFICES ASSUME Trees, Unspent, NEW p \in Pools, NEW n \in Held(store[p])
               PROVE  /\ Whole => n \notin SpentBy(UNION {chain[h] : h \in 1 .. Least(store[p].synced_to, Tip)})
                      /\ reseeds = 0 => n \notin {sent[i].note : i \in DOMAIN sent}
    BY DEF HeldIsUnspent
  <2>1. Tip \in Nat /\ store[p].synced_to \in Nat
    BY HeightsAre
  <2>2. \A h \in 1 .. Least(store[p].synced_to, Tip) : h \in 1 .. store[p].synced_to
    BY <2>1 DEF Least
  <2>3. Whole => n \notin SpentBy(UNION {chain[h] : h \in 1 .. Least(store[p].synced_to, Tip)})
    BY <2>2 DEF SpentInTree, SpentBy
  <2>4. ASSUME reseeds = 0, NEW i \in DOMAIN sent, n = sent[i].note
        PROVE  FALSE
    <3>1. Pool(n) = sent[i].pool
      BY <2>4 DEF InPools
    <3>2. n \in ToSet(store[p].tree)
      <4>1. Sound(store[p])
        BY DEF Shape, StoreShape
      <4>. QED
        BY <4>1 DEF Held, Sound, ToSet
    <3>3. Pool(n) = p
      BY <3>2 DEF InPools
    <3>. QED
      BY <2>4, <3>1, <3>3 DEF Promised
  <2>. QED
    BY <2>3, <2>4
<1>4. Spec => []Trees
  BY TreesHold
<1> HIDE DEF Trees, Unspent
<1>. QED
  BY <1>1, <1>2, <1>3, <1>4, PTL DEF Spec

(***************************************************************************)
(* The trees have a block twice only if a reseed tore them: it ran within  *)
(* another thread's pass, or stopped between the two pools.                *)
(***************************************************************************)
THEOREM OnlyReseedsRepeatBlocks == MaxReorg <= TreeLag => (Spec => [](Whole => NoBlockTwice))
<1> SUFFICES ASSUME MaxReorg <= TreeLag PROVE Spec => [](Whole => NoBlockTwice)
  OBVIOUS
<1>1. Shape /\ ChainInv /\ TreesInv => (Whole => NoBlockTwice)
  <2> SUFFICES ASSUME Shape, ChainInv, TreesInv, Whole PROVE NoBlockTwice
    OBVIOUS
  <2>1. \A p \in Pools : IsInjective(store[p].tree)
    BY TreeInjective DEF TreesInv
  <2>. QED
    BY <2>1 DEF NoBlockTwice, IsInjective
<1>. QED
  BY <1>1, TreesHold, PTL

-----------------------------------------------------------------------------
(***************************************************************************)
(* What a pass finds in a block is what the chain credits there: one that  *)
(* feed_block does not refuse has nothing that only its address names.     *)
(***************************************************************************)
LEMMA ObservedAre ==
  ASSUME NEW h
  PROVE  /\ {tx \in chain[h] : Credits(tx, TRUE)} = CreditsAt(h)
         /\ Observed(h, TRUE) = {[txid |-> tx, height |-> h] : tx \in CreditsAt(h)}
         /\ h <= Tip /\ ~ FeedRefuses(h) => Observed(h, FALSE) = Observed(h, TRUE)
<1>1. {tx \in chain[h] : Credits(tx, TRUE)} = CreditsAt(h)
  BY DEF Credits, CreditsAt, Creditable
<1>2. ASSUME h <= Tip, ~ FeedRefuses(h), NEW tx \in chain[h]
      PROVE  Credits(tx, FALSE) <=> Credits(tx, TRUE)
  <2>1. ~ (tx \in Deposits /\ Names[tx] = "address")
    BY <1>2 DEF FeedRefuses, Unattributable
  <2>. QED
    BY <2>1 DEF Credits
<1>3. h <= Tip /\ ~ FeedRefuses(h) =>
        {tx \in chain[h] : Credits(tx, FALSE)} = {tx \in chain[h] : Credits(tx, TRUE)}
  BY <1>2
<1>. QED
  BY <1>1, <1>3 DEF Observed

\* What a pass found at a height grows by what the block there credits.
LEMMA FoundGrows ==
  ASSUME Shape, NEW h, pass'.found = pass.found \cup Observed(h, TRUE)
  PROVE  \A g : FoundAt(g)' = IF g = h THEN FoundAt(g) \cup CreditsAt(g) ELSE FoundAt(g)
<1>1. CreditsAt(h) \subseteq Deposits
  BY DEF CreditsAt, Creditable
<1>2. ASSUME NEW g, NEW d \in Deposits
      PROVE  [txid |-> d, height |-> g] \in Observed(h, TRUE) <=> g = h /\ d \in CreditsAt(h)
  <2>1. Observed(h, TRUE) = {[txid |-> tx, height |-> h] : tx \in CreditsAt(h)}
    BY ObservedAre
  <2>2. \A tx : [txid |-> d, height |-> g] = [txid |-> tx, height |-> h] <=> d = tx /\ g = h
    OBVIOUS
  <2>. QED
    BY <2>1, <2>2
<1>3. ASSUME NEW g
      PROVE  FoundAt(g)' = IF g = h THEN FoundAt(g) \cup CreditsAt(g) ELSE FoundAt(g)
  <2>1. FoundAt(g)' = {d \in Deposits : [txid |-> d, height |-> g] \in pass'.found}
    BY DEF FoundAt
  <2>2. \A d \in Deposits : [txid |-> d, height |-> g] \in pass'.found <=>
                              d \in FoundAt(g) \/ (g = h /\ d \in CreditsAt(h))
    BY <1>2 DEF FoundAt
  <2>3. FoundAt(g) \subseteq Deposits
    BY DEF FoundAt
  <2>. QED
    BY <1>1, <2>1, <2>2, <2>3
<1>. QED
  BY <1>3

(***************************************************************************)
(* Nothing changes whether passes and syncs exclude each other.            *)
(***************************************************************************)
LEMMA ExclusiveStays ==
  ASSUME Shape, [Next]_vars
  PROVE  exclusive' = exclusive
<1>1. CASE Chain
  BY <1>1, ChainStep
<1>2. CASE PassFails \/ SyncFails
  BY <1>2, FeedsFailed
<1>. QED
  BY <1>1, <1>2, StepCases
  DEF StartPass, PassFeeds, PassScans, EndPass, StartSync, SyncFeeds, PayOut, Reseed, ReseedOther,
      ReseedFails, vars

\* The heights a pass may credit are out of reach of reorganisations.
LEMMA SafeStays ==
  ASSUME Shape, highest - MaxReorg <= Tip, MaxReorg <= Confirmations - 1, [Next]_vars,
         pass.end <= highest
  PROVE  /\ SafeEnd \in Int
         /\ \A h \in 1 .. SafeEnd : h \in 1 .. Tip /\ CreditsAt(h)' = CreditsAt(h)
<1>1. pass.end \in Nat /\ Confirmations \in Nat /\ MaxReorg \in Nat
  BY DepthAssumption, ScannerBoundsAssumption DEF Shape, WorkShape, PassRecord, Heights
<1>2. /\ highest \in Nat /\ Tip \in Nat /\ Tip' \in Nat /\ highest - MaxReorg <= Tip'
      /\ \A h \in 1 .. Tip : h <= Tip' => chain'[h] = chain[h]
  BY ChainAgrees
<1>3. SafeEnd \in Int /\ SafeEnd <= Tip /\ SafeEnd <= Tip'
  BY <1>1, <1>2 DEF SafeEnd
<1>4. ASSUME NEW h \in 1 .. SafeEnd
      PROVE  h \in 1 .. Tip /\ CreditsAt(h)' = CreditsAt(h)
  <2>1. h \in 1 .. Tip /\ h <= Tip'
    BY <1>2, <1>3
  <2>2. chain'[h] = chain[h]
    BY <1>2, <2>1
  <2>. QED
    BY <2>1, <2>2 DEF CreditsAt, Creditable
<1>. QED
  BY <1>3, <1>4

\* Every step keeps what a pass found equal to what the chain credits.
LEMMA FoundNext ==
  ASSUME Shape, highest - MaxReorg <= Tip, MaxReorg <= Confirmations - 1, FoundInv, [Next]_vars
  PROVE  FoundInv'
<1> SUFFICES ASSUME exclusive, pass' # NoPass
             PROVE  /\ sync' = {} /\ reseeding' \notin Pools
                    /\ pass'.end <= highest'
                    /\ \A h \in pass'.feed : h > SyncedTo'
                    /\ \A h \in 1 .. SafeEnd' :
                         /\ FoundAt(h)' \subseteq CreditsAt(h)'
                         /\ h > scanned_to' /\ h \notin pass'.feed \cup pass'.scan =>
                              CreditsAt(h)' \subseteq FoundAt(h)'
  BY ExclusiveStays DEF FoundInv, NoPass
<1>1. pass # NoPass =>
        /\ sync = {} /\ reseeding \notin Pools
        /\ pass.end <= highest
        /\ \A h \in pass.feed : h > SyncedTo
        /\ \A h \in 1 .. SafeEnd :
             /\ FoundAt(h) \subseteq CreditsAt(h)
             /\ h > scanned_to /\ h \notin pass.feed \cup pass.scan => CreditsAt(h) \subseteq FoundAt(h)
  BY DEF FoundInv
<1>2. /\ pass \in PassRecord /\ pass.feed \in SUBSET Heights /\ Heights \subseteq Nat
      /\ SyncedTo \in Nat /\ scanned_to \in Nat
  BY HeightsAre DEF Shape, WorkShape, WatcherShape, PassRecord
<1>3. /\ highest \in Nat /\ highest' \in Nat /\ highest <= highest' /\ Tip \in Nat
      /\ pass.end \in Nat
  BY ChainAgrees, HeightsAre DEF Shape, WorkShape, PassRecord
<1>4. ASSUME UNCHANGED <<pass, sync, reseeding, scanned_to>>, SyncedTo' = SyncedTo
      PROVE  /\ sync' = {} /\ reseeding' \notin Pools
             /\ pass'.end <= highest'
             /\ \A h \in pass'.feed : h > SyncedTo'
             /\ \A h \in 1 .. SafeEnd' :
                  /\ FoundAt(h)' \subseteq CreditsAt(h)'
                  /\ h > scanned_to' /\ h \notin pass'.feed \cup pass'.scan =>
                       CreditsAt(h)' \subseteq FoundAt(h)'
  <2>1. pass # NoPass
    BY <1>4
  <2>2. \A h \in 1 .. SafeEnd : CreditsAt(h)' = CreditsAt(h)
    BY <1>1, <2>1, SafeStays
  <2>3. SafeEnd' = SafeEnd /\ \A h : FoundAt(h)' = FoundAt(h)
    BY <1>4 DEF SafeEnd, FoundAt
  <2>4. pass'.end <= highest'
    BY <1>1, <1>3, <1>4, <2>1
  <2>. QED
    BY <1>1, <1>4, <2>1, <2>2, <2>3, <2>4
<1>5. CASE Chain
  BY <1>4, <1>5, ChainStep, SyncedToMoves DEF watcherVars
<1>6. CASE StartPass
  <2>1. /\ sync' = {} /\ reseeding' \notin Pools
        /\ UNCHANGED <<store, highest, scanned_to>>
        /\ \A h \in pass'.feed : h > SyncedTo
        /\ pass' \in PassRecord
        /\ pass'.end <= Tip /\ pass'.found = {}
        /\ \A h \in scanned_to + 1 .. pass'.end : h \in pass'.feed \cup pass'.scan
    BY <1>6, PassStarted DEF chainVars, watcherVars
  <2>2. SyncedTo' = SyncedTo
    BY <2>1, SyncedToMoves
  <2>3. pass'.end <= highest' /\ pass'.end \in Nat
    <3> DEFINE e == pass'.end
    <3>1. Tip <= highest /\ e \in Heights /\ e <= Tip /\ highest' = highest
      BY <2>1, HeightsAre DEF PassRecord
    <3> HIDE DEF e
    <3>2. e \in Nat /\ e <= highest
      BY <1>2, <1>3, <3>1
    <3>. QED
      BY <3>1, <3>2 DEF e
  <2>4. \A h : FoundAt(h)' = {}
    BY <2>1 DEF FoundAt
  <2>5. ASSUME NEW h \in 1 .. SafeEnd', h > scanned_to
        PROVE  h \in pass'.feed \cup pass'.scan
    <3>1. SafeEnd' = pass'.end - (Confirmations - 1) /\ Confirmations \in Nat /\ Confirmations >= 1
      BY DepthAssumption DEF SafeEnd
    <3> DEFINE e == pass'.end
    <3>2. e \in Nat /\ SafeEnd' = e - (Confirmations - 1)
      BY <2>3, <3>1
    <3>3. h \in 1 .. (e - (Confirmations - 1))
      BY <2>5, <3>2
    <3> HIDE DEF e
    <3>4. h \in scanned_to + 1 .. e
      BY <1>2, <2>5, <3>1, <3>2, <3>3
    <3>. QED
      BY <2>1, <3>4 DEF e
  <2>. QED
    BY <2>1, <2>2, <2>3, <2>4, <2>5
<1>7. CASE PassFeeds
  <2> DEFINE h == Lowest(pass.feed)
  <2>1. /\ h \in pass.feed /\ \A g \in pass.feed : h <= g
        /\ UNCHANGED <<chain, highest, sync, reseeding, scanned_to>>
        /\ pass' = [pass EXCEPT !.feed = @ \ {h}, !.found = @ \cup FeedFound(h)]
        /\ pass.feed # {} /\ h \in Nat
        /\ (AlreadyIn(h) /\ UNCHANGED store) \/ Fed(h)
    BY <1>2, <1>7, PassFed DEF chainVars, watcherVars
  <2> HIDE DEF h
  <2>2. pass # NoPass
    BY <2>1 DEF NoPass
  <2>3. h > SyncedTo /\ ~ AlreadyIn(h) /\ Fed(h)
    BY <1>1, <1>2, <2>1, <2>2 DEF AlreadyIn
  <2>4. SyncedTo' = h
    BY <2>3, SyncedToMoves
  <2>5. FeedFound(h) = Observed(h, TRUE)
    <3>1. h <= Tip /\ ~ FeedRefuses(h)
      BY <1>2, <1>3, <2>3 DEF Fed
    <3>2. FeedFound(h) = Observed(h, FALSE)
      BY <2>3 DEF FeedFound
    <3>. QED
      BY <3>1, <3>2, ObservedAre
  <2>6. /\ pass'.feed = pass.feed \ {h} /\ pass'.scan = pass.scan /\ pass'.end = pass.end
        /\ pass'.found = pass.found \cup Observed(h, TRUE)
    BY <1>2, <2>1, <2>5 DEF PassRecord
  <2>7. \A g : FoundAt(g)' = IF g = h THEN FoundAt(g) \cup CreditsAt(g) ELSE FoundAt(g)
    BY <2>6, FoundGrows
  <2>8. SafeEnd' = SafeEnd /\ \A g : CreditsAt(g)' = CreditsAt(g)
    BY <2>1, <2>6 DEF SafeEnd, CreditsAt, Creditable
  <2>9. \A g \in pass'.feed : g > SyncedTo'
    <3>1. \A g \in pass.feed \ {h} : g \in Nat /\ h <= g /\ g # h
      BY <1>2, <2>1
    <3>2. \A g \in pass.feed \ {h} : g > h
      BY <2>1, <3>1
    <3>. QED
      BY <2>4, <2>6, <3>2
  <2>10. ASSUME NEW g \in 1 .. SafeEnd
         PROVE  /\ FoundAt(g)' \subseteq CreditsAt(g)
                /\ g > scanned_to /\ g \notin pass'.feed \cup pass'.scan => CreditsAt(g) \subseteq FoundAt(g)'
    <3>1. CASE g = h
      BY <1>1, <2>2, <2>7, <3>1
    <3>2. CASE g # h
      BY <1>1, <2>2, <2>6, <2>7, <3>2
    <3>. QED
      BY <3>1, <3>2
  <2>. QED
    BY <1>1, <2>1, <2>2, <2>6, <2>8, <2>9, <2>10
<1>8. CASE PassScans
  <2> DEFINE h == Lowest(pass.scan)
  <2>1. /\ h \in pass.scan
        /\ UNCHANGED <<chain, highest, store, sync, reseeding, scanned_to>>
        /\ pass' = [pass EXCEPT !.scan = @ \ {h}, !.found = @ \cup Observed(h, TRUE)]
    BY <1>8, PassScanned DEF chainVars, watcherVars
  <2> HIDE DEF h
  <2>2. pass # NoPass
    BY <2>1 DEF NoPass
  <2>3. SyncedTo' = SyncedTo
    BY <2>1, SyncedToMoves
  <2>4. /\ pass'.feed = pass.feed /\ pass'.scan = pass.scan \ {h} /\ pass'.end = pass.end
        /\ pass'.found = pass.found \cup Observed(h, TRUE)
    BY <1>2, <2>1 DEF PassRecord
  <2>5. \A g : FoundAt(g)' = IF g = h THEN FoundAt(g) \cup CreditsAt(g) ELSE FoundAt(g)
    BY <2>4, FoundGrows
  <2>6. SafeEnd' = SafeEnd /\ \A g : CreditsAt(g)' = CreditsAt(g)
    BY <2>1, <2>4 DEF SafeEnd, CreditsAt, Creditable
  <2>7. ASSUME NEW g \in 1 .. SafeEnd
        PROVE  /\ FoundAt(g)' \subseteq CreditsAt(g)
               /\ g > scanned_to /\ g \notin pass'.feed \cup pass'.scan => CreditsAt(g) \subseteq FoundAt(g)'
    <3>1. CASE g = h
      BY <1>1, <2>2, <2>5, <3>1
    <3>2. CASE g # h
      BY <1>1, <2>2, <2>4, <2>5, <3>2
    <3>. QED
      BY <3>1, <3>2
  <2>. QED
    BY <1>1, <2>1, <2>2, <2>3, <2>4, <2>6, <2>7
<1>9. CASE EndPass \/ PassFails
  BY <1>9, PassEnded, FeedsFailed
<1>10. CASE SyncFails
  <2>1. sync # {} /\ pass' = pass
    BY <1>10, FeedsFailed DEF SyncFails
  <2>. QED
    BY <1>1, <2>1
<1>11. CASE SyncFeeds
  BY <1>1, <1>11, SyncFed
<1>12. CASE StartSync
  BY <1>12 DEF StartSync
<1>13. ASSUME NEW p \in Pools, NEW position \in store[p].held, PayOut(p, position)
       PROVE  UNCHANGED <<pass, sync, reseeding, scanned_to>> /\ SyncedTo' = SyncedTo
  <2>1. \A q \in Pools : store'[q].synced_to = store[q].synced_to
    BY <1>13, NoteSpent
  <2>. QED
    BY <1>13, <2>1, SyncedToMoves DEF PayOut, watcherVars
<1>14. CASE Reseeds
  <2>1. pass' = pass /\ (reseeding \in Pools \/ (exclusive => pass = NoPass))
    BY <1>14, Reseeded
  <2>. QED
    BY <1>1, <2>1
<1>15. CASE UNCHANGED vars
  <2>1. UNCHANGED <<store, pass, sync, reseeding, scanned_to>>
    BY <1>15 DEF vars, watcherVars
  <2>. QED
    BY <1>4, <2>1, SyncedToMoves
<1>. QED
  BY <1>4, <1>5, <1>6, <1>7, <1>8, <1>9, <1>10, <1>11, <1>12, <1>13, <1>14, <1>15, StepCases DEF Reseeds

-----------------------------------------------------------------------------
(***************************************************************************)
(* The final blocks.                                                       *)
(***************************************************************************)
LEMMA FinalStays ==
  ASSUME Shape, highest - MaxReorg <= Tip, [Next]_vars
  PROVE  /\ FinalHeight \in Nat /\ FinalHeight' \in Nat /\ FinalHeight <= FinalHeight'
         /\ exclusive => FinalHeight >= highest - MaxReorg
         /\ ~ exclusive => FinalHeight = 0 /\ FinalHeight' = 0
         /\ \A h \in 1 .. FinalHeight : h \in 1 .. Tip /\ CreditsAt(h)' = CreditsAt(h)
<1>1. MaxReorg \in Nat /\ exclusive \in BOOLEAN /\ exclusive' = exclusive
  BY ExclusiveStays, ScannerBoundsAssumption DEF Shape, WorkShape
<1>2. /\ highest \in Nat /\ highest' \in Nat /\ highest <= highest'
      /\ Tip \in Nat /\ Tip' \in Nat /\ highest - MaxReorg <= Tip'
      /\ \A h \in 1 .. Tip : h <= Tip' => chain'[h] = chain[h]
  BY ChainAgrees
<1>3. FinalHeight' = IF exclusive' /\ highest' > MaxReorg THEN highest' - MaxReorg ELSE 0
  BY DEF FinalHeight
<1>4. /\ FinalHeight \in Nat /\ FinalHeight' \in Nat /\ FinalHeight <= FinalHeight'
      /\ exclusive => FinalHeight >= highest - MaxReorg
      /\ ~ exclusive => FinalHeight = 0 /\ FinalHeight' = 0
      /\ FinalHeight <= Tip /\ FinalHeight <= Tip'
  <2> DEFINE old == FinalHeight
             new == FinalHeight'
             high == highest'
             tip == Tip'
  <2>1. high \in Nat /\ highest <= high /\ tip \in Nat /\ highest - MaxReorg <= tip
    BY <1>2
  <2>2. CASE exclusive
    <3>1. /\ new = IF high > MaxReorg THEN high - MaxReorg ELSE 0
          /\ old = IF highest > MaxReorg THEN highest - MaxReorg ELSE 0
      BY <1>1, <1>3, <2>2 DEF FinalHeight
    <3> HIDE DEF old, new, high, tip
    <3>2. /\ old \in Nat /\ new \in Nat /\ old <= new /\ old >= highest - MaxReorg
          /\ old <= Tip /\ old <= tip
      BY <1>1, <1>2, <2>1, <3>1
    <3>. QED
      BY <2>2, <3>2 DEF old, new, tip
  <2>3. CASE ~ exclusive
    <3>1. old = 0 /\ new = 0
      BY <1>1, <1>3, <2>3 DEF FinalHeight
    <3>. QED
      BY <1>2, <2>3, <3>1
  <2>. QED
    BY <1>1, <2>2, <2>3
<1>5. ASSUME NEW h \in 1 .. FinalHeight
      PROVE  h \in 1 .. Tip /\ CreditsAt(h)' = CreditsAt(h)
  <2>1. h \in 1 .. Tip /\ h <= Tip'
    BY <1>2, <1>4
  <2>2. chain'[h] = chain[h]
    BY <1>2, <2>1
  <2>. QED
    BY <2>1, <2>2 DEF CreditsAt, Creditable
<1>. QED
  BY <1>4, <1>5

\* What a block credits, in order.
LEMMA DepositsList ==
  ASSUME NEW S \in SUBSET Deposits
  PROVE  Ascending(S) \in Seq(Deposits)
<1>1. S \subseteq Nat /\ IsFiniteSet(S)
  BY DepositsAssumption, FS_Subset
<1>2. Ascending(S) \in Seq(S)
  BY <1>1, AscendingLists
<1>. QED
  BY <1>2, SeqMonotonic

\* So is what a block credits.
LEMMA CreditsList ==
  ASSUME NEW h
  PROVE  /\ CreditsAt(h) \in SUBSET Deposits
         /\ Ascending(CreditsAt(h)) \in Seq(Deposits)
<1>1. CreditsAt(h) \in SUBSET Deposits
  BY DEF CreditsAt, Creditable
<1>. QED
  BY <1>1, DepositsList

\* What the blocks of a range credit is what they do to the middle, and beyond.
LEMMA LedgerSplits ==
  ASSUME NEW m \in Nat, NEW n \in Nat
  PROVE  /\ LedgerTo(m) \in Seq(Deposits)
         /\ FlattenSeq([i \in 1 .. n |-> Ascending(CreditsAt(m + i))]) \in Seq(Deposits)
         /\ LedgerTo(m + n) = LedgerTo(m) \o FlattenSeq([i \in 1 .. n |-> Ascending(CreditsAt(m + i))])
<1> DEFINE f == [h \in 1 .. m + n |-> Ascending(CreditsAt(h))]
           a == [h \in 1 .. m |-> Ascending(CreditsAt(h))]
           b == [i \in 1 .. n |-> Ascending(CreditsAt(m + i))]
<1>1. f \in [1 .. m + n -> Seq(Deposits)] /\ a \in [1 .. m -> Seq(Deposits)]
       /\ b \in [1 .. n -> Seq(Deposits)]
  BY CreditsList
<1>2. a = [i \in 1 .. m |-> f[i]]
  <2>1. \A i \in 1 .. m : i \in 1 .. m + n
    OBVIOUS
  <2>. QED
    BY <2>1
<1>3. b = [i \in 1 .. n |-> f[m + i]]
  <2>1. \A i \in 1 .. n : m + i \in 1 .. m + n
    OBVIOUS
  <2>. QED
    BY <2>1
<1>4. LedgerTo(m + n) = FlattenSeq(f) /\ LedgerTo(m) = FlattenSeq(a)
  BY DEF LedgerTo
<1> HIDE DEF f, a, b
<1>5. FlattenSeq(f) = FlattenSeq(a) \o FlattenSeq(b)
  <2> DEFINE D == Deposits
  <2>1. f \in [1 .. m + n -> Seq(D)]
    BY <1>1
  <2> HIDE DEF D
  <2>2. \A g \in [1 .. m + n -> Seq(D)] :
          FlattenSeq(g) = FlattenSeq([i \in 1 .. m |-> g[i]]) \o FlattenSeq([i \in 1 .. n |-> g[m + i]])
    BY PartsSplit, Zenon
  <2>. QED
    BY <1>2, <1>3, <2>1, <2>2, Zenon
<1>6. a \in Seq(Seq(Deposits)) /\ b \in Seq(Seq(Deposits))
  BY <1>1, FunctionIsSequence
<1>7. FlattenSeq(a) \in Seq(Deposits) /\ FlattenSeq(b) \in Seq(Deposits)
  BY <1>6, FlattenType
<1>. QED
  BY <1>4, <1>5, <1>7 DEF b

\* What blocks credit that stay is credited in the same order.
LEMMA LedgerToStays ==
  ASSUME NEW k \in Nat, \A h \in 1 .. k : CreditsAt(h)' = CreditsAt(h)
  PROVE  LedgerTo(k)' = LedgerTo(k)
<1>1. ASSUME NEW h \in 1 .. k
      PROVE  Ascending(CreditsAt(h))' = Ascending(CreditsAt(h))
  <2>1. CreditsAt(h)' = CreditsAt(h)
    OBVIOUS
  <2>. QED
    BY <2>1, Zenon
<1>2. [h \in 1 .. k |-> Ascending(CreditsAt(h))'] = [h \in 1 .. k |-> Ascending(CreditsAt(h))]
  BY <1>1
<1>. QED
  BY <1>2, Zenon DEF LedgerTo

(***************************************************************************)
(* The end of a pass credits what the chain does up to where it is safe.   *)
(***************************************************************************)
LEMMA PassCredits ==
  ASSUME Shape, BlocksApart, highest - MaxReorg <= Tip, MaxReorg <= Confirmations - 1,
         FoundInv, LedgerInv, exclusive, EndPass, SafeEnd > scanned_to
  PROVE  /\ SafeEnd \in Nat /\ SafeEnd <= FinalHeight
         /\ scanned_to' = SafeEnd /\ ledger' = LedgerTo(SafeEnd)
         /\ credited' = UNION {CreditsAt(h) : h \in 1 .. SafeEnd}
<1>1. /\ pass # NoPass /\ pass.feed = {} /\ pass.scan = {} /\ SafeEnd \in Heights
      /\ scanned_to' = SafeEnd /\ credited' = credited \cup {d.txid : d \in Fresh}
      /\ ledger' = ledger \o InOrder(Fresh, scanned_to, SafeEnd)
      /\ Fresh \in SUBSET Find
  BY PassEnded
<1>2. /\ pass.end <= highest
      /\ \A h \in 1 .. SafeEnd :
           /\ FoundAt(h) \subseteq CreditsAt(h)
           /\ h > scanned_to /\ h \notin pass.feed \cup pass.scan => CreditsAt(h) \subseteq FoundAt(h)
  BY <1>1 DEF FoundInv
<1>3. /\ ledger = LedgerTo(scanned_to)
      /\ credited = UNION {CreditsAt(h) : h \in 1 .. scanned_to}
  BY DEF LedgerInv
<1>4. /\ highest \in Nat /\ Tip \in Nat /\ pass.end \in Nat /\ scanned_to \in Nat /\ SafeEnd \in Nat
      /\ Confirmations \in Nat /\ MaxReorg \in Nat
  <2>1. highest \in Heights /\ pass.end \in Heights /\ scanned_to \in Heights
    BY DEF Shape, ChainShape, WorkShape, WatcherShape, PassRecord
  <2>. QED
    BY <1>1, <2>1, HeightsAre, DepthAssumption, ScannerBoundsAssumption
<1>5. SafeEnd <= highest - MaxReorg /\ SafeEnd <= Tip /\ SafeEnd >= 1
  BY <1>2, <1>4 DEF SafeEnd
<1>6. SafeEnd <= FinalHeight
  BY <1>4, <1>5 DEF FinalHeight
<1> DEFINE from == scanned_to
           to == SafeEnd
           n == to - from
           at(h) == {d.txid : d \in {e \in Fresh : e.height = h}}
<1>7. n \in Nat /\ to = from + n /\ from \in Nat /\ to \in Nat
  BY <1>4
<1>8. \A h \in from + 1 .. to : FoundAt(h) = CreditsAt(h)
  <2>1. \A h \in from + 1 .. to : h \in 1 .. SafeEnd /\ h > scanned_to
    BY <1>4
  <2>. QED
    BY <1>1, <1>2, <2>1
<1>9. \A h \in from + 1 .. to : \A d \in CreditsAt(h) : d \notin credited
  <2> SUFFICES ASSUME NEW h \in from + 1 .. to, NEW d \in CreditsAt(h), NEW g \in 1 .. scanned_to,
                      d \in CreditsAt(g)
               PROVE  FALSE
    BY <1>3
  <2>1. h \in 1 .. Tip /\ g \in 1 .. Tip /\ g # h
    BY <1>4, <1>5
  <2>2. chain[g] \cap chain[h] = {}
    BY <2>1 DEF BlocksApart
  <2>. QED
    BY <2>2 DEF CreditsAt
<1>10. ASSUME NEW h \in from + 1 .. to
       PROVE  at(h) = CreditsAt(h)
  <2>1. ASSUME NEW d \in Fresh, d.height = h
        PROVE  d.txid \in CreditsAt(h)
    <3>1. d \in pass.found /\ d \in Find
      BY <1>1 DEF Fresh
    <3>2. d.txid \in Deposits /\ d = [txid |-> d.txid, height |-> h]
      BY <2>1, <3>1 DEF Find
    <3>3. d.txid \in FoundAt(h)
      BY <3>1, <3>2 DEF FoundAt
    <3>. QED
      BY <1>8, <3>3
  <2>2. ASSUME NEW x \in CreditsAt(h)
        PROVE  x \in at(h)
    <3> DEFINE d == [txid |-> x, height |-> h]
    <3>1. d \in pass.found
      BY <1>8 DEF FoundAt
    <3>2. d.txid = x /\ d.height = h
      OBVIOUS
    <3> HIDE DEF d
    <3>3. d \in Fresh
      BY <1>9, <3>1, <3>2 DEF Fresh, SafeEnd
    <3>. QED
      BY <3>2, <3>3
  <2>. QED
    BY <2>1, <2>2
<1>11. InOrder(Fresh, from, to) = FlattenSeq([i \in 1 .. n |-> Ascending(CreditsAt(from + i))])
  <2>1. InOrder(Fresh, from, to) = FlattenSeq([i \in 1 .. n |-> Ascending(at(from + i))])
    BY DEF InOrder
  <2>2. \A i \in 1 .. n : at(from + i) = CreditsAt(from + i)
    <3>1. \A i \in 1 .. n : from + i \in from + 1 .. to
      BY <1>7
    <3>. QED
      BY <1>10, <3>1
  <2> HIDE DEF at, n
  <2>3. [i \in 1 .. n |-> Ascending(at(from + i))] = [i \in 1 .. n |-> Ascending(CreditsAt(from + i))]
    BY <2>2
  <2>. QED
    BY <2>1, <2>3
<1>12. ledger' = LedgerTo(to)
  <2> HIDE DEF n, from, to
  <2>1. LedgerTo(from + n) = LedgerTo(from) \o FlattenSeq([i \in 1 .. n |-> Ascending(CreditsAt(from + i))])
    BY <1>7, LedgerSplits
  <2>. QED
    BY <1>1, <1>3, <1>7, <1>11, <2>1 DEF from, to
<1>13. credited' = UNION {CreditsAt(h) : h \in 1 .. to}
  <2>1. \A h : h \in 1 .. to <=> h \in 1 .. from \/ h \in from + 1 .. to
    BY <1>7
  <2>2. ASSUME NEW d \in Fresh
        PROVE  \E h \in 1 .. to : d.txid \in CreditsAt(h)
    <3>1. d.height \in from + 1 .. to
      BY DEF Fresh, SafeEnd
    <3>2. d.txid \in at(d.height)
      OBVIOUS
    <3>. QED
      BY <1>10, <2>1, <3>1, <3>2
  <2>3. ASSUME NEW h \in from + 1 .. to, NEW x \in CreditsAt(h)
        PROVE  x \in {d.txid : d \in Fresh}
    BY <1>10, <2>3
  <2> HIDE DEF from, to, at
  <2>. QED
    BY <1>1, <1>3, <2>1, <2>2, <2>3 DEF from
<1>. QED
  BY <1>1, <1>4, <1>6, <1>12, <1>13

\* Only the end of a pass credits.
LEMMA WatcherStays ==
  ASSUME Shape, [Next]_vars
  PROVE  UNCHANGED watcherVars \/ (EndPass /\ SafeEnd > scanned_to)
<1>1. CASE Chain
  BY <1>1, ChainStep
<1>2. CASE PassFails \/ SyncFails
  BY <1>2, FeedsFailed
<1>3. CASE EndPass
  BY <1>3, PassEnded
<1>. QED
  BY <1>1, <1>2, <1>3, StepCases
  DEF StartPass, PassFeeds, PassScans, StartSync, SyncFeeds, PayOut, Reseed, ReseedOther,
      ReseedFails, vars

\* Every step keeps the ledger the deposits of the heights scanned.
LEMMA LedgerInvNext ==
  ASSUME Shape, BlocksApart, highest - MaxReorg <= Tip, MaxReorg <= Confirmations - 1,
         FoundInv, LedgerInv, [Next]_vars
  PROVE  LedgerInv'
<1> SUFFICES ASSUME exclusive
             PROVE  /\ scanned_to' <= FinalHeight'
                    /\ ledger' = LedgerTo(scanned_to)'
                    /\ credited' = UNION {CreditsAt(h)' : h \in 1 .. scanned_to'}
  BY ExclusiveStays DEF LedgerInv
<1>1. /\ scanned_to <= FinalHeight /\ ledger = LedgerTo(scanned_to)
      /\ credited = UNION {CreditsAt(h) : h \in 1 .. scanned_to}
  BY DEF LedgerInv
<1>2. /\ FinalHeight \in Nat /\ FinalHeight' \in Nat /\ FinalHeight <= FinalHeight'
      /\ \A h \in 1 .. FinalHeight : CreditsAt(h)' = CreditsAt(h)
  BY FinalStays
<1>3. scanned_to \in Nat
  <2>1. scanned_to \in Heights
    BY DEF Shape, WatcherShape
  <2>. QED
    BY <2>1, HeightsAre
<1>4. ASSUME NEW k \in Nat, k <= FinalHeight
      PROVE  /\ k <= FinalHeight'
             /\ LedgerTo(k)' = LedgerTo(k)
             /\ {CreditsAt(h)' : h \in 1 .. k} = {CreditsAt(h) : h \in 1 .. k}
  <2>1. \A h \in 1 .. k : CreditsAt(h)' = CreditsAt(h)
    BY <1>2, <1>4
  <2>2. k <= FinalHeight'
    BY <1>2, <1>4
  <2>3. LedgerTo(k)' = LedgerTo(k)
    BY <2>1, LedgerToStays
  <2>. QED
    BY <2>1, <2>2, <2>3
<1>5. ASSUME NEW k \in Nat, k <= FinalHeight, scanned_to' = k,
             ledger' = LedgerTo(k), credited' = UNION {CreditsAt(h) : h \in 1 .. k}
      PROVE  /\ scanned_to' <= FinalHeight'
             /\ ledger' = LedgerTo(scanned_to)'
             /\ credited' = UNION {CreditsAt(h)' : h \in 1 .. scanned_to'}
  <2>1. /\ k <= FinalHeight' /\ LedgerTo(k)' = LedgerTo(k)
        /\ {CreditsAt(h)' : h \in 1 .. k} = {CreditsAt(h) : h \in 1 .. k}
    BY <1>4, <1>5
  <2>2. LedgerTo(scanned_to)' = LedgerTo(k)'
    BY <1>5 DEF LedgerTo
  <2>. QED
    BY <1>5, <2>1, <2>2
<1>6. CASE EndPass /\ SafeEnd > scanned_to
  BY <1>5, <1>6, PassCredits
<1>7. CASE UNCHANGED watcherVars
  <2> DEFINE k == scanned_to
  <2>1. /\ k \in Nat /\ k <= FinalHeight /\ scanned_to' = k /\ ledger' = LedgerTo(k)
        /\ credited' = UNION {CreditsAt(h) : h \in 1 .. k}
    BY <1>1, <1>3, <1>7 DEF watcherVars
  <2> HIDE DEF k
  <2>2. \A j \in Nat :
          /\ j <= FinalHeight /\ scanned_to' = j /\ ledger' = LedgerTo(j)
          /\ credited' = UNION {CreditsAt(h) : h \in 1 .. j}
          => /\ scanned_to' <= FinalHeight'
             /\ ledger' = LedgerTo(scanned_to)'
             /\ credited' = UNION {CreditsAt(h)' : h \in 1 .. scanned_to'}
    BY <1>5
  <2>. QED
    BY <2>1, <2>2, Zenon
<1>. QED
  BY <1>6, <1>7, WatcherStays

-----------------------------------------------------------------------------
(***************************************************************************)
(* What the watcher has credited is the final deposits of the blocks it    *)
(* has scanned.                                                            *)
(***************************************************************************)
LEMMA ScanHolds ==
  ASSUME MaxReorg <= Confirmations - 1
  PROVE  Spec => []ScanInv
<1>1. Init => ChainInv /\ FoundInv /\ LedgerInv
  <2> SUFFICES ASSUME Init PROVE ChainInv /\ FoundInv /\ LedgerInv
    OBVIOUS
  <2>1. /\ Tip = 0 /\ highest = 0 /\ pass = NoPass /\ scanned_to = 0 /\ credited = {}
        /\ ledger = << >>
    BY DEF Init, Tip, SeedHeight
  <2>2. ChainInv
    BY <2>1, ScannerBoundsAssumption DEF ChainInv, BlocksApart, SpentLater
  <2>3. FinalHeight = 0
    BY <2>1, ScannerBoundsAssumption DEF FinalHeight
  <2>4. LedgerTo(0) = << >>
    BY FlattenEmpty DEF LedgerTo
  <2>. QED
    BY <2>1, <2>2, <2>3, <2>4 DEF FoundInv, LedgerInv
<1>2. Shape /\ ChainInv /\ FoundInv /\ LedgerInv /\ [Next]_vars => ChainInv' /\ FoundInv' /\ LedgerInv'
  BY ChainInvNext, FoundNext, LedgerInvNext DEF ChainInv
<1>3. Shape /\ ChainInv /\ FoundInv /\ LedgerInv => ScanInv
  BY DEF ChainInv, ScanInv
<1>. QED
  BY <1>1, <1>2, <1>3, ShapeHolds, PTL DEF Spec

(***************************************************************************)
(* With passes and syncs that exclude each other, no deposit is passed     *)
(* over: what the watcher looks at no more, it has credited.               *)
(***************************************************************************)
THEOREM ExclusionPassesNothingOver ==
  MaxReorg <= Confirmations - 1 => (Spec => [](exclusive => NothingPassedOver))
<1> SUFFICES ASSUME MaxReorg <= Confirmations - 1
             PROVE  Spec => [](exclusive => NothingPassedOver)
  OBVIOUS
<1>1. ScanInv => (exclusive => NothingPassedOver)
  <2> SUFFICES ASSUME ScanInv, exclusive, NEW h \in 1 .. Least(scanned_to, Tip), NEW tx \in chain[h],
                      Credits(tx, TRUE)
               PROVE  tx \in credited
    BY DEF NothingPassedOver
  <2>1. Shape /\ credited = UNION {CreditsAt(g) : g \in 1 .. scanned_to}
    BY DEF ScanInv, LedgerInv
  <2>2. Tip \in Nat /\ scanned_to \in Nat
    <3>1. scanned_to \in Heights
      BY <2>1 DEF Shape, WatcherShape
    <3>. QED
      BY <2>1, <3>1, HeightsAre
  <2>3. h \in 1 .. scanned_to
    BY <2>2 DEF Least
  <2>4. tx \in CreditsAt(h)
    BY ObservedAre
  <2>. QED
    BY <2>1, <2>3, <2>4
<1>. QED
  BY <1>1, ScanHolds, PTL

(***************************************************************************)
(* What the ledger promises of a height.                                   *)
(***************************************************************************)
LEMMA FinalBlocksAre ==
  FinalBlocks = [h \in 1 .. FinalHeight |-> Ascending(CreditsAt(h))]
<1>1. \A h : {tx \in chain[h] : Credits(tx, TRUE)} = CreditsAt(h)
  BY ObservedAre
<1>. QED
  BY <1>1 DEF FinalBlocks

\* What the ledger promises of a height is what the chain credits up to it.
LEMMA LedgerThrough ==
  ASSUME FinalHeight \in Nat, NEW k \in 0 .. FinalHeight
  PROVE  Ledger!Through(k) = LedgerTo(k) /\ Len(FinalBlocks) = FinalHeight
<1> DEFINE n == FinalHeight
           f == [h \in 1 .. n |-> Ascending(CreditsAt(h))]
           first == SubSeq(FinalBlocks, 1, k)
<1>1. FinalBlocks = f
  BY FinalBlocksAre
<1>2. f \in [1 .. n -> Seq(Deposits)] /\ n \in Nat
  BY CreditsList
<1>3. \A h \in 1 .. n : f[h] = Ascending(CreditsAt(h))
  OBVIOUS
<1> HIDE DEF f, n
<1>4. f \in Seq(Seq(Deposits)) /\ Len(f) = n
  BY <1>2, FunctionIsSequence
<1>5. k \in 0 .. n
  BY DEF n
<1>6. first = [h \in 1 .. k |-> f[h]]
  <2>1. first = [h \in 1 .. k |-> f[1 + h - 1]]
    BY <1>1, <1>2, <1>4, <1>5, SMT
  <2>2. \A h \in 1 .. k : 1 + h - 1 = h
    OBVIOUS
  <2> HIDE DEF first
  <2>. QED
    BY <2>1, <2>2
<1>7. \A h \in 1 .. k : h \in 1 .. n
  BY <1>2, <1>5
<1> HIDE DEF first
<1>8. first = [h \in 1 .. k |-> Ascending(CreditsAt(h))]
  BY <1>3, <1>6, <1>7, Zenon
<1>9. \A s : Ledger!FlattenSeq(s) = FlattenSeq(s)
  BY Zenon DEF Ledger!FlattenSeq, FlattenSeq
<1>10. Ledger!Through(k) = Ledger!FlattenSeq(first)
  BY DEF Ledger!Through, first
<1>11. Ledger!Through(k) = LedgerTo(k)
  BY <1>8, <1>9, <1>10, Zenon DEF LedgerTo
<1>. QED
  BY <1>1, <1>4, <1>11 DEF n

\* The two spellings of a strict prefix are one.
LEMMA LedgerPrefix ==
  \A s, t : Ledger!IsStrictPrefix(s, t) <=> IsPrefix(s, t) /\ s # t
BY DEF Ledger!IsStrictPrefix, Ledger!IsPrefix, IsPrefix

(***************************************************************************)
(* A step of the chain makes blocks final, or does nothing to the ledger.  *)
(***************************************************************************)
LEMMA ChainFinalizes ==
  ASSUME Shape, highest - MaxReorg <= Tip, [Next]_vars, UNCHANGED watcherVars
  PROVE  Ledger!Finalize \/ UNCHANGED <<FinalBlocks, LedgerNow>>
<1>1. /\ FinalHeight \in Nat /\ FinalHeight' \in Nat /\ FinalHeight <= FinalHeight'
      /\ \A h \in 1 .. FinalHeight : CreditsAt(h)' = CreditsAt(h)
  BY FinalStays
<1>2. LedgerNow' = LedgerNow
  BY ExclusiveStays DEF LedgerNow, watcherVars
<1> DEFINE m == FinalHeight
           n == FinalHeight'
           f == [h \in 1 .. m |-> Ascending(CreditsAt(h))]
           g == [h \in 1 .. n |-> Ascending(CreditsAt(h))']
<1>3. FinalBlocks = f /\ FinalBlocks' = g
  <2>1. \A h : {tx \in chain'[h] : Credits(tx, TRUE)'} = CreditsAt(h)'
    BY DEF Credits, CreditsAt, Creditable
  <2>2. FinalBlocks' = g
    BY <2>1 DEF FinalBlocks
  <2>. QED
    BY <2>2, FinalBlocksAre
<1>4. f \in [1 .. m -> Seq(Deposits)]
  BY CreditsList
<1>5. g \in [1 .. n -> Seq(Deposits)]
  <2>1. \A h : CreditsAt(h)' \in SUBSET Deposits
    BY DEF CreditsAt, Creditable
  <2>2. \A h : Ascending(CreditsAt(h)') \in Seq(Deposits)
    BY <2>1, DepositsList, Zenon
  <2>. QED
    BY <2>2
<1>6. \A h \in 1 .. m : h \in 1 .. n /\ g[h] = f[h]
  <2>1. \A h \in 1 .. m : Ascending(CreditsAt(h))' = Ascending(CreditsAt(h))
    <3> SUFFICES ASSUME NEW h \in 1 .. m PROVE Ascending(CreditsAt(h))' = Ascending(CreditsAt(h))
      OBVIOUS
    <3>1. CreditsAt(h)' = CreditsAt(h)
      BY <1>1
    <3>. QED
      BY <3>1, Zenon
  <2>2. \A h \in 1 .. m : h \in 1 .. n
    BY <1>1
  <2>. QED
    BY <2>1, <2>2
<1>7. m \in Nat /\ n \in Nat /\ m <= n
  BY <1>1
<1> HIDE DEF m, n, f, g
<1>8. f \in Seq(Seq(Deposits)) /\ Len(f) = m /\ g \in Seq(Seq(Deposits)) /\ Len(g) = n
  BY <1>4, <1>5, <1>7, FunctionIsSequence
<1>9. IsPrefix(f, g)
  BY <1>6, <1>7, <1>8, PrefixIs
<1>10. f # g => Ledger!IsStrictPrefix(f, g)
  BY <1>9, LedgerPrefix, Zenon
<1>. QED
  BY <1>2, <1>3, <1>10 DEF Ledger!Finalize

(***************************************************************************)
(* The end of a pass credits whole final blocks, or nothing.               *)
(***************************************************************************)
LEMMA EndCredits ==
  ASSUME ScanInv, MaxReorg <= Confirmations - 1, [Next]_vars, EndPass, SafeEnd > scanned_to, exclusive
  PROVE  Ledger!Credit("watcher") \/ UNCHANGED <<FinalBlocks, LedgerNow>>
<1>1. /\ Shape /\ BlocksApart /\ highest - MaxReorg <= Tip /\ FoundInv /\ LedgerInv
  BY DEF ScanInv
<1>2. SafeEnd \in Nat /\ SafeEnd <= FinalHeight /\ ledger' = LedgerTo(SafeEnd)
  BY <1>1, PassCredits
<1>3. ledger = LedgerTo(scanned_to) /\ scanned_to \in Nat
  <2>1. scanned_to \in Heights
    BY <1>1 DEF Shape, WatcherShape
  <2>. QED
    BY <1>1, <2>1, HeightsAre DEF LedgerInv
<1>4. FinalHeight \in Nat
  BY <1>1, FinalStays
<1>5. FinalBlocks' = FinalBlocks
  BY <1>1, PassEnded DEF FinalBlocks, FinalHeight, chainVars, Credits
<1>6. exclusive' = exclusive
  BY <1>1, ExclusiveStays
<1> DEFINE k == SafeEnd
           n == k - scanned_to
           old == LedgerTo(scanned_to)
           new == LedgerTo(k)
           rest == FlattenSeq([i \in 1 .. n |-> Ascending(CreditsAt(scanned_to + i))])
<1>7. k \in 0 .. FinalHeight
  BY <1>2, <1>4
<1>8. n \in Nat /\ k = scanned_to + n
  BY <1>2, <1>3
<1> HIDE DEF k, n
<1>9. new \in Seq(Deposits) /\ old \in Seq(Deposits) /\ rest \in Seq(Deposits) /\ new = old \o rest
  BY <1>2, <1>3, <1>8, LedgerSplits DEF k
<1>10. Ledger!Through(k) = new /\ Len(FinalBlocks) = FinalHeight
  BY <1>4, <1>7, LedgerThrough
<1>11. LedgerNow = [w \in {"watcher"} |-> old] /\ LedgerNow' = [w \in {"watcher"} |-> new]
  BY <1>2, <1>3, <1>6 DEF LedgerNow, k
<1> HIDE DEF old, new, rest
<1>12. IsPrefix(old, new)
  BY <1>9, PrefixConcat
<1>13. CASE old = new
  BY <1>5, <1>11, <1>13
<1>14. CASE old # new
  <2>1. Ledger!IsStrictPrefix(LedgerNow["watcher"], Ledger!Through(k))
    BY <1>10, <1>11, <1>12, <1>14, LedgerPrefix
  <2>2. LedgerNow' = [LedgerNow EXCEPT !["watcher"] = Ledger!Through(k)]
    BY <1>10, <1>11
  <2>. QED
    BY <1>5, <1>7, <1>10, <2>1, <2>2 DEF Ledger!Credit
<1>. QED
  BY <1>13, <1>14

(***************************************************************************)
(* With reorganisations shallower than the confirmations, and passes and   *)
(* syncs that exclude each other, the watcher behind a Scanner implements  *)
(* the ledger of the final deposits: whatever fails, is cut short by       *)
(* max_blocks, was fed by the settler first, or is reseeded.               *)
(***************************************************************************)
THEOREM ScannerImplementsLedger ==
  MaxReorg <= Confirmations - 1 => (Spec => ImplementsDepositLedger)
<1> SUFFICES ASSUME MaxReorg <= Confirmations - 1 PROVE Spec => ImplementsDepositLedger
  OBVIOUS
<1>1. Init => Ledger!Init
  <2> SUFFICES ASSUME Init PROVE Ledger!Init
    OBVIOUS
  <2>1. FinalHeight = 0 /\ ledger = << >>
    BY ScannerBoundsAssumption DEF Init, FinalHeight
  <2>2. FinalBlocks = << >> /\ LedgerNow = [w \in {"watcher"} |-> << >>]
    BY <2>1 DEF FinalBlocks, LedgerNow
  <2>. QED
    BY <2>2 DEF Ledger!Init
<1>2. ScanInv /\ [Next]_vars => [Ledger!Next]_<<FinalBlocks, LedgerNow>>
  <2> SUFFICES ASSUME ScanInv, [Next]_vars
               PROVE  Ledger!Next \/ UNCHANGED <<FinalBlocks, LedgerNow>>
    OBVIOUS
  <2>1. Shape /\ highest - MaxReorg <= Tip
    BY DEF ScanInv
  <2>2. CASE UNCHANGED watcherVars
    BY <2>1, <2>2, ChainFinalizes DEF Ledger!Next
  <2>3. CASE EndPass /\ SafeEnd > scanned_to /\ exclusive
    BY <2>3, EndCredits DEF Ledger!Next
  <2>4. CASE ~ exclusive
    <3>1. exclusive' = exclusive /\ FinalHeight = 0 /\ FinalHeight' = 0
      BY <2>1, <2>4, ExclusiveStays, FinalStays
    <3>2. FinalBlocks = << >> /\ FinalBlocks' = << >>
      BY <3>1 DEF FinalBlocks
    <3>3. LedgerNow' = LedgerNow
      BY <2>4, <3>1 DEF LedgerNow
    <3>. QED
      BY <3>2, <3>3
  <2>. QED
    BY <2>1, <2>2, <2>3, <2>4, WatcherStays
<1>3. Spec => []ScanInv
  BY ScanHolds
<1>. QED
  BY <1>1, <1>2, <1>3, PTL DEF Spec, ImplementsDepositLedger, Ledger!Spec
=============================================================================
