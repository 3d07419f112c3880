-------------------------------- MODULE Watcher --------------------------------
(***************************************************************************)
(* The watchers of src/watcher.rs: each follows one chain through a        *)
(* ChainView and reports what is confirmed to its VM, as a sequence of     *)
(* attestations and indexed credits.                                       *)
(*                                                                         *)
(* The chain is external.  It grows, and it reorganises: blocks above some *)
(* height go, and the transactions in them may be mined again, elsewhere   *)
(* or never.  MaxReorg bounds how far below the highest tip ever seen a    *)
(* block may still go; the watchers are right if that is less than their   *)
(* confirmations, and the runs also say what happens if it is not.         *)
(*                                                                         *)
(* The program that owns a watcher is external too.  It submits what a     *)
(* poll returns to the VM, which hands out indices in sequence, and keeps  *)
(* scanned_to with it, so that it can resume; if the view failed during    *)
(* the pass it submits what the pass returned all the same, as rewind_to   *)
(* says ("keeping everything already credited"), and rewinds.              *)
(***************************************************************************)
EXTENDS Integers, Logs

CONSTANTS
  Watchers,
  Confirmations,   \* blocks from a deposit's own to the tip, both counted
  Txs,             \* transaction ids, by their rank in the order of byte strings
  Outputs,         \* Outputs[tx]: the deposits tx makes, in order
  Nobody,          \* the all-zero account
  MaxReorg,        \* bound: how deep under the highest tip blocks may go
  MaxReorgs,       \* bound: how many reorganisations
  MaxFailures,     \* bound: polls over a failed view
  MaxRestarts,     \* bound: restarts of watchers
  MaxHeight        \* bound: the chain

ASSUME TxsAssumption == IsFiniteSet(Txs) /\ Txs = 1 .. Cardinality(Txs)
ASSUME OutputsAssumption ==
  \A tx \in Txs :
    /\ Outputs[tx] \in Seq(ToSet(Outputs[tx])) /\ IsInjective(Outputs[tx])
    /\ \A d \in ToSet(Outputs[tx]) : d.txid = tx /\ d.amount \in Nat
ASSUME ConfirmationsAssumption == Confirmations \in Nat
ASSUME WatcherBoundsAssumption ==
  /\ MaxReorg \in Nat /\ MaxReorgs \in Nat
  /\ MaxFailures \in Nat /\ MaxRestarts \in Nat
  /\ MaxHeight \in Nat

VARIABLES
  chain,      \* the blocks, each the set of its transactions
  highest,    \* history: the highest tip there was
  reorgs,     \* how many reorganisations there were
  failures,   \* how many polls were over a failed view
  restarts,   \* how often a watcher was restarted
  scanned_to, credited, next_index,  \* the fields of each watcher
  reported    \* the actions each watcher's VM was given, in order

watcherVars == <<scanned_to, credited, next_index, reported>>
vars == <<chain, highest, reorgs, failures, restarts, watcherVars>>

Tip == Len(chain)
MinedTxs == UNION {chain[h] : h \in 1 .. Tip}

Deposits == UNION {ToSet(Outputs[tx]) : tx \in Txs}
Assets == {d.asset : d \in Deposits}

(***************************************************************************)
(* What the view answers for a height: the outputs of its transactions.    *)
(* (The watcher sorts by transaction id, stably; the order within a block  *)
(* is therefore this one whatever the view's.)                             *)
(***************************************************************************)
DepositsIn(block) ==
  FlattenSeq([tx \in Txs |-> IF tx \in block THEN Outputs[tx] ELSE << >>])

OfAsset(asset) == {d \in Deposits : d.asset = asset}

Balance(asset, height) ==
  Total(Select(FlattenSeq([h \in 1 .. height |-> DepositsIn(chain[h])]), OfAsset(asset)))

(***************************************************************************)
(* The asset of the bridge itself, ObservedDeposit::asset = None.          *)
(***************************************************************************)
BridgeAsset == "bridge"

Init ==
  /\ chain = << >>
  /\ highest = 0
  /\ reorgs = 0
  /\ failures = 0
  /\ restarts = 0
  /\ scanned_to = [w \in Watchers |-> 0]
  /\ credited = [w \in Watchers |-> {}]
  /\ next_index = [w \in Watchers |-> 1]
  /\ reported = [w \in Watchers |-> << >>]

-----------------------------------------------------------------------------
Mine(block) ==
  /\ Tip < MaxHeight
  /\ block \cap MinedTxs = {}
  /\ chain' = Append(chain, block)
  /\ highest' = IF Tip + 1 > highest THEN Tip + 1 ELSE highest
  /\ UNCHANGED <<reorgs, failures, restarts, watcherVars>>

Reorg(height) ==
  /\ reorgs < MaxReorgs
  /\ height < Tip
  /\ height >= highest - MaxReorg
  /\ chain' = SubSeq(chain, 1, height)
  /\ reorgs' = reorgs + 1
  /\ UNCHANGED <<highest, failures, restarts, watcherVars>>

-----------------------------------------------------------------------------
\* Mutant of SafeHeight: the tip is not counted as a confirmation of its own.
SafeHeightEarly ==
  LET buried == IF Confirmations < 2 THEN 0 ELSE Confirmations - 2
  IN IF Tip > buried THEN Tip - buried ELSE 0

(***************************************************************************)
(* safe_height, 0 for None: saturating_sub makes zero confirmations the    *)
(* same as one.                                                            *)
(***************************************************************************)
SafeHeight ==
  LET buried == IF Confirmations = 0 THEN 0 ELSE Confirmations - 1
  IN IF Tip > buried THEN Tip - buried ELSE 0

(***************************************************************************)
(* The deposits poll collects over the heights it scans: not yet credited, *)
(* positive, and somebody's.  A height the view failed on looks empty.     *)
(***************************************************************************)
Creditable == {d \in Deposits : d.amount > 0 /\ d.account # Nobody}

Collected(block, wanted) == Select(DepositsIn(block), wanted)

\* Mutant of Fresh: what was credited before is not passed over.
FreshRepeats(w, safe, failed) ==
  FlattenSeq([i \in 1 .. safe - scanned_to[w] |->
    IF scanned_to[w] + i \in failed THEN << >>
    ELSE Collected(chain[scanned_to[w] + i], Creditable)])

Fresh(w, safe, failed) ==
  LET wanted == {d \in Creditable : d.txid \notin credited[w]}
  IN FlattenSeq([i \in 1 .. safe - scanned_to[w] |->
       IF scanned_to[w] + i \in failed THEN << >>
       ELSE Collected(chain[scanned_to[w] + i], wanted)])

(***************************************************************************)
(* What a watcher asks of its VM, WatcherAction.                           *)
(***************************************************************************)
AttestActions == [kind : {"Attest"}, asset : Assets \cup {BridgeAsset}, observed : Nat]
CreditActions == [kind : {"Credit"}, index : Nat \ {0}, deposit : Deposits]
Action == AttestActions \cup CreditActions

Attest(asset, safe) == [kind |-> "Attest", asset |-> asset, observed |-> Balance(asset, safe)]

\* Mutant of Batch: the observations after the credits they cover.
BatchCreditsFirst(w, safe, fresh) ==
  LET others == SetToSeq({d.asset : d \in ToSet(fresh)} \ {BridgeAsset})
      Credit(i) == [kind |-> "Credit", index |-> next_index[w] + i - 1, deposit |-> fresh[i]]
  IN [i \in 1 .. Len(fresh) |-> Credit(i)]
       \o <<Attest(BridgeAsset, safe)>>
       \o [i \in 1 .. Len(others) |-> Attest(others[i], safe)]

(***************************************************************************)
(* An observation of the bridge's asset, one of every other asset in the   *)
(* batch, and then the credits.                                            *)
(***************************************************************************)
Batch(w, safe, fresh) ==
  LET others == SetToSeq({d.asset : d \in ToSet(fresh)} \ {BridgeAsset})
      Credit(i) == [kind |-> "Credit", index |-> next_index[w] + i - 1, deposit |-> fresh[i]]
  IN <<Attest(BridgeAsset, safe)>>
       \o [i \in 1 .. Len(others) |-> Attest(others[i], safe)]
       \o [i \in 1 .. Len(fresh) |-> Credit(i)]

\* Mutants of Record: an index per transaction; only the last batch is kept.
RecordPerTx(w, fresh) ==
  LET txids == {d.txid : d \in ToSet(fresh)}
  IN /\ credited' = [credited EXCEPT ![w] = @ \cup txids]
     /\ next_index' = [next_index EXCEPT ![w] = @ + Cardinality(txids)]

RecordLast(w, fresh) ==
  /\ credited' = [credited EXCEPT ![w] = {d.txid : d \in ToSet(fresh)}]
  /\ next_index' = [next_index EXCEPT ![w] = @ + Len(fresh)]

Record(w, fresh) ==
  /\ credited' = [credited EXCEPT ![w] = @ \cup {d.txid : d \in ToSet(fresh)}]
  /\ next_index' = [next_index EXCEPT ![w] = @ + Len(fresh)]

(***************************************************************************)
(* poll, and the submission of what it returns.  A poll that finds nothing *)
(* new to scan, or no balance to attest (Unavailable), changes nothing.    *)
(***************************************************************************)
Poll(w) ==
  LET safe == SafeHeight
      fresh == Fresh(w, safe, {})
  IN /\ safe > scanned_to[w]
     /\ scanned_to' = [scanned_to EXCEPT ![w] = safe]
     /\ Record(w, fresh)
     /\ reported' = IF fresh = << >> THEN reported
                    ELSE [reported EXCEPT ![w] = @ \o Batch(w, safe, fresh)]
     /\ UNCHANGED <<chain, highest, reorgs, failures, restarts>>

(***************************************************************************)
(* A poll during which the view failed on some heights.  The owner asks    *)
(* failed() after the pass and rewinds to where it was.                    *)
(***************************************************************************)
PollFailedView(w, failed) ==
  LET safe == SafeHeight
      fresh == Fresh(w, safe, failed)
  IN /\ failures < MaxFailures
     /\ failures' = failures + 1
     /\ safe > scanned_to[w]
     /\ failed # {} /\ failed \subseteq scanned_to[w] + 1 .. safe
     /\ Record(w, fresh)
     /\ reported' = IF fresh = << >> THEN reported
                    ELSE [reported EXCEPT ![w] = @ \o Batch(w, safe, fresh)]
     /\ UNCHANGED <<chain, highest, reorgs, restarts, scanned_to>>

(***************************************************************************)
(* The watcher's process restarts: Watcher::resume with the height it kept *)
(* and the index the VM expects next.                                      *)
(***************************************************************************)
Credits(w) == Select(reported[w], CreditActions)

\* Mutant of Resume: with the index used last instead of the next one.
ResumeLastIndex(w) ==
  /\ restarts < MaxRestarts
  /\ restarts' = restarts + 1
  /\ credited' = [credited EXCEPT ![w] = {}]
  /\ next_index' = [next_index EXCEPT ![w] = Len(Credits(w))]
  /\ UNCHANGED <<chain, highest, reorgs, failures, scanned_to, reported>>

Resume(w) ==
  /\ restarts < MaxRestarts
  /\ restarts' = restarts + 1
  /\ credited' = [credited EXCEPT ![w] = {}]
  /\ next_index' = [next_index EXCEPT ![w] = Len(Credits(w)) + 1]
  /\ UNCHANGED <<chain, highest, reorgs, failures, scanned_to, reported>>

(***************************************************************************)
(* audit over the whole chain: every transaction the watcher remembers to  *)
(* have credited is still there.                                           *)
(***************************************************************************)
AuditPasses(w) == credited[w] \subseteq MinedTxs

Chain == (\E block \in SUBSET Txs : Mine(block)) \/ (\E h \in 0 .. MaxHeight : Reorg(h))

Next ==
  \/ Chain
  \/ \E w \in Watchers :
       \/ Poll(w)
       \/ \E failed \in SUBSET (1 .. MaxHeight) : PollFailedView(w, failed)
       \/ Resume(w)

Spec == Init /\ [][Next]_vars

-----------------------------------------------------------------------------
(* The type invariant: heights, indices and reports stay what they are. *)
TypeOK ==
  /\ chain \in Seq(SUBSET Txs)
  /\ highest \in Nat /\ reorgs \in 0 .. MaxReorgs /\ failures \in 0 .. MaxFailures
  /\ restarts \in 0 .. MaxRestarts
  /\ scanned_to \in [Watchers -> Nat]
  /\ credited \in [Watchers -> SUBSET Txs]
  /\ next_index \in [Watchers -> Nat \ {0}]
  /\ reported \in [Watchers -> Seq(Action)]

(***************************************************************************)
(* "Deposit indices are strictly sequential, so a gap or a repeat is       *)
(* refused": the credits a VM is given are numbered 1, 2, 3...             *)
(***************************************************************************)
IndicesDense ==
  \A w \in Watchers : \A i \in DOMAIN Credits(w) : Credits(w)[i].index = i

(***************************************************************************)
(* No deposit is credited twice, "so a reorg that reshuffles blocks cannot *)
(* produce a second credit" (the field `credited`).                        *)
(***************************************************************************)
CreditedOnce ==
  \A w \in Watchers : \A i, j \in DOMAIN Credits(w) :
    Credits(w)[i].deposit = Credits(w)[j].deposit => i = j

(***************************************************************************)
(* "A credit may not exceed the vault's last observed balance": at every   *)
(* credit, all that was credited of its asset is covered by the last       *)
(* attestation of that asset before it.                                    *)
(***************************************************************************)
CreditsOf(asset) == {action \in CreditActions : action.deposit.asset = asset}
AttestsOf(asset) == {action \in AttestActions : action.asset = asset}
DepositsOf(credits) == [i \in 1 .. Len(credits) |-> credits[i].deposit]

CreditsCovered ==
  \A w \in Watchers : \A n \in DOMAIN reported[w] :
    LET before == SubSeq(reported[w], 1, n)
        asset == reported[w][n].deposit.asset
        attests == Select(before, AttestsOf(asset))
    IN reported[w][n] \in CreditActions =>
         /\ attests # << >>
         /\ Total(DepositsOf(Select(before, CreditsOf(asset)))) <= Last(attests).observed

(***************************************************************************)
(* The audit fails exactly if something that was credited is gone.         *)
(***************************************************************************)
AuditIsExact ==
  \A w \in Watchers :
    AuditPasses(w) <=> \A i \in DOMAIN Credits(w) : Credits(w)[i].deposit.txid \in MinedTxs

(***************************************************************************)
(* Each watcher implements the ledger of the deposits that cannot go; so   *)
(* "two watchers scanning the same range must produce the same indices",   *)
(* at whatever times they poll and restart.                                *)
(***************************************************************************)
FinalHeight == IF highest > MaxReorg THEN highest - MaxReorg ELSE 0

FinalBlocks == [h \in 1 .. FinalHeight |-> Collected(chain[h], Creditable)]

Ledger == INSTANCE DepositLedger WITH
            final <- FinalBlocks,
            ledger <- [w \in Watchers |-> DepositsOf(Credits(w))]

(* What a watcher credits, and in which order, is what the ledger promises. *)
ImplementsDepositLedger == Ledger!Spec
=============================================================================
