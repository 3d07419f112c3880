-------------------------------- MODULE Scanner --------------------------------
(***************************************************************************)
(* The scanner of a shielded vault (src/shielded.rs) and the two threads   *)
(* that use it on one pair of note stores (src/notes.rs):                  *)
(*   - the deposit watcher: a pass of Scanner::observe, step by step, and  *)
(*     the poll (src/watcher.rs) of the snapshot it returns;               *)
(*   - the settler: Scanner::sync_notes to bring the trees up to date,     *)
(*     payouts that spend held notes, and Scanner::reseed when the owner   *)
(*     finds that a tree diverged.                                         *)
(* feed_block holds both stores' mutexes and is one step; everything else  *)
(* of a pass interleaves.  Whether the program around the two threads      *)
(* makes a pass and a sync exclude each other is not in this repository:   *)
(* both cases are considered.                                              *)
(*                                                                         *)
(* The chain is external: blocks are sets of transactions, it grows and    *)
(* reorganises.  Every transaction considered has one output of the vault, *)
(* a stranger's deposit or the change of a payout, and so one leaf.        *)
(***************************************************************************)
EXTENDS NoteStore

CONSTANTS
  Deposits,       \* transactions of strangers, numbered in the order of their ids
  PoolOf,         \* PoolOf[d]: the pool a deposit is paid into
  Names,          \* Names[d]: how it names its account: "memo", "attributed"
                  \*   (a human did), "address" (issued for the account, no
                  \*   memo) or "nobody" (a top-up of the vault)
  Confirmations,  \* of the watcher
  TreeLag,        \* tree_lag
  MaxBlocks,      \* max_blocks: the most blocks a pass reads
  Exclusions,     \* the cases to consider: {TRUE}, {FALSE} or both
  MaxReorg,       \* bound: how deep under the highest tip blocks may go
  MaxReorgs,      \* bound: how many reorganisations
  MaxPayouts,     \* bound: payouts
  MaxReseeds,     \* bound: MaxReseeds[e]: reseeds, if exclusive = e
  MaxFailures,    \* bound: failures of the node
  MaxHeight       \* bound: the chain

Pools == {"orchard", "ironwood"}

ASSUME DepositsAssumption ==
  /\ Deposits \subseteq Nat /\ IsFiniteSet(Deposits)
  /\ PoolOf \in [Deposits -> Pools]
  /\ Names \in [Deposits -> {"memo", "attributed", "address", "nobody"}]
ASSUME DepthAssumption ==
  Confirmations \in Nat \ {0} /\ TreeLag \in Nat /\ MaxBlocks \in Nat \ {0}
ASSUME ExclusionsAssumption == Exclusions \subseteq BOOLEAN
ASSUME ScannerBoundsAssumption ==
  /\ MaxReorg \in Nat /\ MaxReorgs \in Nat /\ MaxPayouts \in Nat
  /\ MaxReseeds \in [BOOLEAN -> Nat] /\ MaxFailures \in Nat /\ MaxHeight \in Nat

VARIABLES
  chain,      \* the blocks
  highest,    \* history: the highest tip there was
  reorgs,     \* how many reorganisations there were
  sent,       \* the payouts made: the note each spends and its pool
  store,      \* the two stores
  pass,       \* the pass of observe under way: what is left to feed and to scan
  sync,       \* the call of sync_notes under way: what is left to feed
  reseeding,  \* the pool a reseed has yet to replace, "none", or "stopped" if
              \*   the last one failed between the pools
  reseeds,    \* how many there were
  failures,   \* how often the node failed
  exclusive,  \* whether passes and syncs exclude each other
  scanned_to, credited, ledger   \* the watcher, and what it credited in order

watcherVars == <<scanned_to, credited, ledger>>
chainVars == <<chain, highest, reorgs>>
vars == <<chainVars, sent, store, pass, sync, reseeding, reseeds, failures, exclusive,
          watcherVars>>

(***************************************************************************)
(* Payouts are numbered after all deposits; a payout's name is also that   *)
(* of its change.                                                          *)
(***************************************************************************)
FirstPayout == 1 + (IF Deposits = {} THEN 0 ELSE CHOOSE d \in Deposits : \A e \in Deposits : e <= d)
Payouts == FirstPayout .. FirstPayout + Len(sent) - 1
PayoutOf(tx) == sent[tx - FirstPayout + 1]

Pool(tx) == IF tx \in Deposits THEN PoolOf[tx] ELSE PayoutOf(tx).pool
Spends(tx) == IF tx \in Deposits THEN {} ELSE {PayoutOf(tx).note}
SpentBy(txs) == UNION {Spends(tx) : tx \in txs}

Tip == Len(chain)
MinedTxs == UNION {chain[h] : h \in 1 .. Tip}

\* The numbers of a set, the n-th of which has n - 1 below it.
Ascending(S) ==
  [n \in 1 .. Cardinality(S) |-> CHOOSE x \in S : Cardinality({y \in S : y < x}) = n - 1]

Leaves(pool, block) == Ascending({tx \in block : Pool(tx) = pool})

Lowest(heights) == CHOOSE h \in heights : \A g \in heights : h <= g
Least(a, b) == IF a <= b THEN a ELSE b

(***************************************************************************)
(* The block before the vault's first one, from_height - 1.                *)
(***************************************************************************)
SeedHeight == 0

NoPass == [feed |-> {}, scan |-> {}, end |-> 0, found |-> {}]

Init ==
  /\ chain = << >> /\ highest = 0 /\ reorgs = 0
  /\ sent = << >>
  /\ store = [p \in Pools |-> FromFrontier(<< >>, SeedHeight)]
  /\ pass = NoPass
  /\ sync = {}
  /\ reseeding = "none" /\ reseeds = 0
  /\ failures = 0
  /\ exclusive \in Exclusions
  /\ scanned_to = SeedHeight /\ credited = {} /\ ledger = << >>

-----------------------------------------------------------------------------
(***************************************************************************)
(* The chain takes deposits at any time, and payouts that were sent, whose *)
(* note is on it and not spent on it.                                      *)
(***************************************************************************)
Mineable(block) ==
  /\ block \cap MinedTxs = {}
  /\ \A tx \in block \cap Payouts :
       /\ PayoutOf(tx).note \in MinedTxs
       /\ \A other \in (MinedTxs \cup block) \ {tx} : Spends(other) # Spends(tx)

Mine(block) ==
  /\ Tip < MaxHeight
  /\ Mineable(block)
  /\ chain' = Append(chain, block)
  /\ highest' = IF Tip + 1 > highest THEN Tip + 1 ELSE highest
  /\ UNCHANGED <<reorgs, sent, store, pass, sync, reseeding, reseeds, failures, exclusive,
                 watcherVars>>

Reorg(height) ==
  /\ reorgs < MaxReorgs
  /\ height < Tip /\ height >= highest - MaxReorg
  /\ chain' = SubSeq(chain, 1, height)
  /\ reorgs' = reorgs + 1
  /\ UNCHANGED <<highest, sent, store, pass, sync, reseeding, reseeds, failures, exclusive,
                 watcherVars>>

-----------------------------------------------------------------------------
(***************************************************************************)
(* PoolStores::synced_to: the lowest height both trees are complete to.    *)
(***************************************************************************)
SyncedTo == Least(store["orchard"].synced_to, store["ironwood"].synced_to)

(***************************************************************************)
(* What feed_block does to a store for some transactions of a block: the   *)
(* spends of each, and its leaf.                                           *)
(***************************************************************************)
FeedTx(s, tx) == AppendNote(FoldSet(LAMBDA note, t : SpendNullifier(t, note), s, Spends(tx)), tx, TRUE)
FeedTxs(pool, txs) == FoldLeft(FeedTx, BeginBlock(store[pool]), Leaves(pool, txs))

\* Mutant of AlreadyIn: the last block that is in counts as missing.
AlreadyInBelow(h) == h < SyncedTo

(***************************************************************************)
(* A block at or below the lower of the two heights is not fed again.      *)
(***************************************************************************)
AlreadyIn(h) == h <= SyncedTo

(***************************************************************************)
(* classify_addressed, of a transaction's one output.  feed_block calls it *)
(* without the addresses handed out, the scan of observe with them.        *)
(***************************************************************************)
IsChange(tx, known) == tx \in Payouts /\ Spends(tx) \subseteq known

Credits(tx, addressed) ==
  \/ tx \in Deposits /\ Names[tx] \in {"memo", "attributed"}
  \/ tx \in Deposits /\ Names[tx] = "address" /\ addressed

Unattributable(tx, addressed, known) ==
  \/ tx \in Payouts /\ ~ IsChange(tx, known)
  \/ tx \in Deposits /\ Names[tx] = "address" /\ ~ addressed

\* The deposits of a block, as ObservedDeposits.
Observed(h, addressed) ==
  {[txid |-> tx, height |-> h] : tx \in {t \in chain[h] : Credits(t, addressed)}}

(***************************************************************************)
(* Whether feed_block refuses a transaction of a block.  A payout's note   *)
(* is ours exactly if feeding the block leaves it among the spent.         *)
(***************************************************************************)
FeedRefuses(h) ==
  /\ h <= Tip
  /\ \E tx \in chain[h] :
       Unattributable(tx, FALSE, FeedTxs(Pool(tx), chain[h]).spent)

(***************************************************************************)
(* feed_block that returns Ok, and what it returns.                        *)
(***************************************************************************)
FeedBlock(h) ==
  IF AlreadyIn(h) THEN UNCHANGED store
  ELSE /\ h <= Tip
       /\ ~ FeedRefuses(h)
       /\ store' = [p \in Pools |-> FinishBlock(FeedTxs(p, chain[h]), h)]

FeedFound(h) == IF AlreadyIn(h) THEN {} ELSE Observed(h, FALSE)

(***************************************************************************)
(* feed_block that returns an error, the node's or Unattributable, after   *)
(* some of the block's transactions: both trees are rewound.               *)
(***************************************************************************)
FeedBlockFails(h) ==
  /\ ~ AlreadyIn(h)
  /\ \E txs \in SUBSET (IF h <= Tip THEN chain[h] ELSE {}) :
       store' = [p \in Pools |-> Rewind(FeedTxs(p, txs))]

(***************************************************************************)
(* Why a step fails: the node failed, or there is an error in what it      *)
(* said: the block is gone, or has a transaction that is refused.          *)
(***************************************************************************)
FailsFor(error) ==
  \/ error /\ UNCHANGED failures
  \/ failures < MaxFailures /\ failures' = failures + 1

-----------------------------------------------------------------------------
\* Mutant of StartPass: the ceiling is one block too low.
StartPassShort ==
  LET start == scanned_to + 1
      end == Least(Tip, start + MaxBlocks - 2)
      tree_from == SyncedTo + 1
      tree_to == Least(Tip - TreeLag, tree_from + MaxBlocks - 1)
      fed == tree_from .. tree_to
  IN /\ pass = NoPass
     /\ exclusive => sync = {} /\ reseeding \notin Pools
     /\ end >= start
     /\ pass' = [feed |-> fed, scan |-> (start .. end) \ fed, end |-> end, found |-> {}]
     /\ UNCHANGED <<chainVars, sent, store, sync, reseeding, reseeds, failures, exclusive,
                    watcherVars>>

(***************************************************************************)
(* Scanner::observe from above where the watcher is: the trees first, from *)
(* where they stopped to the lag; then the blocks of the range that were   *)
(* not fed in this pass.                                                   *)
(***************************************************************************)
StartPass ==
  LET start == scanned_to + 1
      end == Least(Tip, start + MaxBlocks - 1)
      tree_from == SyncedTo + 1
      tree_to == Least(Tip - TreeLag, tree_from + MaxBlocks - 1)
      fed == tree_from .. tree_to
  IN /\ pass = NoPass
     /\ exclusive => sync = {} /\ reseeding \notin Pools
     /\ end >= start
     /\ pass' = [feed |-> fed, scan |-> (start .. end) \ fed, end |-> end, found |-> {}]
     /\ UNCHANGED <<chainVars, sent, store, sync, reseeding, reseeds, failures, exclusive,
                    watcherVars>>

PassFeeds ==
  LET h == Lowest(pass.feed)
  IN /\ pass.feed # {}
     /\ FeedBlock(h)
     /\ pass' = [pass EXCEPT !.feed = @ \ {h}, !.found = @ \cup FeedFound(h)]
     /\ UNCHANGED <<chainVars, sent, sync, reseeding, reseeds, failures, exclusive, watcherVars>>

\* The spends_ours of a scanned transaction, from the stores as they are.
Known == UNION {s.spent \cup Held(s) \cup InFlight(s) : s \in {store[p] : p \in Pools}}

ScanRefuses(h) == h <= Tip /\ \E tx \in chain[h] : Unattributable(tx, TRUE, Known)

PassScans ==
  LET h == Lowest(pass.scan)
  IN /\ pass.feed = {} /\ pass.scan # {}
     /\ h <= Tip
     /\ ~ ScanRefuses(h)
     /\ pass' = [pass EXCEPT !.scan = @ \ {h}, !.found = @ \cup Observed(h, TRUE)]
     /\ UNCHANGED <<chainVars, sent, store, sync, reseeding, reseeds, failures, exclusive,
                    watcherVars>>

(***************************************************************************)
(* A pass ends with an error: nothing of it reaches the watcher.           *)
(***************************************************************************)
PassFails ==
  /\ \/ /\ pass.feed # {}
        /\ FeedBlockFails(Lowest(pass.feed))
        /\ FailsFor(Lowest(pass.feed) > Tip \/ FeedRefuses(Lowest(pass.feed)))
     \/ /\ pass.feed = {} /\ pass.scan # {}
        /\ FailsFor(Lowest(pass.scan) > Tip \/ ScanRefuses(Lowest(pass.scan)))
        /\ UNCHANGED store
  /\ pass' = NoPass
  /\ UNCHANGED <<chainVars, sent, sync, reseeding, reseeds, exclusive, watcherVars>>

(***************************************************************************)
(* A pass ends well: the watcher polls a snapshot whose tip is the last    *)
(* height scanned, and credits by height and then by id.                   *)
(***************************************************************************)
InOrder(found, from, to) ==
  FlattenSeq([i \in 1 .. to - from |->
                Ascending({d.txid : d \in {e \in found : e.height = from + i}})])

\* Mutant of EndPass: the snapshot's tip is the chain's.
EndPassRealTip ==
  LET safe == Tip - (Confirmations - 1)
      fresh == {d \in pass.found : d.height \in scanned_to + 1 .. safe /\ d.txid \notin credited}
  IN /\ pass # NoPass /\ pass.feed = {} /\ pass.scan = {}
     /\ IF safe > scanned_to
          THEN /\ scanned_to' = safe
               /\ credited' = credited \cup {d.txid : d \in fresh}
               /\ ledger' = ledger \o InOrder(fresh, scanned_to, safe)
          ELSE UNCHANGED watcherVars
     /\ pass' = NoPass
     /\ UNCHANGED <<chainVars, sent, store, sync, reseeding, reseeds, failures, exclusive>>

EndPass ==
  LET safe == pass.end - (Confirmations - 1)
      fresh == {d \in pass.found : d.height \in scanned_to + 1 .. safe /\ d.txid \notin credited}
  IN /\ pass # NoPass /\ pass.feed = {} /\ pass.scan = {}
     /\ IF safe > scanned_to
          THEN /\ scanned_to' = safe
               /\ credited' = credited \cup {d.txid : d \in fresh}
               /\ ledger' = ledger \o InOrder(fresh, scanned_to, safe)
          ELSE UNCHANGED watcherVars
     /\ pass' = NoPass
     /\ UNCHANGED <<chainVars, sent, store, sync, reseeding, reseeds, failures, exclusive>>

-----------------------------------------------------------------------------
(***************************************************************************)
(* Scanner::sync_notes, called up to where the trees may go.               *)
(***************************************************************************)
StartSync ==
  /\ sync = {} /\ reseeding \notin Pools
  /\ exclusive => pass = NoPass
  /\ LET start == SyncedTo + 1
     IN sync' = start .. Least(Tip - TreeLag, start + MaxBlocks - 1)
  /\ sync' # {}
  /\ UNCHANGED <<chainVars, sent, store, pass, reseeding, reseeds, failures, exclusive,
                 watcherVars>>

SyncFeeds ==
  /\ sync # {}
  /\ FeedBlock(Lowest(sync))
  /\ sync' = sync \ {Lowest(sync)}
  /\ UNCHANGED <<chainVars, sent, pass, reseeding, reseeds, failures, exclusive, watcherVars>>

SyncFails ==
  /\ sync # {}
  /\ FeedBlockFails(Lowest(sync))
  /\ FailsFor(Lowest(sync) > Tip \/ FeedRefuses(Lowest(sync)))
  /\ sync' = {}
  /\ UNCHANGED <<chainVars, sent, pass, reseeding, reseeds, exclusive, watcherVars>>

(***************************************************************************)
(* A payout takes a held note, and is broadcast.                           *)
(***************************************************************************)
PayOut(pool, position) ==
  /\ sync = {} /\ reseeding \notin Pools
  /\ Len(sent) < MaxPayouts
  /\ position \in store[pool].held
  /\ sent' = Append(sent, [note |-> store[pool].tree[position], pool |-> pool])
  /\ store' = [store EXCEPT ![pool] = Spend(@, position)]
  /\ UNCHANGED <<chainVars, pass, sync, reseeding, reseeds, failures, exclusive, watcherVars>>

(***************************************************************************)
(* Scanner::reseed: one pool, then the other, from the node's frontier     *)
(* before the vault's first block.  The walk that follows is sync_notes.   *)
(***************************************************************************)
Other(pool) == CHOOSE p \in Pools : p # pool

Reseed(pool) ==
  /\ reseeds < MaxReseeds[exclusive]
  /\ sync = {} /\ reseeding \notin Pools
  /\ exclusive => pass = NoPass
  /\ store' = [store EXCEPT ![pool] = FromFrontier(<< >>, SeedHeight)]
  /\ reseeding' = Other(pool)
  /\ reseeds' = reseeds + 1
  /\ UNCHANGED <<chainVars, sent, pass, sync, failures, exclusive, watcherVars>>

ReseedOther ==
  /\ reseeding \in Pools
  /\ store' = [store EXCEPT ![reseeding] = FromFrontier(<< >>, SeedHeight)]
  /\ reseeding' = "none"
  /\ UNCHANGED <<chainVars, sent, pass, sync, reseeds, failures, exclusive, watcherVars>>

ReseedFails ==
  /\ reseeding \in Pools
  /\ FailsFor(FALSE)
  /\ reseeding' = "stopped"
  /\ UNCHANGED <<chainVars, sent, store, pass, sync, reseeds, exclusive, watcherVars>>

-----------------------------------------------------------------------------
PassGoesOn == PassFeeds \/ PassScans \/ EndPass \/ PassFails
Watcher == StartPass \/ PassGoesOn

Settler ==
  \/ StartSync \/ SyncFeeds
  \/ \E pool \in Pools : Reseed(pool) \/ \E position \in store[pool].held : PayOut(pool, position)
  \/ ReseedOther

Failures == SyncFails \/ ReseedFails

Chain ==
  \/ \E block \in SUBSET (Deposits \cup Payouts) : Mine(block)
  \/ \E height \in 0 .. MaxHeight : Reorg(height)

Next == Watcher \/ Settler \/ Failures \/ Chain

Spec == Init /\ [][Next]_vars

(***************************************************************************)
(* Both threads go on, whatever excludes passes and syncs lets a pass in   *)
(* at last, and a chain that lost blocks to a reorganisation grows back: a *)
(* node only leaves a branch for one with more work.                       *)
(***************************************************************************)
Recover == Tip < highest /\ \E block \in SUBSET (Deposits \cup Payouts) : Mine(block)

FairSpec ==
  /\ Spec
  /\ WF_vars(Recover)
  /\ SF_vars(StartPass) /\ WF_vars(PassGoesOn)
  /\ WF_vars(SyncFeeds \/ SyncFails) /\ WF_vars(ReseedOther)

-----------------------------------------------------------------------------
Txs == Deposits \cup Payouts
Heights == 0 .. MaxHeight

(* The type invariant: notes held are leaves of the tree, checkpoints are bounded. *)
TypeOK ==
  /\ chain \in Seq(SUBSET Txs) /\ highest \in Heights /\ reorgs \in 0 .. MaxReorgs
  /\ \A i \in DOMAIN sent : sent[i] \in [note : Txs, pool : Pools]
  /\ \A p \in Pools :
       /\ store[p].tree \in Seq(Txs)
       /\ store[p].held \cup store[p].in_flight \subseteq DOMAIN store[p].tree
       /\ store[p].held \cap store[p].in_flight = {}
       /\ store[p].spent \subseteq Txs
       /\ store[p].synced_to \in Heights
       /\ Len(store[p].checkpoints) <= CHECKPOINT_DEPTH
  /\ pass.feed \cup pass.scan \subseteq Heights /\ pass.end \in Heights
  /\ sync \subseteq Heights /\ reseeding \in Pools \cup {"none", "stopped"}
  /\ scanned_to \in Heights /\ credited \subseteq Deposits /\ ledger \in Seq(Deposits)

\* Nothing has happened that tears the trees: a reseed in another thread's pass
\* (see README), or one that stopped between the pools (see NoBlockTwice), until
\* a later one has replaced both trees.
Whole ==
  /\ exclusive \/ reseeds = 0
  /\ reseeding = "none" \/ (reseeding \in Pools /\ reseeds = 1)

(***************************************************************************)
(* Each tree has the leaves of the chain up to where it is synced, so that *)
(* its root is one the chain had and its witnesses are accepted: a block   *)
(* is appended once, whole and in order, although two threads feed blocks, *)
(* passes fail within one, and the chain reorganises above the lag.        *)
(***************************************************************************)
TreesAreTheChains ==
  Whole =>
    \A p \in Pools :
      /\ store[p].synced_to <= Tip
      /\ store[p].tree = FlattenSeq([h \in 1 .. store[p].synced_to |-> Leaves(p, chain[h])])

(***************************************************************************)
(* A block that is in a tree is never appended to it again: a scan "must   *)
(* not append it twice, and this is what stops it" (NoteStore::synced_to). *)
(***************************************************************************)
NoBlockTwice ==
  \A p \in Pools : \A i, j \in DOMAIN store[p].tree :
    store[p].tree[i] = store[p].tree[j] => i = j

(***************************************************************************)
(* A payout is never offered a note that another payout spends, or that is *)
(* spent on the chain up to where its store is; until a reseed, which      *)
(* forgets what is in flight.                                              *)
(***************************************************************************)
HeldIsUnspent ==
  \A p \in Pools :
    LET gone == SpentBy(UNION {chain[h] : h \in 1 .. Least(store[p].synced_to, Tip)})
        promised == {sent[i].note : i \in DOMAIN sent}
    IN /\ Whole => Held(store[p]) \cap gone = {}
       /\ reseeds = 0 => Held(store[p]) \cap promised = {}

(***************************************************************************)
(* The vault's own payouts never stop a pass: a payout is recognised by    *)
(* the note it spends, in whichever order the two threads come to see the  *)
(* spend (the comment on NoteStore::spent), until a reseed forgets it.     *)
(***************************************************************************)
OwnPayoutsAreKnown ==
  reseeds = 0 => \A tx \in Payouts : Spends(tx) \subseteq Known

(***************************************************************************)
(* A deposit at or below the height the watcher has scanned to was         *)
(* credited: it will not look there again.                                 *)
(***************************************************************************)
NothingPassedOver ==
  \A h \in 1 .. Least(scanned_to, Tip) : \A tx \in chain[h] :
    Credits(tx, TRUE) => tx \in credited

SafeHeight == Tip - (Confirmations - 1)

(***************************************************************************)
(* A confirmed deposit is credited in the end, whatever fails or stops     *)
(* passes meanwhile, if they and the settler's syncs exclude each other.   *)
(***************************************************************************)
ConfirmedIsCredited ==
  \A d \in Deposits :
    (exclusive /\ \E h \in 1 .. SafeHeight : d \in chain[h])
      ~> ~ Credits(d, TRUE) \/ d \in credited

(***************************************************************************)
(* If passes and syncs exclude each other, the watcher behind a Scanner    *)
(* still implements the ledger of the final deposits, with passes that     *)
(* fail or are cut short by max_blocks and blocks the settler fed first.   *)
(***************************************************************************)
FinalHeight == IF exclusive /\ highest > MaxReorg THEN highest - MaxReorg ELSE 0

FinalBlocks ==
  [h \in 1 .. FinalHeight |-> Ascending({tx \in chain[h] : Credits(tx, TRUE)})]

LedgerNow == [w \in {"watcher"} |-> IF exclusive THEN ledger ELSE << >>]

Ledger == INSTANCE DepositLedger WITH
            Watchers <- {"watcher"}, final <- FinalBlocks, ledger <- LedgerNow

(* The watcher's reports from the scanner's passes are what the ledger promises. *)
ImplementsDepositLedger == Ledger!Spec
=============================================================================
