# Verification of zec-multisig

TLA+ models, TLC runs and TLAPS proofs for the crate `zec-multisig` (`src/`): threshold custody of
a shielded Zcash vault. Source paths below are relative to `src/src/`.

## 1. The system

A vault is one FROST key whose shares are held by *custodians*. Deposits to it are found by a
*scanner* and reported to a VM by a *watcher*; payouts out of it are built from a *note store* and
signed by a quorum of custodians. The key is made in a ceremony, in one process or over a relay.

| Part (files) | State it keeps | Operations | What makes it correct |
|---|---|---|---|
| Participant (`custodian.rs`, `signing.rs`) | open requests: message, randomizers, nonces, time | `round1`, `round2`, `drop_expired` | a nonce signs once; a share is for what was committed; all of a request or nothing |
| Custody daemon (`custody_net.rs`) | up to three participants behind a mutex | frames in, replies out | one call at a time; vaults are not confused |
| Coordinators (`payout.rs` `sign_all_with`, `ed25519.rs` `sign_with`, `sign_across`; quorums in `signing.rs`, `custody_net.rs`) | answers of one attempt | two rounds over all custodians | only a threshold's endorsement of one attempt signs; failures have causes; attempts end |
| Watcher (`watcher.rs`) | height scanned to, transactions credited, next index | `poll`, `rewind_to`, `resume`, `audit` | each final deposit once, in order, densely indexed, covered by an attestation |
| Note store (`notes.rs`) | commitment tree with checkpoints; notes held, in flight, spent | `append`, `hold`, `begin_block`, `rewind`, `spend`, `spend_nullifier`, `select` | the tree is the chain's; what is held is unspent |
| Scanner (`shielded.rs`) | two stores, addresses handed out | `observe`, `sync_notes`, `feed_block`, `reseed`, `forced`, `app_payments`, `anchors` | no block twice, none passed over; own payouts recognised; every note is one thing |
| Payouts (`payout.rs`) | one payout being built, its envelope | `build`, `assemble`, `sighash` ... `extract` | nothing lost to fees; the due fee; paid once |
| Key generation (`dkg_net.rs`, `ceremony.rs`, `ed25519.rs` `provision`) | round packages at a relay; secrets per participant | parts one to three, relay polling | one group key; a threshold that is a majority |
| Share files (`shares.rs`) | a directory | `save`, `load` | a ceremony loads whole or not at all |
| Arithmetic (`amount.rs`) | none | `checked_add`, `mul_div`, `mul_div_ceil` | exact, absent on overflow, no value made by rounding |
| Memos (`memo.rs`) | none | one parser a kind of memo | a memo has one meaning |
| Block server (`lightd.rs`, `compact.rs`) | none | requests, answers, compact blocks | a cut answer is no shorter answer |
| Node (`zebra.rs`) | none; several calls a question | `observe`, `confirmations` | what the calls amount to is of the chain |
| Sweeps (`transparent.rs`) | a plan | `shield` | all that was put in comes out but the fee |

How the parts interact. A coordinator calls each custodian in turn over a socket, or in its own
process; a call can time out at the coordinator and be handled afterwards. Custodians restart and
forget their requests. The watcher and the settler are two threads of the owner's program (which
is not in this repository) that share one scanner: `feed_block` locks both stores, everything
between two blocks of a pass interleaves. The chain grows, reorganises, changes between two calls
to the node, and may be unreachable. A ceremony's participants meet at a relay only, which keeps
the last package each has posted, in memory.

What is hard here: retries and late frames that meet the one-time nonces; two readers that
feed one tree; failures in the middle of a block, a pass or a reseed; reorganisations under a
cursor; a restart that forgets; a participant that is run again in the middle of a ceremony; a
fee that depends on itself. `PROJECT.json` lists every such hazard at its line, with the
properties that look after it or the reason there is none.

## 2. The modules

```
ThresholdSigning <= Signing --INSTANCE--> Participant     ParticipantProofs, SigningProofs
DepositLedger    <= Watcher --EXTENDS--> Logs                               WatcherProofs
DepositLedger    <= Scanner --EXTENDS--> NoteStore                          ScannerProofs
                    Payout  --EXTENDS--> NoteStore                          PayoutProofs
Ceremony         <-- Dkg                                                    DkgProofs
MCValues --EXTENDS--> FixedPoint, Shares, Transparent, Zebra (--> Logs),     ValuesProofs
                      Deposits (--> Memo, Logs), LightClient (--> Wire, Logs)
```

(`<=`: is implemented by. On the right, the modules that hold theorems. `SigningProofs`, `WatcherProofs`,
`ScannerProofs`, `PayoutProofs` and `ValuesProofs` cite the lemmas of `DataLemmas`.)

**Protocols.**

- **Participant** — the share holders under *any* caller. `live` is the set of open requests,
  `drawn` how many nonces were generated; `opened` and `released` are the history of commitments and
  shares. Round one is `Round1` / `Round1AlreadyOpen` (both sweep, as the code does first), round two
  `Round2` / `Round2Refused` (which takes the request out all the same), and there are
  `DropExpired`, `Restart` and `SetClock`. A nonce is a number per holder, an action's share a record
  of the nonce, the randomizer and the package it was made for; FROST is abstracted to that pairing.
  The two kinds of participant, for RedPallas and for Ed25519, differ in the number of actions of a
  request and in what is hashed, and are one module.
- **Signing** — the coordinators, driving participants through the actions of `Participant`. An
  attempt asks the addresses in order; each call is answered, refused, or missed, and a missed
  frame may stay in `late` and be handled at any later time. `driver` is one of `remote`
  (`RemoteQuorum`), `local` (`LocalQuorum`) and `treasury` (`sign_across`); they differ in whom
  round two asks and in when round one stops.
- **ThresholdSigning** — what that promises: holders endorse attempts, and an attempt is
  signed only if a threshold endorsed *it*. The refinement mapping takes a holder's endorsement of an
  attempt to be the release of a share for each of the attempt's packages.
- **Ceremony** — the rounds as functions of the packages a participant holds, `Ceremony::new`,
  `Treasury::provision`, and `run_for`, which compares group keys. A package is known by the number of
  its sender's run; as two sets of random polynomials have different sums, what a participant has
  seen *is* the group key it derives.
- **Dkg** — participants that post, poll, post, poll and assemble; a relay that overwrites; calls
  that fail while what they posted arrives later (`Interrupted`, `LatePost`), participants run again
  (`RunAgain`), polls that run out of tries, a relay that forgets.
- **Watcher** — any number of watchers over one chain that reorganises. `Poll` is the whole of
  `poll` together with the submission of its actions; `PollFailedView` a poll during which the view
  failed on some heights, and the rewind that follows; `Resume` a restart. `reported` is what the VM was
  given, a log of credits and attestations.
- **Logs** — what is said of logs: the entries of a kind, and the sum of their amounts.
- **DepositLedger** — what a watcher promises: the deposits of final blocks, each once, in the
  order of the chain. Used for `Watcher` and for the watcher behind `Scanner`.
- **NoteStore** — the store of one pool as a value: tree (the sequence of its leaves), checkpoints,
  positions held and in flight, notes spent, and the operators that are the store's methods.
- **Scanner** — two stores, a pass of `observe` step by step (`StartPass`, `PassFeeds`, `PassScans`,
  `PassFails`, `EndPass`, which includes the watcher's poll of the snapshot), the settler's
  `sync_notes` (`StartSync`, `SyncFeeds`, `SyncFails`), payouts and `reseed` (one step per pool, as it
  takes each store's lock separately). `exclusive` says whether the owner keeps passes and syncs
  apart: the repository does not, and both cases are considered.
- **Payout** — the passes of `build`'s fee loop, each of which selects notes, the largest first, then sealing or failing, broadcast, the store's
  forgetting of the notes, expiry, and rebuilding by the owner. Value is counted exactly.

**Algorithms.** An operation that may refuse gives a set, empty if it does.

- **FixedPoint** — signed words of `2 * H` bits, the product of two as two words, long division bit
  by bit, both roundings, against integer arithmetic.
- **Memo**, **Deposits** — memos by what their parsers look at; the scan of a transaction (strict
  and lenient), `classify_addressed` in the order it tries its readings, and the readers that page
  through the chain.
- **Wire**, **LightClient** — strings of fields that may be cut anywhere; the server's requests and
  answers, the compact block and what a scan of it finds.
- **Zebra** — `observe` and `confirmations` as sequences of calls, each answered by the chain of its
  time.
- **Transparent** — the plan of a sweep and the transaction made of it.
- **Shares** — a directory, files truncated and written one by one, a save that may end anywhere.
- **MCValues** composes these into one behaviour: it chooses an input of one of them, or lets the
  directory live. The other **MC\*** modules give TLC its instances.

Definitions with a comment "Mutant of" are variants of another definition with a plausible bug. No
specification uses them; they document, per property, a change of the code that breaks it.

## 3. What the runs check

| Run (cfg) | Question | Result |
|---|---|---|
| participant (MCParticipant) | the nonce discipline and `RequestsKeptUntilDeadline` under arbitrary calls | holds, 32k states |
| signing (MCSigning) | two attempts at the same custodians, by each driver: `OnlyChosenContribute`, `FailsForCause`, `AttemptEnds`, refinement of `ThresholdSigning` | holds, 197k |
| ceremony (MCCeremony) | `MutualView`, `SameAsInMemory`, `RunEnds`, `Completes` with faults, late posts and reruns | holds, 274k |
| watcher (MCWatcher) | two watchers with restarts: `IndicesDense`, `CreditsCovered`, refinement of `DepositLedger` | holds, 94k |
| watcher_deep (MCWatcherDeep) | one watcher, reorganisations of any depth, failing views: `CreditedOnce`, `AuditIsExact` | holds, 57k |
| scanner (MCScanner) | `TreesAreTheChains`, `HeldIsUnspent`, `OwnPayoutsAreKnown`; refinement of `DepositLedger`; `ConfirmedIsCredited` | holds, 443k |
| payout (MCPayout) | `Conserved`, `FeeIsDue`, `PaidOnce`, `InFlightIsPending` | holds, 224k |
| values (MCValues) | each algorithm over all inputs of a small size: `ProductsScale`, `NotesAreOneThing`, `ReadersSeeAll`, `MessagesArrive`, `SnapshotsHold`, `SweepsMoveAll`, `MixedForCause` | holds, 380k |
| scanner_race (MCScannerRace) | is nothing passed over if passes and syncs interleave? | **violated** |
| scanner_issued (MCScannerIssued) | is a deposit at an issued address credited? | **violated** |
| scanner_reseed (MCScannerReseed) | is no block appended twice, also after a reseed that stopped? | **violated** |
| ceremony_agreement (MCCeremonyAgreement) | do participants that finish have one group key? | **violated** |

### The violated ones

1. **A block passed over** (`shielded.rs:817`). `observe` plans to feed heights it then excludes from
   its scan as "read once already, above". If `sync_notes` feeds one of them first, `feed_block` finds it
   in and returns no deposits, and the watcher is told the height was scanned.
2. **An issued address stops the scanner** (`shielded.rs:1120`). `feed_block` classifies without the addresses
   handed out; a memo-less deposit at one is refused there, at every pass, although the scan would
   credit it.
3. **A reseed that stops between the pools** (`shielded.rs:1025`). One store is back at the start, the
   other is not, and `feed_block` goes by the lower: the other tree gets blocks a second time.
4. **Two keys out of one ceremony** (`dkg_net.rs:585`). A participant posts both rounds, its process dies, and
   it is run again. The second participant has fetched the package of its first run, the third fetches that of
   its second run, which replaced it at the relay. The second participant finds the first run's round two at the relay
   and ends with a share; the third waits for the second run's and ends with a share, under another group key.
   Neither learns of it: the comparison of group keys that `ceremony.rs:201` makes has no counterpart over the
   network. What holds is `MutualView`, and `SameAsInMemory`: the keys agree if *all* finish.

### Where the code and its text differ, without a run

- `round2` has no clock: a request past its TTL can be signed until the next `round1` sweeps it
  (`custodian.rs:120`, against lines 29-30 and 52). `Participant` models the code.
- "Two passes settle it" (`payout.rs:287-288`): the loop gives up where a third would settle
  (`payout.rs:320`), for instance with five notes of 7500 zatoshi and a transparent payment of 7500
  from a restricted pool. `Payout` has the refusal as `RefuseUnsettled`.
- `encode_app_payment` takes a zero purpose, which decoding refuses; the text form of an account
  takes a `+` among its digits, as `from_str_radix` does.
- `anchors` also returns publications. A strict scan reports a top-up as a deposit of nobody.
- An `INFO` answer that ends before `estimated` is read as one of a node that has caught up.
- A note store's file cut at certain section boundaries still decodes, with the later sections empty.
- `Observed::balance_at` covers only the heights of its snapshot, from `from` on, and counts a
  transaction whose block was lost between two calls under height 0 (`zebra.rs:518`).
- Saving shares over an older ceremony's directory may, cut short, leave a mixture that loads:
  `MixedForCause` says exactly when.

### Bounds, and why they are enough

- *participant*: one holder (holders do not interact in this module), two request ids, messages and
  randomizer vectors of one and two actions, four nonces, three ticks of a clock against a TTL of two
  (it may also step back). So a request can be opened, refused, expire, be re-opened under the
  same id and be swept by another's call. Package lists have up to two packages with any nonce in the
  holder's place, also stale ones. Ids and messages are symmetric.
- *signing*: three custodians, threshold two, asked in the order opposite to their ids (the chosen
  are the lowest ids); two attempts that overlap in any way; for the remote driver one custodian may be
  lost, so that an attempt can both survive and fail, and the clock passes the deadline. `local`
  has an attempt of two actions and one of none; `treasury` uses one request id twice.
- *ceremony*: three participants, each run at most twice, one fault (a call, a process or the
  relay). One rerun between two fetches is what makes views differ, and takes three participants.
- *watcher*: two watchers, five blocks, three transactions (two outputs, another asset, a top-up and an
  empty payment), three confirmations against reorganisations of depth two; `watcher_deep` removes that relation.
- *scanner*: two deposits in different pools, one payout with its change, four blocks, a tree lag of one,
  two confirmations, passes of at most two blocks (so that passes are cut short), and one each of
  reorganisation, failure of the node and reseed. The tree remembers three checkpoints.
- *payout*: wallets of one to five notes, both kinds of pools, two lists of payments, three payouts, an expiry of
  two blocks within five.
- *values*: all triples of six-bit words (`H = 3`); a transaction of up to two outputs, one with any memo at
  any address; pages of zero to three blocks out of four; answers of up to two blocks or outputs, cut
  anywhere; chains of two to four blocks with two transactions that may change once, before any call;
  sweeps of up to three outputs, with values that exceed the money supply and, together, the word; directories
  with up to three ceremonies of two or three participants.

CHECK_DEADLOCK is off: every model stops when its bounds are used up, and the programs may idle.

### Fairness

- `Signing!FairSpec`: weak fairness of each attempt's coordinator only. Its function runs on, and every
  call returns by its timeout. Nothing is assumed of custodians, frames or the clock.
- `Dkg!FairSpec`: weak fairness of each participant's own thread: calls have a read timeout of thirty
  seconds, polls six hundred tries. Running a participant again, and the arrival of late posts, are not
  fair. `Completes` asks for no fault and that nobody gave up, which fairness cannot promise.
- `Scanner!FairSpec`: weak fairness of what a thread has begun (a pass, a sync, the second half of a
  reseed), as the functions run on and the node's failures are bounded; *strong* fairness of `StartPass`, as the
  watcher's loop tries again and again and whatever excludes it from syncs lets it in at last; and weak fairness
  of the chain growing back to a height it once had, since a node leaves a branch for one with more work only.
  Nothing obliges the chain to grow beyond that, the settler to sync, or payouts to be made.

## 4. What is proved

For every value of the constants, from the modules' named assumptions.

**ParticipantProofs** — any holders, request ids, messages, package lists and number of actions.

| Theorem | States |
|---|---|
| `TypeCorrect` | `Spec => []TypeOK` |
| `IInvHolds` | the inductive invariant below |
| `NonceSignsOnceHolds` | no nonce makes two different shares |
| `ShareKeepsCommitmentHolds` | shares are over the message, and under the randomizer, that were committed |
| `AllSharesOrNoneHolds` | a request is answered wholly or not at all |
| `LostNonceStaysLostHolds` | a nonce lost unsigned is never open or signed with again |
| `RequestsKeptHolds` | a request leaves by its deadline, a restart or its own round two |

`NonceSignsOnce` is not inductive: a state in which an open request covers a nonce that has already signed
satisfies it, and the next round two breaks it. The strengthening `IInv` adds that requests' nonces were drawn
(`NoncesDrawn`), that the ranges of two requests do not meet (`RequestsDisjoint`), that an open request is the
one the history has (`LiveWasOpened`), and that no nonce of an open request has signed (`SignedNotLive`). The
last is kept because round two takes the request out in the step that signs, the second because round one
draws above everything drawn. The other two invariants follow from the same facts, and the action properties
from `IInv` or from types alone.

**SigningProofs** — any custodians, threshold, attempts, drivers, order of asking, losses and late frames.

| Theorem | States |
|---|---|
| `DrivesParticipants` | every step of `Signing` is one of `Participant`, or leaves participants alone |
| `NoncesKept` | so nonces sign once and shares keep their commitment whoever coordinates |
| `TypeCorrect`, `IInvHolds` | the types, and the inductive invariant |
| `OnlyChosenContributeHolds` | shares come from those a coordinator chose, for its own packages |
| `SigningImplementsThresholdSigning` | the refinement: signed only with a threshold's endorsement of that attempt |
| `OwnInvHolds`, `FailsForCauseHolds` | an attempt with a request id of its own fails only if custodians were lost or its time ran out |

The composition comes first: as `Signing` calls participants through their own actions only, what is proved of
participants under any caller carries over, and its invariant is available here. `IInv` adds what ties an
attempt to the requests it opened: the nonces of two attempts at one holder are apart (`NoncesApart`; that
they were drawn is in `Base`), a frame of round two is late only once its attempt has come to round two
(`LateIsSettled`), shares an attempt collected were released by holders it chose (`SharesKept`), and an
attempt that goes on has something to sign (`ToSign`). From it: a request that answers a package opened for
another attempt would have a nonce of this one, and they are apart, so every share is endorsement of one
attempt.

`FailsForCause` speaks of the moment an attempt fails only, so what has to be kept is why it does not fail
before: `OwnInv`, for each attempt whose request id no other attempt has. A late frame is from a custodian
that was called and lost (`FramesLost`); nobody has the request open before it is called (`NotYetOpen`), so
round one is not refused; whoever was called has answered or was lost (`AnsweredOrLost`); within the TTL one
that answered keeps the request open, and as it was answered, until round two calls it (`StillOpen`); and what
the chosen ones have given by then is what aggregation takes from them (`SharesRight`). The work is in the
steps of *other* attempts, which may sweep, open and close requests at the same holders; they leave requests
of other ids alone unless these have expired.

**DkgProofs** — any number of participants, runs and faults.

| Theorem | States |
|---|---|
| `TypeCorrect` | `Spec => []TypeOK` |
| `ShareHoldersKnowEachOther` | `MutualView`: two that finish have each other's present run |
| `FinishedTogetherAgree` | `SameAsInMemory`: if all finish, all derive what the in-memory ceremony does |
| `QuorumsMeet` | two quorums of any ceremony `Ceremony::new` takes share a participant |

`MutualView` holds because a sealed package names both runs, and is not inductive by itself: `IInv` says that
nobody knows a run that has not begun (`Known`), that a run past its first poll, and what it posts from then
on, has a package of everyone (`Fetched`), that one run collects one snapshot of packages (`OneEach`), that
snapshots of two participants are in the order of their runs (`InOrder`: one that has a later run of the
other's was collected after it), and what a participant that is done knows of the others for good (`Settled`).
`QuorumsMeet` does not hold of what `provision` takes, which need be no majority.

**WatcherProofs** — any watchers, transactions, confirmations, and bounds on the chain, failures and restarts,
unless a theorem has a hypothesis.

| Theorem | Hypotheses | States |
|---|---|---|
| `TypeCorrect` | | `Spec => []TypeOK` |
| `IndicesAreDense` | | the credits of a VM are numbered 1, 2, 3, ... |
| `CreditedOnceUnlessRestarted` | no restart | no deposit is credited twice, however deep reorganisations are |
| `AuditExact` | no restart | the audit fails exactly if something credited is gone |
| `CreditedOnceIfSettled` | shallow reorganisations, no failed view | no deposit is credited twice, however often watchers restart |
| `CreditsAreCovered` | the same | no credit exceeds what was attested of its asset before |
| `WatchersImplementLedger` | the same | the refinement of `DepositLedger` |

"Shallow" is `MaxReorg <= Buried`: fewer blocks are undone than the confirmations asked for. One hypothesis or
the other is needed: a resumed watcher has no memory of what it credited (`watcher.rs:185`), so after a
restart only the depth of what is final keeps it from crediting again. After a pass in which the view failed
the watcher goes back to where the pass began and finds the rest at a later one, so that its credits are no
longer in the order of the chain, and only its memory keeps it from giving the first ones again. The run
`watcher` is an instance with the hypotheses of the last three rows, `watcher_deep` one without restarts.

- `DenseInv`: the next index is one more than the credits given. Each poll appends a block of consecutive
  numbers, and a restart reads the next one from the VM.
- `RemembersInv`: the transactions a watcher remembers are those of its credits, and blocks of a chain are
  apart. So what it finds anew meets nothing it credited, also on another branch.
- `SettledInv`: no watcher has scanned beyond the blocks that are final, and its deposits are exactly those of
  the chain up to there, `CreditsThrough(scanned_to)`. That a poll appends the deposits of the blocks between
  is the step of the refinement as well: the ledger's log is a prefix of the final chain's, and a poll makes
  it a longer one. `CoveredInv` adds `CreditsCovered`: a poll's attestation of an asset is of the balance at
  the safe height, which covers every deposit up to it.

**PayoutProofs** — any payments, wallets, expiry and number of payouts.

| Theorem | States |
|---|---|
| `PaidOnceHolds` | however payouts are rebuilt, sent late, forgotten and mined, a want is paid once |
| `IInvHolds` | of the payouts of one want, at most the last can still land |
| `BooksHold` | store, `build` and payouts agree, below |
| `TypeCorrect` | `Spec => []TypeOK` |
| `SelectedCovers` | the notes that are selected cover the amount whenever those held do |
| `FeeIsDueHolds` | each payout pays the fee due for the transaction it is |
| `InFlightIsPendingHolds` | a note in flight is of a payout that was sent and forgotten, and no note of a mined payout is held or in flight |
| `ConservedHolds` | the vault's notes and all that was paid out are worth what came in |

`PaidOnce` says nothing of payouts that are not mined yet, and two of those for one want break it. `OneAlive`
excludes them: the owner begins a want when none of its payouts is alive, and this stays so until `build`
ends, as a payout whose attempt failed or whose expiry has come is never alive again (`DeadStays`) and the
chain takes none from its expiry on.

The totals rest on `Books`. The store is determined by the sets held, in flight and spent (`StoreShape`), as
folding its operations over a payout's notes moves exactly these (`NotesTaken`, `NullifiersSeen`). Every
payout's notes are worth what it pays, its fee and its change, and the fee is the one due (`Priced`): a pass
of `build` that settles has selected enough by `SelectedCovers`. And a note is unspent or was spent by a
payout that is mined (`Accounted`), so that mining takes all of a payout's notes from the unspent ones, and
what the vault loses by it is what `Priced` says.

**ScannerProofs** — any deposits, tree lag, confirmations, length of a pass, and number of reorganisations,
payouts, reseeds and failures, unless a theorem has a hypothesis.

| Theorem | Hypotheses | States |
|---|---|---|
| `TypeCorrect` | | `Spec => []TypeOK` |
| `PayoutsStayKnown` | | `OwnPayoutsAreKnown`: until a reseed, no payout of the vault's is taken for a stranger's |
| `TreesFollowTheChain` | lagging trees | each tree is the chain's, up to where it is synced |
| `HeldNotesAreUnspent` | lagging trees | what is held is spent neither on the chain nor by a payout |
| `OnlyReseedsRepeatBlocks` | lagging trees, whole ones | `NoBlockTwice` |
| `ExclusionPassesNothingOver` | shallow reorganisations, exclusion | `NothingPassedOver` |
| `ScannerImplementsLedger` | shallow reorganisations, exclusion | the refinement of `DepositLedger` |

"Lagging trees" is `MaxReorg <= TreeLag`, what `with_tree_lag` asks of its caller ("a block at the tip can be
reorganised away, and a tree that appended it names roots the chain never had"); "shallow" is
`MaxReorg <= Confirmations - 1`, the depth the watcher credits at. Neither follows from the code, which takes any two numbers.
"Whole" and "exclusion" are what the runs `scanner_reseed` and `scanner_race` lack: the two theorems with these
hypotheses say that nothing else brings about what those runs show. What tears the trees (`Whole`) is a reseed that
goes on beside a pass, or one that stopped between the pools until a later one has replaced both: with a reseed
behind it, a second one that stops can tear them again, which is why `Whole` allows a reseed under way only if it is
the first.

- *Feeding.* `feed_block` is a fold over the transactions of a block, each a fold over what it spends. Following it
  one transaction at a time (`BlockFed`) shows what one step of the model does to a store: the block's leaves
  come behind the tree, what it spends leaves the held and the in-flight notes, and nothing of ours
  is forgotten. A feed that fails rewinds to the checkpoint before it, which gives the tree back (`BlockUndone`).
- `KnownInv`: the note a payout spends is spent, in flight or (after a rewind) still remembered. This is `PayoutsStayKnown`.
- `TreesInv`: what makes the next block to be fed the one behind the tree. What a thread has left to feed begins where the trees
  end, without gaps, or is in already (`Feeding`), *although the other thread may have fed it first*; both trees
  stand at one height (`Level`), as `feed_block` looks at the lower one; nothing within reach of a
  reorganisation is in a tree or about to be (`Lagging`); and during a reseed nobody feeds (`Reseeding`).
- `SpentInTree` and `Promised`: a leaf is in a tree once, because its block is on the chain once, so that a note
  that left the held ones cannot come back under another position; and the chain has a note before its spend.
- `FoundInv`: of every height a pass has done, what it found is what the chain credits there. A block that
  `feed_block` accepts has nothing that only an address names, so that the two ways of reading it agree; exclusion
  is needed because a block the settler fed first yields nothing. `LedgerInv`: what was credited is what the chain credits
  up to `scanned_to`, which is out of reach of reorganisations.

**ValuesProofs** — the algorithms of `values`, for inputs of any size; the rows with a run's property state
it for `MCValues` with any accounts, addresses and word size (`InputsAssumption` says only that those the
inputs are made of are among them).

| Theorem | States |
|---|---|
| `ScalingIsExact` | a product scaled down is the exact quotient, rounded as asked, and absent exactly where it does not fit |
| `RoundingMakesNoValue` | converted one way rounded down, and back, no amount grows |
| `ProductsAlwaysScale` | both, of the inputs of the runs: `ProductsScale` |
| `SweepsMoveEverything` | a sweep moves all it was given but the fee, *if its total, counted in a word, is the exact one* |
| `FewOutputsMoveEverything` | which is so of fewer outputs than it takes to fill a word with all the money there is |
| `SweepsAlwaysMoveAll` | `SweepsMoveAll`, if a word holds three times all the money |
| `NotesAreOfOneKind` | every note of the vault's that is classified is exactly one thing, in transactions of any length |
| `ReadingsOfTransactionsAgree` | a strict scan and a classification agree on whose money it is |
| `NotesAreAlwaysOneThing` | both: `NotesAreOneThing` |
| `ReadersReadOnce` | in a chain of any length, pages of any size read every sighting once and in order |
| `ReadersAlwaysSeeAll` | `ReadersSeeAll` |
| `DepthsAreOfChains` | a depth is that of the transaction's block in a chain the node had |
| `SnapshotsAreOfTheChain` | a snapshot has the deposits of every block that stayed, and its balance is theirs and what lost its block |
| `SnapshotsAlwaysHold` | both: `SnapshotsHold` |
| `ScansFindWhatIsThere` | a scan of a compact block that was sent finds what the full block has, where it is there; of one cut anywhere nothing is read |
| `RequestsArrive` | a request is decoded as it was meant, and cut anywhere it is refused |
| `AnswersArrive` | so is an answer with any number of blocks or outputs, but for one about the node that lacks only its estimate |
| `MessagesAlwaysArrive` | the three: `MessagesArrive` |
| `DirInvHolds`, `MixedForCauseHolds` | `MixedForCause`, for any number of ceremonies of any sizes saved in one directory, cut short anywhere |

- *Sweeps.* `plan` adds up the values in a `u64` (`transparent.rs:189-220`), which wraps in a build without overflow
  checks. That takes more than eight thousand outputs of the whole money supply each; the hypothesis names the case,
  and no sweep of outputs of a chain meets it.
- *Products.* A product is put together from products of halves of words, none of which loses a carry
  (`ProductIs`); the long division keeps `dividend = quotient * divisor + rest` of the bits shifted in so far, and one
  shift of the rest exceeds a word by one bit at most (`StepDivides`).
- *Notes.* An output that is money and claims no application has one owner or none (`OwnersAre`), and who that is
  does not depend on whether the attribution is looked at before or after the memo (`ReadingsAgree`).
- *Readers.* What is selected from logs in the order of the chain, and what is put together of them, is in that order
  (`OrderedSelect`, `OrderedFlatten`). Every page gets on (`PageIs`), and after any number of pages what was read is
  what one page up to there would have (`PagedIs`).
- *Snapshots.* Each call is answered by one of two chains; each transaction is in one block of each at most. So the list
  that the later calls work from lists block by block (`ListedAre`), the deposits a snapshot has of a height are those of
  the block there (`BlocksAgree`), none is of a height before the first asked for but those without a block
  (`NoneEarlier`), and a balance adds up block by block (`BalanceOfBlocks`).
- *Messages.* A reader is the number of fields it has read, so what a decoder makes of a string depends on what the
  string *holds* from some field on (`Holds`). What holds several parts put together holds each where the one
  before it ends (`HoldsEach`); a count and its records are then read as they were written (`ManyArrive`), by
  induction the transactions of a block (`TxsHeld`), and a block is the value of a field of the answer that
  carries it. A string that was cut is intact up to some field and has at most a partial one behind
  (`CutsAre`). So whatever is read of it ends where it does in the whole string, and within the part that
  arrived (`HasArrived`, `ManyArrived`, `TxArrived`): a reader that needs all of the string is refused.
- *Shares.* `public.bin` is written last, so it names a ceremony whose shares were all written (`Written`), and its
  files are overwritten by later ceremonies only (`Newer`); of those, one was cut short or is being saved (`Ended`).

**DataLemmas** — concatenating, selecting from and adding up logs of any length, and adding up over finite
sets. The library's induction theorems take an operator, which no installed prover instantiates; here
induction is over *sets* instead. A set of numbers has a least element, so one that has zero and is closed
under successor has all (`NaturalInduction`), and the same of sequences under `Append` and of the subsets of a
finite set. That the recursive functions inside `FlattenSeq`, `Total` and `SumFunctionOnSet` exist, and are
unique, is proved in this way.

**Model-checked only**: liveness (`AttemptEnds`, `RunEnds`, `Completes`, `ConfirmedIsCredited`), which with
`ENABLED` is out of the prover's reach. Every safety invariant and action property of the runs has a theorem.

## 5. What is not modelled, and why

- Cryptography: FROST, proofs, key derivation and encryption are replaced by what they guarantee. Decryption of
  a note is a property of the transaction. `VaultIdentity`, the derivation of receivers and `account.rs` are
  such derivations; `base58.rs`, the printing and parsing of decimals, JSON and hex are conversions.
- The custody daemon's routing of a frame to one of the up to three vaults it holds: vaults share nothing. Its
  framing and the relay's are I/O, as are sockets and HTTP.
- The note store's witnesses (a tree library's) and its encoding on disk. When stores are saved is not in this
  repository, so a restart of the scanner is no step of `Scanner`; what it could bring about, stores of different
  heights, is what a reseed that stopped leaves (`scanner_reseed`).
- The owner's program: which thread calls what when. It is an environment that may do what the API allows, with
  the restrictions named in the modules' headers. In particular, in `Scanner` a reseed while a
  *pass* is running is left out of the checked cases: the trees are then replaced under blocks the pass
  still means to feed, and `TreesAreTheChains` says nothing of it.
- `verify_network`, `chain_info` and `tree_state_of` of the node: single reads.
- Reorganisations deeper than the confirmations are in `watcher_deep` only. A *resumed* watcher is not safe
  against them: it starts with no memory of what it credited (`watcher.rs:185`).
- A payout that expires keeps its notes in flight for ever: the store has no operation that gives them
  back, and a vault without other notes can only rebuild the payout after a reseed. `Payout` models that (nothing leaves
  `in_flight` but by the chain) and states no property against it.
- A loss of power under `Shares`: files are written, not synced; only the process may stop.
- In `FixedPoint`, a carry the long division looks at is dead when called from `mul_div`, whose divisor is at most
  `2^127`; the script length check of `shield` cannot be reached after the comparison before it.

## 6. What is left

1. Several shares in one custody daemon; the note store's encoding.
2. A restart of the scanner from saved stores, once it is decided when they are saved.

Running it: `tlc -workers 2 -config MCSigning.cfg MCSigning` and so on, with the modules of the table in
`PROJECT.json` (`Dkg` for both ceremony runs); `tlapm SigningProofs.tla` and the like for the proofs. The
whole takes some minutes.
