------------------------------- MODULE MCValues -------------------------------
(***************************************************************************)
(* The algorithms of the project over bounded inputs: a behaviour chooses  *)
(* one input of one algorithm, and the invariants compare what the code    *)
(* computes from it with what is expected of it.  A behaviour may instead  *)
(* be one of a directory of shares.                                        *)
(***************************************************************************)
EXTENDS FixedPoint, Deposits, LightClient, Shares, Zebra, Transparent

CONSTANTS alice, bob, issued, toNobody, unissued

ASSUME InputsAssumption == alice \in Accounts /\ bob \in Accounts /\ issued \in Indices

VARIABLE input

-----------------------------------------------------------------------------
HandedOut == [i \in {issued, toNobody} |-> IF i = issued THEN alice ELSE Nobody]

NotOurs == [ours |-> FALSE, memo |-> Padded("", "bytes"), index |-> NoIndex]
Ours(memo, index) == [ours |-> TRUE, memo |-> memo, index |-> index]

\* The outputs that may follow the one under test.
Second ==
  {<<>>, <<NotOurs>>, <<Ours(Padded("", "bytes"), VaultIndex)>>,
   <<Ours(Encode(bob), issued)>>, <<Ours(Padded("ZEA", "bytes"), VaultIndex)>>}

\* Three transactions a block, one of them unreadable now and then, a sighting of each
\* kind in every other block.
Frame == [length |-> "fits", signer |-> bob]
Payment == [purpose |-> 1, reference |-> 1, recipient |-> bob]
Chain ==
  [h \in 1 .. 4 |->
     << <<Ours(EncodePublication("bytes"), VaultIndex), Ours(Padded("ZEF", Frame), issued)>>,
        IF h % 2 = 0 THEN << >> ELSE <<NotOurs, Ours(Padded("ZEB", Payment), NoIndex)>>,
        <<Ours(Padded("ZEA", "bytes"), VaultIndex), Ours(Encode(alice), VaultIndex)>> >>]

Pages ==
  [algorithm : {"pages"}, kind : {"forced", "app_payments", "anchors"}, from_height : 1 .. 2,
   max_blocks : 0 .. 3, from : 1 .. 4, to : 0 .. 4]

Arithmetic == [algorithm : {"arithmetic"}, a : Words, b : Words, den : Words]

-----------------------------------------------------------------------------
Requests ==
  [op : {"INFO"}] \cup [op : {"BLOCKS"}, from : 0 .. 1, count : 0 .. MAX_BLOCKS + 1]
    \cup [op : {"TX"}, txid : {"t"}] \cup [op : {"SEND"}, raw : {"r"}]
    \cup [op : {"TREESTATE"}, height : 0 .. 1, pool : 0 .. 1]
    \cup [op : {"UTXOS"}, address : {"a", TooLong}]

Lists == {<< >>, <<"mine">>, <<"else">>, <<"else", "mine">>}
Blocks == UNION {[1 .. n -> [orchard : Lists, ironwood : Lists]] : n \in 0 .. 2}
Compacts ==
  {<< >>} \cup {<<CompactBlock(1, b)>> : b \in Blocks}
    \cup {<<CompactBlock(1, b), CompactBlock(2, <<b[1]>>)>> : b \in {b \in Blocks : b # << >>}}
Utxo(i) == [txid |-> "t", index |-> i, value |-> i, height |-> 1, script |-> "s"]

Answers ==
  [op : {"INFO"}, network : {1}, tip : 1 .. 2, branch : {0}, estimated : 0 .. 3]
    \cup [op : {"BLOCKS"}, blocks : Compacts]
    \cup [op : {"TX"}, raw : {"r"}] \cup [op : {"SEND"}, txid : {"t"}]
    \cup [op : {"TREESTATE"}, root : {"root"}, frontier : {"f"}]
    \cup [op : {"UTXOS"}, utxos : {[i \in 1 .. n |-> Utxo(i)] : n \in 0 .. 2}]

LightClientInputs ==
  [algorithm : {"request"}, request : Requests] \cup [algorithm : {"answer"}, answer : Answers]
    \cup [algorithm : {"block"}, block : Blocks]

-----------------------------------------------------------------------------
\* A chain that may change once while a node is asked: two transactions, each in some
\* block or none, before and after.
ChainOf(length, place) ==
  [h \in 1 .. length |-> Select(<<"t1", "t2">>, {tx \in {"t1", "t2"} : place[tx] = h})]
ChainsOf(length) == {ChainOf(length, place) : place \in [{"t1", "t2"} -> 0 .. length]}
Before == ChainsOf(3)
After == ChainsOf(2) \cup ChainsOf(3) \cup ChainsOf(4)

Watched == [address \in {"mine", "yours"} |-> IF address = "mine" THEN alice ELSE bob]
Contents(amount) ==
  [tx \in {"t1", "t2"} |->
     IF tx = "t1"
       THEN <<[zat |-> 5, address |-> NoAddress], [zat |-> 1, address |-> "mine"]>>
       ELSE <<[zat |-> 2, address |-> "mine"], [zat |-> amount, address |-> "yours"]>>]

Snapshots ==
  [algorithm : {"snapshot"}, before : Before, after : After, switch : 1 .. 4,
   contents : {Contents(3), Contents(NoInteger)}, from : 0 .. 3, dropped : BOOLEAN]
Depths ==
  [algorithm : {"depth"}, before : Before, after : After, switch : 0 .. 2,
   tx : {"t1", "t2"}, reported : BOOLEAN, dropped : BOOLEAN]

\* The chain that answers the n-th call.
At == [n \in Nat \ {0} |-> IF n <= input.switch THEN input.before ELSE input.after]

-----------------------------------------------------------------------------
Receivers == {<<[address |-> "a", secret |-> "ka"]>>,
              <<[address |-> "b", secret |-> "kb"], [address |-> "a", secret |-> "ka"]>>}
Doormat == [value : {1, 4, 6, 20, 60}, script : {"a", "b", "other"}]
Sweeps ==
  [algorithm : {"sweep"}, receivers : Receivers, utxos : UNION {[1 .. n -> Doormat] : n \in 0 .. 3}]

-----------------------------------------------------------------------------
Unchosen == [algorithm |-> "none"]

Init == input = Unchosen /\ DirInit

ChooseTransaction ==
  \E tag \in Tags : \E memo \in MemosOf(tag), index \in Indices \cup {VaultIndex, NoIndex},
     second \in Second, spends_ours \in BOOLEAN, attributed \in {{}, {bob}, {Nobody}} :
    input' = [algorithm |-> "transaction", tx |-> <<Ours(memo, index)>> \o second,
              spends_ours |-> spends_ours, attributed |-> attributed]

Choose ==
  /\ input = Unchosen
  /\ dir = <<[i \in Ids |-> Absent], Absent, << >>, Idle, {}>>
  /\ \/ ChooseTransaction
     \/ input' \in Pages
     \/ input' \in Arithmetic
     \/ input' \in LightClientInputs
     \/ input' \in Snapshots \cup Depths
     \/ input' \in Sweeps
  /\ UNCHANGED dir

Next == Choose \/ (input = Unchosen /\ DirNext /\ UNCHANGED input)

Spec == Init /\ [][Next]_<<input, dir>>

-----------------------------------------------------------------------------
Is(algorithm) == input.algorithm = algorithm

(* amount.rs: products scaled down are exact and their rounding makes no value. *)
ProductsScale ==
  Is("arithmetic") =>
    /\ ScaledExactly(input.a, input.b, input.den)
    /\ input.den > 0 => NoValueMade(input.a, input.b, input.den)

(* shielded.rs: every note of a transaction that is classified is exactly one thing, and
   strict scans agree with classifications on whose money it is. *)
NotesAreOneThing ==
  Is("transaction") =>
    /\ EveryNoteIsOneThing(input.tx, input.spends_ours, input.attributed, HandedOut)
    /\ ScansAgree(input.tx, input.attributed)

(* shielded.rs: paging readers see every sighting once, in order. *)
ReadersSeeAll ==
  Is("pages") => PagesReadOnce(input.kind, Chain, input.from_height, input.max_blocks,
                               input.from, input.to)

(* lightd.rs, compact.rs: requests and answers arrive as they were meant or not at all,
   and what a scan of a compact block finds is where it is in the full block. *)
MessagesArrive ==
  /\ Is("request") => RequestArrives(input.request)
  /\ Is("answer") => AnswerArrives(input.answer)
  /\ Is("block") => HitsAreThere(1, input.block, {"mine"})

(* zebra.rs: what a node's answers amount to is of the chain, though it changes while the
   node is asked. *)
SnapshotsHold ==
  /\ Is("snapshot") =>
       SnapshotIsOfTheChain("testnet", At, input.before, input.after, input.contents,
                            Watched, input.from, input.dropped)
  /\ Is("depth") =>
       DepthIsOfAChain(At, input.before, input.after, input.tx, input.reported, input.dropped)

(* transparent.rs: a sweep moves everything it was given but the fee. *)
SweepsMoveAll == Is("sweep") => SweepMovesAll(input.receivers, input.utxos)
===============================================================================
