--------------------------------- MODULE Zebra ---------------------------------
(***************************************************************************)
(* What a Zebra node's answers amount to (zebra.rs): the snapshot observe  *)
(* takes of the deposits at watched transparent addresses, which is the    *)
(* ChainView the watcher polls, and the depth of a transaction.  Each asks *)
(* the node several times, and the chain may change in between.            *)
(*                                                                         *)
(* A chain is a sequence of blocks, a block a sequence of transactions;    *)
(* contents gives the outputs of each, of the form [zat, address].  A call *)
(* is known by its number, and At[n] is the chain that answers the n-th.   *)
(***************************************************************************)
EXTENDS Logs, Integers, FiniteSetsExt

NoInteger == -1                \* an output whose amount is given as a float only
NoAddress == "no address"    \* an output whose script has no address

(* The transactions that pay one of the addresses. *)
Paying(contents, addresses) ==
  {tx \in DOMAIN contents :
     \E i \in DOMAIN contents[tx] : contents[tx][i].address \in addresses}

(* getaddresstxids, of the node: in the order of the chain. *)
AddressTxids(chain, contents, addresses, start, end) ==
  LET first == Max({start, 1})
      last  == Min({end, Len(chain)})
  IN FlattenSeq([k \in 1 .. last - first + 1 |->
                   Select(chain[first + k - 1], Paying(contents, addresses))])

(* getrawtransaction, of the node: the height, 0 of a transaction that is in no block,
   nothing of one the node has dropped. *)
RawHeight(chain, tx, dropped) ==
  LET mined == {h \in DOMAIN chain : tx \in Range(chain[h])}
  IN IF mined = {} /\ ~dropped THEN {0} ELSE mined

(* The outputs of a transaction that pay a watched address, in their order. *)
DepositsOf(tx, outputs, accounts, height) ==
  LET ours == Select(outputs, {o \in ToSet(outputs) : o.address \in DOMAIN accounts})
  IN [i \in DOMAIN ours |->
        [tx |-> tx, account |-> accounts[ours[i].address],
         amount |-> ours[i].zat, height |-> height]]

(* Amounts are read from the integer field or not at all. *)
Readable(outputs) == \A i \in DOMAIN outputs : outputs[i].zat # NoInteger

\* Mutant of Listed: the height to start from is taken to be read already.
ListedAfter(At, contents, accounts, from) ==
  IF DOMAIN accounts # {} /\ from <= Len(At[1])
    THEN AddressTxids(At[2], contents, DOMAIN accounts, from + 1, Len(At[1]))
    ELSE << >>

(* The transactions observe looks at: it asks for the tip, then for the list. *)
Listed(At, contents, accounts, from) ==
  IF DOMAIN accounts # {} /\ from <= Len(At[1])
    THEN AddressTxids(At[2], contents, DOMAIN accounts, from, Len(At[1]))
    ELSE << >>

(* Zebra::observe: the tip, the list, then one transaction after the other; empty where
   it is refused.  Mainnet is refused before anything is asked. *)
Observe(network, At, contents, accounts, from, dropped) ==
  LET txs == Listed(At, contents, accounts, from)
      height == [i \in DOMAIN txs |-> RawHeight(At[2 + i], txs[i], dropped)]
      Of(i) == DepositsOf(txs[i], contents[txs[i]], accounts, CHOOSE h \in height[i] : TRUE)
  IN IF \/ network = "mainnet"
        \/ \E i \in DOMAIN txs : height[i] = {} \/ ~Readable(contents[txs[i]])
       THEN {}
       ELSE {[tip |-> Len(At[1]), deposits |-> FlattenSeq([i \in DOMAIN txs |-> Of(i)])]}

(* Observed as a ChainView. *)
DepositsAt(observed, height) ==
  Select(observed.deposits, {d \in ToSet(observed.deposits) : d.height = height})

BalanceAt(observed, height) ==
  IF height > observed.tip THEN {}
  ELSE {Total(Select(observed.deposits, {d \in ToSet(observed.deposits) : d.height <= height}))}

(* Zebra::confirmations: the node's own figure where it gives one, else one more than
   what the block count, which is asked for next, has above the height. *)
Confirmations(At, tx, reported, dropped) ==
  {IF h = 0 THEN 0
   ELSE IF reported THEN Len(At[1]) - h + 1
   ELSE Max({Len(At[2]) - h, 0}) + 1 : h \in RawHeight(At[1], tx, dropped)}

-----------------------------------------------------------------------------

(* The blocks two chains have in common. *)
Common(a, b) == Max({n \in 0 .. Min({Len(a), Len(b)}) : SubSeq(a, 1, n) = SubSeq(b, 1, n)})

(* Whatever the chain does while it is read, a snapshot has the deposits of every block
   from the height asked for that was there throughout, and its balance at such a height
   is theirs, and that of what lost its block while the snapshot was taken. *)
SnapshotIsOfTheChain(network, At, before, after, contents, accounts, from, dropped) ==
  \A s \in Observe(network, At, contents, accounts, from, dropped) :
    \A h \in Max({from, 1}) .. Min({s.tip, Common(before, after)}) :
      LET InBlock(k) == FlattenSeq([i \in DOMAIN before[k] |->
                          DepositsOf(before[k][i], contents[before[k][i]], accounts, k)])
          start == Max({from, 1})
          mined == FlattenSeq([k \in 1 .. h - start + 1 |-> InBlock(start + k - 1)])
      IN /\ DepositsAt(s, h) = InBlock(h)
         /\ BalanceAt(s, h) = {Total(mined) + Total(DepositsAt(s, 0))}

(* A depth is that of the transaction's block in a chain the node had, and a transaction
   that kept its block while it was asked about has the depth of the later chain if the
   block count was what told. *)
DepthIsOfAChain(At, before, after, tx, reported, dropped) ==
  \A c \in Confirmations(At, tx, reported, dropped) :
    /\ c > 0 => \E chain \in {before, after} : \E h \in DOMAIN chain : tx \in Range(chain[h])
    /\ \A h \in 1 .. Common(before, after) :
         tx \in Range(before[h]) =>
           c = Len(IF reported THEN At[1] ELSE At[2]) - h + 1
================================================================================
