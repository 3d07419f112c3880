------------------------------ MODULE LightClient ------------------------------
(***************************************************************************)
(* The block server's protocol (lightd.rs) and the compact blocks it       *)
(* carries (compact.rs): what a client asks, what the server decodes, what *)
(* it answers and what the client makes of the answer.  A decoder's result *)
(* is a set, empty where it refuses.                                       *)
(***************************************************************************)
EXTENDS Wire, Logs

CONSTANT MAX_BLOCKS

ASSUME LightClientAssumption == MAX_BLOCKS \in Nat

AtMost(n) == IF n <= MAX_BLOCKS THEN n ELSE MAX_BLOCKS
Of(has, value) == IF has THEN {value} ELSE {}

(* The client's requests, as Client::info, blocks, ... write them. *)
Ask(q) ==
  CASE q.op = "INFO" -> <<Field("op", "INFO")>>
    [] q.op = "BLOCKS" ->
         <<Field("op", "BLOCKS"), Field("u64", q.from), Field("u32", AtMost(q.count))>>
    [] q.op = "TX" -> <<Field("op", "TX"), Field("b32", q.txid)>>
    [] q.op = "SEND" -> <<Field("op", "SEND"), Field("string32", q.raw)>>
    [] q.op = "TREESTATE" ->
         <<Field("op", "TREESTATE"), Field("u64", q.height), Field("u8", q.pool)>>
    [] q.op = "UTXOS" -> <<Field("op", "UTXOS"), Field("string16", q.address)>>

(* Request::decode.  A pool is 0 or 1; an address has 128 characters at most. *)
TooLong == "too long"

Request(bytes) ==
  LET Reads(kinds) == Has(bytes, 1, kinds)
      v(i) == bytes[1 + i].v
  IN IF ~Has(bytes, 0, <<"op">>) THEN {}
     ELSE CASE v(0) = "INFO" -> {[op |-> "INFO"]}
            [] v(0) = "BLOCKS" -> Of(Reads(<<"u64", "u32">>),
                                     [op |-> "BLOCKS", from |-> v(1), count |-> AtMost(v(2))])
            [] v(0) = "TX" -> Of(Reads(<<"b32">>), [op |-> "TX", txid |-> v(1)])
            [] v(0) = "SEND" -> Of(Reads(<<"string32">>), [op |-> "SEND", raw |-> v(1)])
            [] v(0) = "UTXOS" -> Of(Reads(<<"string16">>) /\ v(1) # TooLong,
                                    [op |-> "UTXOS", address |-> v(1)])
            [] v(0) = "TREESTATE" -> Of(Reads(<<"u64", "u8">>) /\ v(2) \in {0, 1},
                                        [op |-> "TREESTATE", height |-> v(1), pool |-> v(2)])
            [] OTHER -> {}

(* compact.rs: the block a wallet scans leaves out the transactions with no shielded
   outputs, and keeps the positions of the others. *)
CompactBlock(height, block) ==
  LET txs == [i \in DOMAIN block |->
                [index |-> i, orchard |-> block[i].orchard, ironwood |-> block[i].ironwood]]
      shielded == {t \in ToSet(txs) : t.orchard # << >> \/ t.ironwood # << >>}
  IN [height |-> height, txs |-> Select(txs, shielded)]

OutputFields == <<"output">>

PutOutputs(list) == PutMany([i \in DOMAIN list |-> <<Field("output", list[i])>>])
PutTx(t) == <<Field("u32", t.index)>> \o PutOutputs(t.orchard) \o PutOutputs(t.ironwood)

EncodeBlock(b) ==
  <<Field("magic", "ZECCB1"), Field("u64", b.height)>>
    \o PutMany([i \in DOMAIN b.txs |-> PutTx(b.txs[i])])

\* Where the second list of a transaction is, whether all of it is there, what it is.
SecondList(bytes, at) == PastMany(bytes, at + 1, OutputFields)
HasTx(bytes, at) ==
  /\ Has(bytes, at, <<"u32">>)
  /\ HasMany(bytes, at + 1, OutputFields)
  /\ HasMany(bytes, SecondList(bytes, at), OutputFields)
TxOf(bytes, at) ==
  [index |-> bytes[at + 1].v, orchard |-> Column(bytes, at + 1, OutputFields, 1),
   ironwood |-> Column(bytes, SecondList(bytes, at), OutputFields, 1)]

(* Unlike the replies, a block is refused if anything follows it.  at[i] is where its
   i-th transaction ends, past the end if it is not all there. *)
DecodeBlock(bytes) ==
  LET n == bytes[3].v
      at[i \in 0 .. n] ==
        IF i = 0 THEN 3
        ELSE IF HasTx(bytes, at[i - 1])
          THEN PastMany(bytes, SecondList(bytes, at[i - 1]), OutputFields)
          ELSE Len(bytes) + 1
  IN Of(Has(bytes, 0, <<"magic", "u64", "u32">>) /\ at[n] = Len(bytes),
        [height |-> bytes[2].v, txs |-> [i \in 1 .. n |-> TxOf(bytes, at[i - 1])]])

(* compact::scan: where the wallet's own outputs are. *)
Hits(block, ours) ==
  UNION {{[tx_index |-> block.txs[t].index, pool |-> pool, action |-> i] :
            i \in {i \in DOMAIN block.txs[t][pool] : block.txs[t][pool][i] \in ours}} :
          t \in DOMAIN block.txs, pool \in {"orchard", "ironwood"}}

\* Mutant of Reply: the estimate goes before the branch.
ReplySwapped(a) ==
  CASE a.op = "INFO" -> <<Field("u8", 0), Field("u8", a.network), Field("u64", a.tip),
                          Field("u64", a.estimated), Field("u32", a.branch)>>
    [] OTHER -> <<Field("u8", 0)>>

PutUtxo(u) ==
  <<Field("b32", u.txid), Field("u32", u.index), Field("u64", u.value),
    Field("u64", u.height), Field("string16", u.script)>>

(* reply::info, blocks, transaction, sent, tree_state, utxos; an error is status 1. *)
Reply(a) ==
  <<Field("u8", 0)>> \o
  CASE a.op = "INFO" -> <<Field("u8", a.network), Field("u64", a.tip), Field("u32", a.branch),
                          Field("u64", a.estimated)>>
    [] a.op = "BLOCKS" ->
         PutMany([i \in DOMAIN a.blocks |-> <<Field("string32", EncodeBlock(a.blocks[i]))>>])
    [] a.op = "TX" -> <<Field("string32", a.raw)>>
    [] a.op = "SEND" -> <<Field("string16", a.txid)>>
    [] a.op = "TREESTATE" -> <<Field("b32", a.root), Field("string32", a.frontier)>>
    [] a.op = "UTXOS" -> PutMany([i \in DOMAIN a.utxos |-> PutUtxo(a.utxos[i])])

(* unwrap_reply and the client's reading of each answer; whatever follows is ignored. *)
UtxoFields == <<"b32", "u32", "u64", "u64", "string16">>

Answer(op, bytes) ==
  LET Reads(kinds) == Has(bytes, 1, kinds)
      v(i) == bytes[1 + i].v
      estimated == IF Has(bytes, 4, <<"u64">>) /\ v(4) >= v(2) THEN v(4) ELSE v(2)
      sent == Column(bytes, 1, <<"string32">>, 1)
      utxo(j) == Column(bytes, 1, UtxoFields, j)
  IN IF ~Has(bytes, 0, <<"u8">>) \/ v(0) # 0 THEN {}
     ELSE CASE op = "INFO" -> Of(Reads(<<"u8", "u64", "u32">>),
                                 [op |-> op, network |-> v(1), tip |-> v(2), branch |-> v(3),
                                  estimated |-> estimated])
            [] op = "BLOCKS" ->
                 Of(HasMany(bytes, 1, <<"string32">>)
                      /\ \A i \in DOMAIN sent : DecodeBlock(sent[i]) # {},
                    [op |-> op, blocks |-> [i \in DOMAIN sent |->
                                             CHOOSE b \in DecodeBlock(sent[i]) : TRUE]])
            [] op = "TX" -> Of(Reads(<<"string32">>), [op |-> op, raw |-> v(1)])
            [] op = "SEND" -> Of(Reads(<<"string16">>), [op |-> op, txid |-> v(1)])
            [] op = "TREESTATE" -> Of(Reads(<<"b32", "string32">>),
                                      [op |-> op, root |-> v(1), frontier |-> v(2)])
            [] op = "UTXOS" ->
                 Of(HasMany(bytes, 1, UtxoFields),
                    [op |-> op, utxos |-> [i \in 1 .. v(1) |->
                       [txid |-> utxo(1)[i], index |-> utxo(2)[i], value |-> utxo(3)[i],
                        height |-> utxo(4)[i], script |-> utxo(5)[i]]]])

-----------------------------------------------------------------------------

(* The server decodes the request the client made, with no more blocks than it serves,
   and nothing of a request that was cut short. *)
RequestArrives(q) ==
  /\ Request(Ask(q)) =
       CASE q.op = "BLOCKS" -> {[q EXCEPT !.count = AtMost(@)]}
         [] q.op = "UTXOS" -> {q} \ {[q EXCEPT !.address = TooLong]}
         [] OTHER -> {q}
  /\ \A cut \in Cuts(Ask(q)) : Request(cut) = {}

(* The client reads what the server answered, an estimate below the tip as the tip; an
   answer cut short is refused, but for an INFO that ends before its estimate, which is
   read as that of a node that has caught up. *)
AnswerArrives(a) ==
  /\ Answer(a.op, Reply(a)) =
       {IF a.op = "INFO" /\ a.estimated < a.tip THEN [a EXCEPT !.estimated = a.tip] ELSE a}
  /\ \A cut \in Cuts(Reply(a)) :
       Answer(a.op, cut) =
         IF a.op = "INFO" /\ Len(cut) >= 4 /\ cut[4].kind # "partial"
           THEN {[a EXCEPT !.estimated = a.tip]}
           ELSE {}

(* A wallet that scans a compact block that was sent to it finds its outputs where they
   are in the full block, although transactions in between were left out; of a compact
   block that was cut short it reads nothing. *)
HitsAreThere(height, block, ours) ==
  LET bytes == EncodeBlock(CompactBlock(height, block))
      sent == DecodeBlock(bytes)
      places == UNION {{[tx_index |-> t, pool |-> pool, action |-> i] :
                          i \in {i \in DOMAIN block[t][pool] : block[t][pool][i] \in ours}} :
                        t \in DOMAIN block, pool \in {"orchard", "ironwood"}}
  IN /\ sent # {} /\ \A b \in sent : Hits(b, ours) = places
     /\ \A cut \in Cuts(bytes) : DecodeBlock(cut) = {}
================================================================================
