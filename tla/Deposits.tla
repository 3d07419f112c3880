------------------------------- MODULE Deposits -------------------------------
(***************************************************************************)
(* What the outputs of a transaction are to the vault (shielded.rs): the   *)
(* scan of a transaction, the classification of what it found, and the     *)
(* readers that page through the chain for evidence rather than money.     *)
(*                                                                         *)
(* An output is [ours, memo, index]: index is the deposit address the note *)
(* arrived at, the vault's own, or none the key can tell.  Results carry   *)
(* the output they are about, which gives their order.                     *)
(***************************************************************************)
EXTENDS Memo, Logs, Integers, FiniteSets

CONSTANT Indices   \* the deposit addresses

VaultIndex == "vault"
NoIndex == "none"

Outputs(tx) == DOMAIN tx

(* An output that is the vault's own evidence. *)
Evidence(o) == IsAnchor(o.memo) \/ IsPublication(o.memo)

(* The signer whose forced intent the memo carries. *)
ForcedSigner(o) == UNION {ForcedAccount(frame) : frame \in ForcedFrame(o.memo)}

(* The account the memo names, an attribution of the transaction taking its place. *)
NamedBy(o, attributed) ==
  CASE ForcedSigner(o) # {} -> ForcedSigner(o)
    [] ForcedSigner(o) = {} /\ DecodedAccount(o.memo) # {} -> DecodedAccount(o.memo)
    [] OTHER -> attributed

(* What take records of an output. *)
ScannedAction(o, attributed) ==
  LET evidence == o.ours /\ Evidence(o)
      claimed  == o.ours /\ HasAppPaymentTag(o.memo)
  IN [ours |-> o.ours,
      index |-> o.index,
      anchor |-> evidence,
      payment |-> IF claimed THEN DecodedAppPayment(o.memo) ELSE {},
      reserved |-> claimed,
      forced |-> o.ours /\ ForcedSigner(o) # {},
      account |-> IF o.ours /\ ~evidence /\ ~claimed THEN NamedBy(o, attributed) ELSE {}]

(* The money a strict scan stops at: a malformed application payment, or nobody named. *)
Unaddressed(a) ==
  /\ a.ours /\ ~a.anchor /\ a.payment = {}
  /\ a.reserved \/ a.account = {}

(* scan_inner: the actions of a transaction, its deposits, forced intents and
   application payments; a lenient scan (which has no attributions) is never refused. *)
Scan(tx, attributed, lenient) ==
  LET actions == [i \in Outputs(tx) |-> ScannedAction(tx[i], attributed)]
  IN [refused |-> ~lenient /\ \E i \in Outputs(tx) : Unaddressed(actions[i]),
      actions |-> actions,
      deposits |-> {d \in [output : Outputs(tx), account : AccountIds] :
                      d.account \in actions[d.output].account},
      forced |-> {i \in Outputs(tx) : actions[i].forced},
      app_payments |-> {i \in Outputs(tx) : actions[i].payment # {}}]

(* classify_addressed for one action: the account an issued address settles. *)
ByAddress(a, handed_out) ==
  IF a.index \in DOMAIN handed_out \ {VaultIndex} THEN {handed_out[a.index]} ELSE {}

(* Then the memo, then change, then the attribution. *)
ByMemo(a, spends_ours, attributed) ==
  CASE a.account # {} -> a.account
    [] a.account = {} /\ spends_ours -> {}
    [] OTHER -> attributed

Considered(a) == a.ours /\ ~a.anchor /\ a.payment = {}

Owner(a, spends_ours, attributed, handed_out) ==
  IF ByAddress(a, handed_out) # {} THEN ByAddress(a, handed_out)
  ELSE ByMemo(a, spends_ours, attributed)

\* Mutant of Unclassified: the application namespace is not looked at.
UnclassifiedByOwner(a, spends_ours, attributed, handed_out) ==
  Considered(a) /\ ~spends_ours /\ Owner(a, spends_ours, attributed, handed_out) = {}

(* What stops a classification: an action nobody can be found for, or one that claims
   the application namespace and does not parse. *)
Unclassified(a, spends_ours, attributed, handed_out) ==
  /\ Considered(a)
  /\ \/ a.reserved
     \/ ~spends_ours /\ Owner(a, spends_ours, attributed, handed_out) = {}

(* classify_addressed: the deposits, none of them nobody's. *)
Classify(actions, spends_ours, attributed, handed_out) ==
  [refused |-> \E i \in DOMAIN actions :
                 Unclassified(actions[i], spends_ours, attributed, handed_out),
   deposits |-> {d \in [output : DOMAIN actions, account : Accounts] :
                   /\ Considered(actions[d.output])
                   /\ d.account \in
                        Owner(actions[d.output], spends_ours, attributed, handed_out)}]

-----------------------------------------------------------------------------
(* The readers.  A block is a sequence of transactions, an unreadable one being the
   empty sequence. *)

(* What a reader looks for in a scan: forced, app_payments or anchors. *)
Found(kind, scanned) ==
  CASE kind = "forced" -> scanned.forced
    [] kind = "app_payments" -> scanned.app_payments
    [] kind = "anchors" -> {i \in DOMAIN scanned.actions : scanned.actions[i].anchor}

(* The sightings of a block, in the order of its transactions and their outputs. *)
InBlock(kind, height, block) ==
  FlattenSeq([t \in DOMAIN block |->
    LET found == Found(kind, Scan(block[t], {}, TRUE))
        outputs == [i \in Outputs(block[t]) |-> [height |-> height, tx |-> t, output |-> i]]
    IN Select(outputs, {s \in ToSet(outputs) : s.output \in found})])

Least(a, b) == IF a <= b THEN a ELSE b
Most(a, b) == IF a >= b THEN a ELSE b

\* Mutant of Page: it ends a block before the height it says it ends at.
PageEndsEarly(kind, chain, from_height, max_blocks, from, to) ==
  LET start == Most(from, from_height)
      end   == Least(to, start + Most(max_blocks, 1))
  IN IF end < start THEN [end |-> Least(to, end), found |-> << >>]
     ELSE [end |-> end,
           found |-> FlattenSeq([k \in 1 .. end - start |->
                       InBlock(kind, start + k - 1, chain[start + k - 1])])]

(* forced, app_payments and anchors: one page, and the last height read; max_blocks is
   at least one. *)
Page(kind, chain, from_height, max_blocks, from, to) ==
  LET start == Most(from, from_height)
      end   == Least(to, start + Most(max_blocks, 1) - 1)
  IN IF end < start THEN [end |-> Least(to, end), found |-> << >>]
     ELSE [end |-> end,
           found |-> FlattenSeq([k \in 1 .. end - start + 1 |->
                       InBlock(kind, start + k - 1, chain[start + k - 1])])]

(* A caller that goes on from the last height returned until it is at the one it wants. *)
Paged(kind, chain, from_height, max_blocks, from, to) ==
  LET read[n \in 0 .. to + 1] ==
        IF n = 0 THEN [end |-> from - 1, found |-> << >>]
        ELSE LET before == read[n - 1]
                 page == Page(kind, chain, from_height, max_blocks, before.end + 1, to)
             IN IF before.end >= to THEN before
                ELSE [end |-> page.end, found |-> before.found \o page.found]
  IN read[to + 1]

-----------------------------------------------------------------------------

(* Every note of the vault's in a transaction that is classified is exactly one thing:
   evidence, an application payment, nobody's (a top-up), change, or one deposit.  So no
   output is both an application payment and a credit, and money that claims the
   application namespace without being a payment is never credited nor passed over,
   whatever address it arrived at and whoever it is attributed to. *)
EveryNoteIsOneThing(tx, spends_ours, attributed, handed_out) ==
  LET scanned == Scan(tx, {}, TRUE)
      result  == Classify(scanned.actions, spends_ours, attributed, handed_out)
      ByOutput(i) == {d \in result.deposits : d.output = i}
      IsPayment(i) == i \in scanned.app_payments
      IsNobodys(i) == Nobody \in DecodedAccount(tx[i].memo) \cup attributed
                        \cup {handed_out[x] : x \in DOMAIN handed_out \cap {tx[i].index}}
      IsChange(i) == spends_ours /\ DecodedAccount(tx[i].memo) = {}
  IN ~result.refused =>
       \A i \in Outputs(tx) : tx[i].ours =>
         IF Evidence(tx[i]) \/ IsPayment(i) THEN ByOutput(i) = {}
         ELSE /\ ~HasAppPaymentTag(tx[i].memo)
              /\ \/ Cardinality(ByOutput(i)) = 1
                 \/ ByOutput(i) = {} /\ (IsChange(i) \/ IsNobodys(i))

(* A strict scan and a classification without addresses or change agree on whose money
   it is; only the strict scan also reports top-ups, as deposits of nobody. *)
ScansAgree(tx, attributed) ==
  LET strict == Scan(tx, attributed, FALSE)
      lenient == Classify(Scan(tx, {}, TRUE).actions, FALSE, attributed, << >>)
  IN /\ strict.refused = lenient.refused
     /\ ~strict.refused =>
          {d \in strict.deposits : d.account # Nobody} = lenient.deposits

(* Page by page a reader sees every sighting of the heights asked for once, in the
   order of the chain, wherever the pages end; anchors() reports publications too. *)
PagesReadOnce(kind, chain, from_height, max_blocks, from, to) ==
  LET paged == Paged(kind, chain, from_height, max_blocks, from, to)
      IsOne(o) == /\ o.ours
                  /\ CASE kind = "forced" -> ForcedSigner(o) # {}
                       [] kind = "app_payments" -> DecodedAppPayment(o.memo) # {}
                       [] kind = "anchors" -> Evidence(o)
      Before(x, y) == \/ x.height < y.height
                      \/ x.height = y.height /\ x.tx < y.tx
                      \/ x.height = y.height /\ x.tx = y.tx /\ x.output < y.output
  IN from <= to =>
       /\ paged.end = to
       /\ \A h \in Most(from, from_height) .. to : \A t \in DOMAIN chain[h] :
            \A i \in DOMAIN chain[h][t] :
               IsOne(chain[h][t][i]) =>
                 [height |-> h, tx |-> t, output |-> i] \in ToSet(paged.found)
       /\ \A x \in ToSet(paged.found) : IsOne(chain[x.height][x.tx][x.output])
       /\ \A a, b \in DOMAIN paged.found : a < b => Before(paged.found[a], paged.found[b])
===============================================================================
