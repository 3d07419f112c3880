----------------------------- MODULE DepositLedger -----------------------------
(***************************************************************************)
(* What a watcher promises the VM it reports to (src/watcher.rs, "What the *)
(* VM demands"): the deposits of the final part of the chain, each once,   *)
(* in the order of the chain, and nothing else.  Any two watchers of one   *)
(* chain therefore report the same deposits under the same indices.        *)
(***************************************************************************)
EXTENDS SequencesExt

CONSTANT Watchers

VARIABLES
  final,   \* the final blocks, each the sequence of its creditable deposits
  ledger   \* ledger[w]: the deposits w credited; an index is a position

Init ==
  /\ final = << >>
  /\ ledger = [w \in Watchers |-> << >>]

Through(k) == FlattenSeq(SubSeq(final, 1, k))

(***************************************************************************)
(* Blocks become final; final blocks never change.                         *)
(***************************************************************************)
Finalize ==
  /\ IsStrictPrefix(final, final')
  /\ UNCHANGED ledger

(***************************************************************************)
(* The deposits of whole blocks are credited, after those credited before. *)
(***************************************************************************)
Credit(w) ==
  \E k \in 0 .. Len(final) :
    /\ IsStrictPrefix(ledger[w], Through(k))
    /\ ledger' = [ledger EXCEPT ![w] = Through(k)]
    /\ UNCHANGED final

Next == Finalize \/ \E w \in Watchers : Credit(w)

Spec == Init /\ [][Next]_<<final, ledger>>
=============================================================================
