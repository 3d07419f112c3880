---------------------------------- MODULE Logs ----------------------------------
(***************************************************************************)
(* Sequences of entries read as logs: the entries of a kind, in order, and *)
(* the sum of their amounts.                                               *)
(***************************************************************************)
EXTENDS Naturals, SequencesExt

\* The entries of s that are in T, in their order.
Select(s, T) == FlattenSeq([i \in 1 .. Len(s) |-> IF s[i] \in T THEN <<s[i]>> ELSE << >>])

\* The sum of the amounts of a sequence of entries.
Total(entries) ==
  LET sum[i \in 0 .. Len(entries)] ==
        IF i = 0 THEN 0 ELSE sum[i - 1] + entries[i].amount
  IN sum[Len(entries)]
=============================================================================
