--------------------------------- MODULE Wire ---------------------------------
(***************************************************************************)
(* Byte strings as the readers of this code see them (Rd of lightd.rs, R   *)
(* of notes.rs, Reader of custody_net.rs): a sequence of fields, each      *)
(* written whole and read whole.  A field is its kind, which fixes how its *)
(* length is found, and its value; a length-prefixed string is one field.  *)
(* A string cut within a field ends in a "partial" one, which every reader *)
(* refuses, as it does the missing one.  A reader is the number of fields  *)
(* it has read.                                                            *)
(***************************************************************************)
EXTENDS Integers, Sequences, SequencesExt

Field(kind, v) == [kind |-> kind, v |-> v]
Partial == Field("partial", 0)

\* The fields after the first `at` are of these kinds.
Has(bytes, at, kinds) ==
  /\ at + Len(kinds) <= Len(bytes)
  /\ \A i \in DOMAIN kinds : bytes[at + i].kind = kinds[i]

(* A count, and as many records of these kinds; a column holds the j-th field of each. *)
PutMany(records) == <<Field("u32", Len(records))>> \o FlattenSeq(records)

HasMany(bytes, at, kinds) ==
  /\ Has(bytes, at, <<"u32">>)
  /\ \A i \in 1 .. bytes[at + 1].v : Has(bytes, at + 1 + Len(kinds) * (i - 1), kinds)

PastMany(bytes, at, kinds) == at + 1 + Len(kinds) * bytes[at + 1].v

Column(bytes, at, kinds, j) ==
  [i \in 1 .. bytes[at + 1].v |-> bytes[at + 1 + Len(kinds) * (i - 1) + j].v]

(* What is left of a string whose writing or sending stopped: at a field or in one. *)
Cuts(bytes) ==
  {SubSeq(bytes, 1, n) : n \in 0 .. Len(bytes) - 1}
    \cup {Append(SubSeq(bytes, 1, n), Partial) : n \in 0 .. Len(bytes) - 1}
===============================================================================
