------------------------------- MODULE DataLemmas ------------------------------
(***************************************************************************)
(* What concatenating, selecting from and adding up logs does, for logs of *)
(* any length, and what adding up over a finite set does: the facts the    *)
(* proofs about the watcher and about payouts rest on.                     *)
(*                                                                         *)
(* Induction over a sequence is induction over the numbers: a set of       *)
(* numbers has a least element (LeastNat), so a set of sequences that has  *)
(* the empty one and is closed under Append has all of them                *)
(* (SequenceInduction), and so has a set of sets the subsets of a finite   *)
(* one (SubsetInduction).  The recursive functions in FlattenSeq, Total    *)
(* and SumFunctionOnSet are shown to exist, and to be one function, in the *)
(* same way.                                                               *)
(***************************************************************************)
EXTENDS Logs, Integers, WellFoundedInduction, FiniteSetTheorems, SequenceTheorems, TLAPS

(***************************************************************************)
(* A set of natural numbers that is not empty has a least element.         *)
(***************************************************************************)
LEMMA LeastNat ==
  ASSUME NEW T, T \subseteq Nat, T # {}
  PROVE  \E n \in T : \A m \in T : n <= m
<1> DEFINE R == OpToRel(<, Nat)
<1>1. IsWellFoundedOn(R, Nat)
  BY NatLessThanWellFounded, Zenon
<1>2. \A x, y \in Nat : y < x => <<y, x>> \in R
  BY Zenon DEF OpToRel
<1> HIDE DEF R
<1>3. PICK x \in T : \A y \in T : ~ (<<y, x>> \in R)
  BY <1>1, WFMin, Zenon
<1>4. ASSUME NEW y \in T PROVE x <= y
  <2>1. x \in Nat /\ y \in Nat
    OBVIOUS
  <2>2. ~ (y < x)
    BY <1>2, <1>3, <2>1
  <2>. QED
    BY <2>1, <2>2
<1>. QED
  BY <1>4

(***************************************************************************)
(* A set that has zero and is closed under successor has every number.     *)
(***************************************************************************)
LEMMA NaturalInduction ==
  ASSUME NEW T, 0 \in T, \A n \in Nat : n \in T => n + 1 \in T
  PROVE  \A n \in Nat : n \in T
<1> SUFFICES ASSUME Nat \ T # {} PROVE FALSE
  OBVIOUS
<1>1. PICK n \in Nat \ T : \A m \in Nat \ T : n <= m
  BY LeastNat
<1>2. n \in Nat /\ n # 0
  OBVIOUS
<1>3. n - 1 \in Nat /\ n - 1 < n
  BY <1>2
<1>4. n - 1 \in T
  BY <1>1, <1>3
<1>5. (n - 1) + 1 \in T
  BY <1>3, <1>4
<1>6. (n - 1) + 1 = n
  BY <1>2
<1>. QED
  BY <1>5, <1>6

(***************************************************************************)
(* A set that has the empty sequence and is closed under Append has every  *)
(* sequence.                                                               *)
(***************************************************************************)
LEMMA SequenceInduction ==
  ASSUME NEW S, NEW T, << >> \in T,
         \A s \in Seq(S), e \in S : s \in T => Append(s, e) \in T
  PROVE  \A s \in Seq(S) : s \in T
<1> DEFINE L == {n \in Nat : \A s \in Seq(S) : Len(s) = n => s \in T}
<1>1. 0 \in L
  BY EmptySeq
<1>2. ASSUME NEW n \in Nat, n \in L PROVE n + 1 \in L
  <2> SUFFICES ASSUME NEW s \in Seq(S), Len(s) = n + 1 PROVE s \in T
    OBVIOUS
  <2>1. s # << >>
    BY EmptySeq
  <2>2. PICK t \in Seq(S), e \in S : s = Append(t, e)
    BY <2>1, SequenceEmptyOrAppend
  <2>3. Len(t) \in Nat /\ Len(s) = Len(t) + 1
    BY <2>2, LenProperties, AppendProperties
  <2>4. t \in T
    BY <1>2, <2>2, <2>3
  <2>. QED
    BY <2>2, <2>4
<1> HIDE DEF L
<1>3. \A n \in Nat : n \in L
  BY <1>1, <1>2, NaturalInduction
<1>. QED
  BY <1>3, LenProperties DEF L

-----------------------------------------------------------------------------
(***************************************************************************)
(* A function on 1 .. n is a sequence of length n.                         *)
(***************************************************************************)
LEMMA FunctionIsSequence ==
  ASSUME NEW S, NEW n \in Nat, NEW s \in [1 .. n -> S]
  PROVE  s \in Seq(S) /\ Len(s) = n
<1>1. s \in Seq(S)
  BY IsASeq
<1>. QED
  BY <1>1, LenProperties

\* The function that FlattenSeq computes s's concatenation with.
Flattens(f, s, n) == f = [i \in 1 .. n |-> IF i = 1 THEN s[i] ELSE f[i - 1] \o s[i]]

(***************************************************************************)
(* The function that FlattenSeq computes with exists, for any length.      *)
(***************************************************************************)
LEMMA FlattenExists ==
  ASSUME NEW n \in Nat, NEW s
  PROVE  \E f : Flattens(f, s, n)
<1> USE DEF Flattens
<1> DEFINE T == {k \in Nat : \E f : Flattens(f, s, k)}
<1>1. 0 \in T
  <2> DEFINE f == [i \in 1 .. 0 |-> s[i]]
  <2>1. Flattens(f, s, 0)
    OBVIOUS
  <2>. QED
    BY <2>1
<1>2. ASSUME NEW k \in Nat, k \in T PROVE k + 1 \in T
  <2> PICK f : Flattens(f, s, k)
    BY <1>2
  <2> DEFINE g == [i \in 1 .. k + 1 |->
                     IF i <= k THEN f[i] ELSE IF i = 1 THEN s[i] ELSE f[i - 1] \o s[i]]
  <2>1. ASSUME NEW i \in 1 .. k + 1
        PROVE  g[i] = IF i = 1 THEN s[i] ELSE g[i - 1] \o s[i]
    <3>1. CASE i <= k
      <4>1. i \in 1 .. k /\ (i = 1 \/ i - 1 \in 1 .. k)
        BY <3>1
      <4>2. f[i] = IF i = 1 THEN s[i] ELSE f[i - 1] \o s[i]
        BY <4>1, Zenon
      <4>3. g[i] = f[i] /\ (i # 1 => g[i - 1] = f[i - 1])
        BY <4>1
      <4>. QED
        BY <4>2, <4>3
    <3>2. CASE i = k + 1
      <4>1. i # 1 => g[i - 1] = f[i - 1]
        BY <3>2
      <4>2. g[i] = IF i = 1 THEN s[i] ELSE f[i - 1] \o s[i]
        BY <3>2
      <4> HIDE DEF g
      <4>. QED
        BY <4>1, <4>2
    <3>. QED
      BY <3>1, <3>2
  <2>2. g = [i \in 1 .. k + 1 |-> g[i]]
    OBVIOUS
  <2>3. Flattens(g, s, k + 1)
    <3> HIDE DEF g
    <3>. QED
      BY <2>1, <2>2, Zenon
  <2>4. \E h : Flattens(h, s, k + 1)
    <3> HIDE DEF g, Flattens
    <3>. QED
      BY <2>3, Zenon
  <2>5. k + 1 \in Nat
    OBVIOUS
  <2>. QED
    BY <2>4, <2>5, Zenon
<1> HIDE DEF T, Flattens
<1>3. n \in T
  BY <1>1, <1>2, NaturalInduction
<1>. QED
  BY <1>3 DEF T

(***************************************************************************)
(* Two such functions agree as far as the sequences do.                    *)
(***************************************************************************)
LEMMA FlattenAgrees ==
  ASSUME NEW m, NEW n, NEW s, NEW t, NEW f, NEW g,
         Flattens(f, s, m), Flattens(g, t, n),
         m \in Nat, n \in Nat, m <= n, \A i \in 1 .. m : s[i] = t[i]
  PROVE  \A i \in 1 .. m : f[i] = g[i]
<1> DEFINE T == {k \in Nat : k \in 1 .. m => f[k] = g[k]}
<1>1. 0 \in T
  OBVIOUS
<1>2. ASSUME NEW k \in Nat, k \in T PROVE k + 1 \in T
  <2> SUFFICES ASSUME k + 1 \in 1 .. m PROVE f[k + 1] = g[k + 1]
    OBVIOUS
  <2>1. /\ k + 1 \in 1 .. n /\ (k + 1) - 1 = k
        /\ k + 1 # 1 => k \in 1 .. m
    OBVIOUS
  <2>2. f[k + 1] = IF k + 1 = 1 THEN s[k + 1] ELSE f[(k + 1) - 1] \o s[k + 1]
    BY Zenon DEF Flattens
  <2>3. g[k + 1] = IF k + 1 = 1 THEN t[k + 1] ELSE g[(k + 1) - 1] \o t[k + 1]
    BY <2>1, Zenon DEF Flattens
  <2>4. k + 1 # 1 => f[k] = g[k]
    BY <1>2, <2>1, Zenon
  <2>5. s[k + 1] = t[k + 1]
    BY Zenon
  <2> HIDE DEF T
  <2>. QED
    BY <2>1, <2>2, <2>3, <2>4, <2>5, Zenon
<1> HIDE DEF T
<1>3. \A k \in Nat : k \in T
  BY <1>1, <1>2, NaturalInduction
<1>4. \A i \in 1 .. m : i \in Nat
  OBVIOUS
<1>. QED
  BY <1>3, <1>4, Zenon DEF T

(***************************************************************************)
(* What FlattenSeq is, for a sequence that is not empty.                   *)
(***************************************************************************)
LEMMA FlattenValue ==
  ASSUME NEW n \in Nat, n # 0, NEW s, Len(s) = n
  PROVE  \E f : Flattens(f, s, n) /\ FlattenSeq(s) = f[n]
<1> DEFINE f == CHOOSE f : f = [i \in 1 .. n |-> IF i = 1 THEN s[i] ELSE f[i - 1] \o s[i]]
<1>1. Flattens(f, s, n)
  BY FlattenExists, Zenon DEF Flattens
<1>2. FlattenSeq(s) = f[n]
  BY Zenon DEF FlattenSeq
<1>. QED
  <2> HIDE DEF f
  <2>. QED
    BY <1>1, <1>2, Zenon

(***************************************************************************)
(* Flattening nothing, and flattening one part more.                       *)
(***************************************************************************)
LEMMA FlattenEmpty ==
  FlattenSeq(<< >>) = << >>
BY DEF FlattenSeq

(***************************************************************************)
(* Flattening a list of one part gives that part.                          *)
(***************************************************************************)
LEMMA FlattenSingle ==
  ASSUME NEW s, Len(s) = 1
  PROVE  FlattenSeq(s) = s[1]
<1>1. 1 \in Nat /\ 1 # 0 /\ 1 \in 1 .. 1
  OBVIOUS
<1>2. PICK f : Flattens(f, s, 1) /\ FlattenSeq(s) = f[1]
  BY <1>1, FlattenValue, Zenon
<1>. QED
  BY <1>1, <1>2, Zenon DEF Flattens

(***************************************************************************)
(* Flattening one part more appends that part.                             *)
(***************************************************************************)
LEMMA FlattenAppend ==
  ASSUME NEW S, NEW parts \in Seq(Seq(S)), NEW p \in Seq(S)
  PROVE  FlattenSeq(Append(parts, p)) = FlattenSeq(parts) \o p
<1> DEFINE n == Len(parts)
           longer == Append(parts, p)
<1>1. /\ n \in Nat /\ Len(longer) = n + 1
      /\ \A i \in 1 .. n : longer[i] = parts[i]
      /\ longer[n + 1] = p
  BY LenProperties, AppendProperties
<1>2. CASE n = 0
  <2>1. parts = << >> /\ longer[1] = p /\ Len(longer) = 1
    BY <1>1, <1>2, EmptySeq
  <2>2. FlattenSeq(longer) = p
    BY <2>1, FlattenSingle
  <2>. QED
    BY <2>1, <2>2, FlattenEmpty, ConcatEmptySeq
<1>3. CASE n # 0
  <2>1. PICK f : Flattens(f, parts, n) /\ FlattenSeq(parts) = f[n]
    BY <1>1, <1>3, FlattenValue
  <2>2. n + 1 \in Nat /\ n + 1 # 0 /\ n + 1 # 1 /\ (n + 1) - 1 = n /\ n <= n + 1
        /\ n + 1 \in 1 .. n + 1 /\ n \in 1 .. n
    BY <1>1, <1>3
  <2> HIDE DEF n, longer
  <2>3. PICK g : Flattens(g, longer, n + 1) /\ FlattenSeq(longer) = g[n + 1]
    BY <1>1, <2>2, FlattenValue, Zenon
  <2>4. \A i \in 1 .. n : f[i] = g[i]
    <3>1. n \in Nat /\ n + 1 \in Nat /\ n <= n + 1
      BY <1>1, <2>2
    <3>2. \A i \in 1 .. n : parts[i] = longer[i]
      BY <1>1, Zenon
    <3>. QED
      BY <2>1, <2>3, <3>1, <3>2, FlattenAgrees
  <2>5. g[n + 1] = g[n] \o longer[n + 1]
    BY <2>2, <2>3, Zenon DEF Flattens
  <2>6. f[n] = g[n]
    BY <2>2, <2>4, Zenon
  <2>7. FlattenSeq(longer) = FlattenSeq(parts) \o p
    BY <1>1, <2>1, <2>3, <2>5, <2>6, Zenon
  <2>. QED
    BY <2>7, Zenon DEF longer
<1>. QED
  BY <1>2, <1>3

-----------------------------------------------------------------------------
(***************************************************************************)
(* The entries of an empty log, of a longer one, and of two logs in a row. *)
(***************************************************************************)
LEMMA EntriesAppend ==
  ASSUME NEW S, NEW s \in Seq(S), NEW e \in S
  PROVE  ToSet(Append(s, e)) = ToSet(s) \cup {e}
<1>1. /\ Len(s) \in Nat /\ DOMAIN s = 1 .. Len(s)
      /\ DOMAIN Append(s, e) = 1 .. Len(s) + 1
      /\ \A i \in 1 .. Len(s) : Append(s, e)[i] = s[i]
      /\ Append(s, e)[Len(s) + 1] = e
  BY LenProperties, AppendProperties
<1>2. 1 .. Len(s) + 1 = 1 .. Len(s) \cup {Len(s) + 1}
  BY <1>1
<1>. QED
  BY <1>1, <1>2, Zenon DEF ToSet

(***************************************************************************)
(* The entries of two logs in a row are those of both.                     *)
(***************************************************************************)
LEMMA EntriesConcat ==
  ASSUME NEW S, NEW s \in Seq(S), NEW t \in Seq(S)
  PROVE  ToSet(s \o t) = ToSet(s) \cup ToSet(t)
<1>1. \A u \in Seq(S) : ToSet(u) = Range(u)
  BY DEF ToSet, Range
<1>. QED
  <2>1. s \o t \in Seq(S)
    BY ConcatProperties
  <2>2. Range(s \o t) = Range(s) \cup Range(t)
    BY RangeConcatenation
  <2>. QED
    BY <1>1, <2>1, <2>2, Zenon

(***************************************************************************)
(* The entries of a log over S are in S.                                   *)
(***************************************************************************)
LEMMA EntriesAre ==
  ASSUME NEW S, NEW s \in Seq(S)
  PROVE  ToSet(s) \subseteq S
BY LenProperties, ElementOfSeq DEF ToSet

(***************************************************************************)
(* An empty log has no entries.                                            *)
(***************************************************************************)
LEMMA EntriesOfNone ==
  ToSet(<< >>) = {}
BY DEF ToSet

(***************************************************************************)
(* Concatenation is associative, for all logs at once.                     *)
(***************************************************************************)
LEMMA ConcatTwice ==
  ASSUME NEW S
  PROVE  \A s, t, u \in Seq(S) : (s \o t) \o u = s \o (t \o u)
BY ConcatAssociative

(***************************************************************************)
(* Appending to a concatenation is appending to its second part.           *)
(***************************************************************************)
LEMMA ConcatAppend ==
  ASSUME NEW S, NEW s \in Seq(S), NEW t \in Seq(S), NEW e \in S
  PROVE  s \o Append(t, e) = Append(s \o t, e)
<1>1. <<e>> \in Seq(S) /\ s \o t \in Seq(S)
  BY ConcatProperties
<1>2. s \o Append(t, e) = s \o (t \o <<e>>)
  BY AppendIsConcat
<1>3. s \o (t \o <<e>>) = (s \o t) \o <<e>>
  BY <1>1, ConcatAssociative
<1>4. (s \o t) \o <<e>> = Append(s \o t, e)
  BY <1>1, AppendIsConcat
<1>. QED
  BY <1>2, <1>3, <1>4

(***************************************************************************)
(* Where the entries of a concatenation come from.                         *)
(***************************************************************************)
LEMMA ConcatAt ==
  ASSUME NEW S, NEW s \in Seq(S), NEW t \in Seq(S), NEW m, NEW n, Len(s) = m, Len(t) = n
  PROVE  /\ s \o t \in Seq(S)
         /\ Len(s \o t) = m + n
         /\ \A i \in 1 .. m + n : (s \o t)[i] = IF i <= m THEN s[i] ELSE t[i - m]
BY ConcatProperties

\* A log is a prefix of what agrees with it as far as it goes.
LEMMA PrefixIs ==
  ASSUME NEW S, NEW s \in Seq(S), NEW t \in Seq(S), Len(s) <= Len(t),
         \A i \in 1 .. Len(s) : t[i] = s[i]
  PROVE  IsPrefix(s, t)
<1>1. Len(s) \in Nat /\ Len(t) \in Nat
  BY LenProperties
<1>2. \A i \in 1 .. Len(s) : 1 + i - 1 = i
  BY <1>1
<1>3. /\ SubSeq(s, 1, Len(s)) \in Seq(S) /\ SubSeq(t, 1, Len(s)) \in Seq(S)
      /\ Len(SubSeq(s, 1, Len(s))) = Len(s) /\ Len(SubSeq(t, 1, Len(s))) = Len(s)
      /\ \A i \in 1 .. Len(s) : SubSeq(s, 1, Len(s))[i] = s[i] /\ SubSeq(t, 1, Len(s))[i] = t[i]
  BY <1>1, <1>2, SubSeqProperties
<1>4. SubSeq(s, 1, Len(s)) = SubSeq(t, 1, Len(s))
  BY <1>3, SeqEqual
<1>. QED
  BY <1>4 DEF IsPrefix

\* A log is a prefix of what is written after it.
LEMMA PrefixConcat ==
  ASSUME NEW S, NEW s \in Seq(S), NEW t \in Seq(S)
  PROVE  IsPrefix(s, s \o t)
<1> DEFINE st == s \o t
<1>1. Len(s) \in Nat /\ Len(t) \in Nat
  BY LenProperties
<1>2. st \in Seq(S) /\ Len(st) = Len(s) + Len(t)
  BY ConcatProperties
<1>3. \A i \in 1 .. Len(s) : st[i] = s[i]
  BY <1>1, ConcatProperties
<1> HIDE DEF st
<1>4. Len(s) <= Len(st)
  BY <1>1, <1>2
<1>5. IsPrefix(s, st)
  BY <1>2, <1>3, <1>4, PrefixIs
<1>. QED
  BY <1>5 DEF st

(***************************************************************************)
(* Two logs without repetition that share no entry make one.               *)
(***************************************************************************)
LEMMA InjectiveConcat ==
  ASSUME NEW S, NEW s \in Seq(S), NEW t \in Seq(S),
         IsInjective(s), IsInjective(t), ToSet(s) \cap ToSet(t) = {}
  PROVE  IsInjective(s \o t)
<1>1. /\ Len(s) \in Nat /\ Len(t) \in Nat
      /\ DOMAIN s = 1 .. Len(s) /\ DOMAIN t = 1 .. Len(t)
      /\ DOMAIN (s \o t) = 1 .. Len(s) + Len(t)
      /\ \A i \in 1 .. Len(s) + Len(t) :
           (s \o t)[i] = IF i <= Len(s) THEN s[i] ELSE t[i - Len(s)]
  BY LenProperties, ConcatProperties
<1>2. \A i \in 1 .. Len(s) + Len(t) :
        IF i <= Len(s) THEN i \in DOMAIN s /\ s[i] \in ToSet(s)
                       ELSE i - Len(s) \in DOMAIN t /\ t[i - Len(s)] \in ToSet(t)
  BY <1>1 DEF ToSet
<1> SUFFICES ASSUME NEW i \in 1 .. Len(s) + Len(t), NEW j \in 1 .. Len(s) + Len(t),
                    (s \o t)[i] = (s \o t)[j]
             PROVE  i = j
  BY <1>1 DEF IsInjective
<1>3. CASE i <= Len(s) /\ j <= Len(s)
  BY <1>1, <1>2, <1>3 DEF IsInjective
<1>4. CASE ~ (i <= Len(s)) /\ ~ (j <= Len(s))
  <2>1. i - Len(s) = j - Len(s)
    BY <1>1, <1>2, <1>4, Zenon DEF IsInjective
  <2>. QED
    BY <1>1, <2>1
<1>5. CASE i <= Len(s) <=> ~ (j <= Len(s))
  BY <1>1, <1>2, <1>5
<1>. QED
  BY <1>3, <1>4, <1>5

(***************************************************************************)
(* A log without repetition stays one if the new entry is new.             *)
(***************************************************************************)
LEMMA InjectiveAppend ==
  ASSUME NEW S, NEW s \in Seq(S), NEW e \in S
  PROVE  IsInjective(Append(s, e)) <=> IsInjective(s) /\ e \notin ToSet(s)
<1>1. /\ Len(s) \in Nat /\ DOMAIN s = 1 .. Len(s)
      /\ DOMAIN Append(s, e) = 1 .. Len(s) + 1
      /\ \A i \in 1 .. Len(s) : Append(s, e)[i] = s[i]
      /\ Append(s, e)[Len(s) + 1] = e
  BY LenProperties, AppendProperties
<1>2. /\ \A i \in 1 .. Len(s) : i \in 1 .. Len(s) + 1 /\ i # Len(s) + 1
      /\ \A i \in 1 .. Len(s) + 1 : i \in 1 .. Len(s) \/ i = Len(s) + 1
      /\ Len(s) + 1 \in 1 .. Len(s) + 1
  BY <1>1
<1>3. ASSUME IsInjective(Append(s, e)) PROVE IsInjective(s) /\ e \notin ToSet(s)
  BY <1>1, <1>2, <1>3, Zenon DEF IsInjective, ToSet
<1>4. ASSUME IsInjective(s), e \notin ToSet(s) PROVE IsInjective(Append(s, e))
  BY <1>1, <1>2, <1>4, Zenon DEF IsInjective, ToSet
<1>. QED
  BY <1>3, <1>4

-----------------------------------------------------------------------------
(***************************************************************************)
(* Flattening logs of one type is a log of it; flattening two lists of     *)
(* parts in a row is flattening each.                                      *)
(***************************************************************************)
LEMMA FlattenType ==
  ASSUME NEW S, NEW parts \in Seq(Seq(S))
  PROVE  FlattenSeq(parts) \in Seq(S)
<1> DEFINE T == {p \in Seq(Seq(S)) : FlattenSeq(p) \in Seq(S)}
<1>1. << >> \in T
  BY FlattenEmpty, EmptySeq
<1>2. ASSUME NEW p \in Seq(Seq(S)), NEW e \in Seq(S), p \in T PROVE Append(p, e) \in T
  BY <1>2, FlattenAppend, AppendProperties, ConcatProperties
<1> HIDE DEF T
<1>3. parts \in T
  BY <1>1, <1>2, SequenceInduction
<1>. QED
  BY <1>3 DEF T

(***************************************************************************)
(* Flattening two lists of parts in a row is flattening each.              *)
(***************************************************************************)
LEMMA FlattenConcat ==
  ASSUME NEW S, NEW a \in Seq(Seq(S)), NEW b \in Seq(Seq(S))
  PROVE  FlattenSeq(a \o b) = FlattenSeq(a) \o FlattenSeq(b)
<1>0. \A s, t, u \in Seq(S) : (s \o t) \o u = s \o (t \o u)
  BY ConcatTwice
<1> DEFINE T == {p \in Seq(Seq(S)) : FlattenSeq(a \o p) = FlattenSeq(a) \o FlattenSeq(p)}
<1>1. << >> \in T
  <2>1. a \o << >> = a /\ FlattenSeq(a) \in Seq(S)
    BY ConcatEmptySeq, FlattenType
  <2>2. FlattenSeq(a) \o << >> = FlattenSeq(a)
    BY <2>1, ConcatEmptySeq
  <2>. QED
    BY <2>1, <2>2, FlattenEmpty, EmptySeq
<1>2. ASSUME NEW p \in Seq(Seq(S)), NEW e \in Seq(S), p \in T PROVE Append(p, e) \in T
  <2>1. /\ a \o p \in Seq(Seq(S)) /\ Append(p, e) \in Seq(Seq(S))
        /\ a \o Append(p, e) = Append(a \o p, e)
    BY ConcatProperties, AppendProperties, ConcatAppend
  <2>2. FlattenSeq(a \o Append(p, e)) = FlattenSeq(a \o p) \o e
    BY <2>1, FlattenAppend
  <2>3. FlattenSeq(a \o p) = FlattenSeq(a) \o FlattenSeq(p)
    BY <1>2
  <2>4. FlattenSeq(a) \in Seq(S) /\ FlattenSeq(p) \in Seq(S)
    BY FlattenType
  <2>5. (FlattenSeq(a) \o FlattenSeq(p)) \o e = FlattenSeq(a) \o (FlattenSeq(p) \o e)
    BY <1>0, <2>4
  <2>6. FlattenSeq(p) \o e = FlattenSeq(Append(p, e))
    BY FlattenAppend
  <2>. QED
    BY <2>1, <2>2, <2>3, <2>5, <2>6
<1> HIDE DEF T
<1>3. b \in T
  BY <1>1, <1>2, SequenceInduction
<1>. QED
  BY <1>3 DEF T

(***************************************************************************)
(* The entries of a flattening are those of its parts; it has no           *)
(* repetition if no part has and no two parts share an entry.              *)
(***************************************************************************)
LEMMA FlattenEntries ==
  ASSUME NEW S, NEW parts \in Seq(Seq(S))
  PROVE  ToSet(FlattenSeq(parts)) = UNION {ToSet(p) : p \in ToSet(parts)}
<1> DEFINE T == {q \in Seq(Seq(S)) :
                   ToSet(FlattenSeq(q)) = UNION {ToSet(p) : p \in ToSet(q)}}
<1>1. << >> \in T
  BY FlattenEmpty, EmptySeq, EntriesOfNone
<1>2. ASSUME NEW q \in Seq(Seq(S)), NEW e \in Seq(S), q \in T PROVE Append(q, e) \in T
  <2>1. ToSet(Append(q, e)) = ToSet(q) \cup {e} /\ Append(q, e) \in Seq(Seq(S))
    BY EntriesAppend, AppendProperties
  <2>2. FlattenSeq(Append(q, e)) = FlattenSeq(q) \o e /\ FlattenSeq(q) \in Seq(S)
    BY FlattenAppend, FlattenType
  <2>3. ToSet(FlattenSeq(q) \o e) = ToSet(FlattenSeq(q)) \cup ToSet(e)
    BY <2>2, EntriesConcat
  <2>4. ToSet(FlattenSeq(q)) = UNION {ToSet(p) : p \in ToSet(q)}
    BY <1>2
  <2>5. ToSet(FlattenSeq(Append(q, e))) = UNION {ToSet(p) : p \in ToSet(Append(q, e))}
    BY <2>1, <2>2, <2>3, <2>4, Zenon
  <2>. QED
    BY <2>1, <2>5
<1> HIDE DEF T
<1>3. parts \in T
  BY <1>1, <1>2, SequenceInduction
<1>. QED
  BY <1>3 DEF T

\* No part has a repetition, and no two share an entry.
PartsApart(parts) ==
  /\ \A i \in 1 .. Len(parts) : IsInjective(parts[i])
  /\ \A i, j \in 1 .. Len(parts) : i # j => ToSet(parts[i]) \cap ToSet(parts[j]) = {}

(***************************************************************************)
(* A flattening has no repetition if its parts are apart.                  *)
(***************************************************************************)
LEMMA FlattenInjective ==
  ASSUME NEW S, NEW parts \in Seq(Seq(S)), PartsApart(parts)
  PROVE  IsInjective(FlattenSeq(parts))
<1> DEFINE T == {q \in Seq(Seq(S)) : PartsApart(q) => IsInjective(FlattenSeq(q))}
<1>1. << >> \in T
  BY FlattenEmpty, EmptySeq DEF IsInjective
<1>2. ASSUME NEW q \in Seq(Seq(S)), NEW e \in Seq(S), q \in T PROVE Append(q, e) \in T
  <2>1. Append(q, e) \in Seq(Seq(S))
    BY AppendProperties
  <2> SUFFICES ASSUME PartsApart(Append(q, e)) PROVE IsInjective(FlattenSeq(Append(q, e)))
    BY <2>1
  <2>2. /\ Len(q) \in Nat /\ DOMAIN q = 1 .. Len(q)
        /\ Len(Append(q, e)) = Len(q) + 1
        /\ \A i \in 1 .. Len(q) : Append(q, e)[i] = q[i]
        /\ Append(q, e)[Len(q) + 1] = e
    BY LenProperties, AppendProperties
  <2>3. /\ \A i \in 1 .. Len(q) : i \in 1 .. Len(q) + 1 /\ i # Len(q) + 1
        /\ Len(q) + 1 \in 1 .. Len(q) + 1
    BY <2>2
  <2>4. /\ PartsApart(q)
        /\ IsInjective(e)
        /\ \A i \in 1 .. Len(q) : ToSet(q[i]) \cap ToSet(e) = {}
    BY <2>2, <2>3, Zenon DEF PartsApart
  <2>5. ToSet(FlattenSeq(q)) \cap ToSet(e) = {}
    <3>1. ToSet(FlattenSeq(q)) = UNION {ToSet(p) : p \in ToSet(q)}
      BY FlattenEntries
    <3>2. ToSet(q) = {q[i] : i \in 1 .. Len(q)}
      BY <2>2, Zenon DEF ToSet
    <3> SUFFICES ASSUME NEW x, x \in ToSet(FlattenSeq(q)), x \in ToSet(e) PROVE FALSE
      BY Zenon
    <3>3. PICK p \in ToSet(q) : x \in ToSet(p)
      BY <3>1, Zenon
    <3>4. PICK i \in 1 .. Len(q) : p = q[i]
      BY <3>2, Zenon
    <3>. QED
      BY <2>4, <3>3, <3>4, Zenon
  <2>6. IsInjective(FlattenSeq(q)) /\ FlattenSeq(q) \in Seq(S)
    BY <1>2, <2>4, FlattenType
  <2>7. IsInjective(FlattenSeq(q) \o e)
    BY <2>4, <2>5, <2>6, InjectiveConcat
  <2>. QED
    BY <2>7, FlattenAppend
<1> HIDE DEF T
<1>3. parts \in T
  BY <1>1, <1>2, SequenceInduction
<1>. QED
  BY <1>3 DEF T

-----------------------------------------------------------------------------
\* What an entry leaves of itself in a selection.
Kept(e, T) == IF e \in T THEN <<e>> ELSE << >>

(***************************************************************************)
(* What an entry leaves of itself is a log of one entry or none.           *)
(***************************************************************************)
LEMMA KeptType ==
  ASSUME NEW S, NEW e \in S, NEW T
  PROVE  Kept(e, T) \in Seq(S)
BY DEF Kept

(***************************************************************************)
(* Selecting from nothing, and from a log with one entry more.             *)
(***************************************************************************)
LEMMA SelectEmpty ==
  ASSUME NEW T
  PROVE  Select(<< >>, T) = << >>
<1>1. [i \in 1 .. Len(<< >>) |-> Kept(<< >>[i], T)] = << >>
  BY EmptySeq
<1>. QED
  BY <1>1, FlattenEmpty, Zenon DEF Select, Kept

(***************************************************************************)
(* Selecting from a log with one entry more.                               *)
(***************************************************************************)
LEMMA SelectAppend ==
  ASSUME NEW S, NEW s \in Seq(S), NEW e \in S, NEW T
  PROVE  Select(Append(s, e), T) = Select(s, T) \o Kept(e, T)
<1> DEFINE Parts(u) == [i \in 1 .. Len(u) |-> Kept(u[i], T)]
<1>1. /\ Len(s) \in Nat
      /\ Len(Append(s, e)) = Len(s) + 1
      /\ \A i \in 1 .. Len(s) : s[i] \in S /\ Append(s, e)[i] = s[i]
      /\ Append(s, e)[Len(s) + 1] = e
  BY LenProperties, AppendProperties, ElementOfSeq
<1>2. /\ Parts(s) \in Seq(Seq(S)) /\ Len(Parts(s)) = Len(s)
      /\ Kept(e, T) \in Seq(S)
  <2>1. Parts(s) \in [1 .. Len(s) -> Seq(S)]
    BY <1>1, KeptType
  <2>. QED
    BY <1>1, <2>1, FunctionIsSequence, KeptType
<1>3. Parts(Append(s, e)) = Append(Parts(s), Kept(e, T))
  <2>1. /\ Append(Parts(s), Kept(e, T)) \in Seq(Seq(S))
        /\ Len(Append(Parts(s), Kept(e, T))) = Len(s) + 1
        /\ \A i \in 1 .. Len(s) : Append(Parts(s), Kept(e, T))[i] = Parts(s)[i]
        /\ Append(Parts(s), Kept(e, T))[Len(s) + 1] = Kept(e, T)
    BY <1>2, AppendProperties
  <2>2. /\ Parts(Append(s, e)) \in [1 .. Len(s) + 1 -> Seq(S)]
        /\ \A i \in 1 .. Len(s) : Parts(Append(s, e))[i] = Kept(s[i], T)
        /\ Parts(Append(s, e))[Len(s) + 1] = Kept(e, T)
    BY <1>1, KeptType
  <2>3. \A i \in 1 .. Len(s) : Parts(s)[i] = Kept(s[i], T)
    OBVIOUS
  <2> HIDE DEF Parts
  <2>4. /\ Parts(Append(s, e)) \in Seq(Seq(S))
        /\ Len(Parts(Append(s, e))) = Len(s) + 1
    BY <1>1, <2>2, FunctionIsSequence
  <2>5. \A i \in 1 .. Len(s) + 1 : i \in 1 .. Len(s) \/ i = Len(s) + 1
    BY <1>1
  <2>6. \A i \in 1 .. Len(s) + 1 : Parts(Append(s, e))[i] = Append(Parts(s), Kept(e, T))[i]
    BY <2>1, <2>2, <2>3, <2>5, Zenon
  <2>. QED
    BY <2>1, <2>4, <2>6, SeqEqual
<1>4. FlattenSeq(Append(Parts(s), Kept(e, T))) = FlattenSeq(Parts(s)) \o Kept(e, T)
  <2> HIDE DEF Parts
  <2>. QED
    BY <1>2, FlattenAppend
<1>. QED
  BY <1>3, <1>4, Zenon DEF Select, Kept

(***************************************************************************)
(* Selecting from a log of one entry.                                      *)
(***************************************************************************)
LEMMA SelectSingle ==
  ASSUME NEW e, NEW T
  PROVE  Select(<<e>>, T) = Kept(e, T)
<1>1. /\ << >> \in Seq({e}) /\ e \in {e}
      /\ Append(<< >>, e) = <<e>>
      /\ Kept(e, T) \in Seq({e})
  BY EmptySeq, KeptType
<1>2. << >> \o Kept(e, T) = Kept(e, T)
  BY <1>1, ConcatEmptySeq
<1>3. Select(Append(<< >>, e), T) = Select(<< >>, T) \o Kept(e, T)
  BY <1>1, SelectAppend
<1>. QED
  BY <1>1, <1>2, <1>3, SelectEmpty

(***************************************************************************)
(* A selection is a log of what was selected; selecting from two logs in a *)
(* row is selecting from each.                                             *)
(***************************************************************************)
LEMMA SelectType ==
  ASSUME NEW S, NEW s \in Seq(S), NEW T
  PROVE  Select(s, T) \in Seq(S)
<1> DEFINE U == {u \in Seq(S) : Select(u, T) \in Seq(S)}
<1>1. << >> \in U
  BY SelectEmpty, EmptySeq
<1>2. ASSUME NEW u \in Seq(S), NEW e \in S, u \in U PROVE Append(u, e) \in U
  <2>1. Select(Append(u, e), T) = Select(u, T) \o Kept(e, T)
    BY SelectAppend
  <2>2. Select(u, T) \in Seq(S) /\ Kept(e, T) \in Seq(S) /\ Append(u, e) \in Seq(S)
    BY <1>2, KeptType, AppendProperties
  <2>3. Select(u, T) \o Kept(e, T) \in Seq(S)
    BY <2>2, ConcatProperties
  <2>. QED
    BY <2>1, <2>2, <2>3
<1> HIDE DEF U
<1>3. s \in U
  BY <1>1, <1>2, SequenceInduction
<1>. QED
  BY <1>3 DEF U

(***************************************************************************)
(* The entries of a selection are the log's that are selected.             *)
(***************************************************************************)
LEMMA SelectEntries ==
  ASSUME NEW S, NEW s \in Seq(S), NEW T
  PROVE  ToSet(Select(s, T)) = ToSet(s) \cap T
<1> DEFINE U == {u \in Seq(S) : ToSet(Select(u, T)) = ToSet(u) \cap T}
<1>1. << >> \in U
  BY SelectEmpty, EmptySeq, EntriesOfNone
<1>2. ASSUME NEW u \in Seq(S), NEW e \in S, u \in U PROVE Append(u, e) \in U
  <2>1. /\ Append(u, e) \in Seq(S) /\ Select(u, T) \in Seq(S) /\ Kept(e, T) \in Seq(S)
        /\ ToSet(Append(u, e)) = ToSet(u) \cup {e}
    BY AppendProperties, SelectType, KeptType, EntriesAppend
  <2>2. ToSet(Select(u, T) \o Kept(e, T)) = ToSet(Select(u, T)) \cup ToSet(Kept(e, T))
    BY <2>1, EntriesConcat
  <2>3. ToSet(Kept(e, T)) = {e} \cap T
    BY DEF Kept, ToSet
  <2>4. Select(Append(u, e), T) = Select(u, T) \o Kept(e, T)
    BY SelectAppend
  <2>. QED
    BY <1>2, <2>1, <2>2, <2>3, <2>4
<1> HIDE DEF U
<1>3. s \in U
  BY <1>1, <1>2, SequenceInduction
<1>. QED
  BY <1>3 DEF U

(***************************************************************************)
(* Selecting from two logs in a row is selecting from each.                *)
(***************************************************************************)
LEMMA SelectConcat ==
  ASSUME NEW S, NEW s \in Seq(S), NEW t \in Seq(S), NEW T
  PROVE  Select(s \o t, T) = Select(s, T) \o Select(t, T)
<1> DEFINE U == {u \in Seq(S) : Select(s \o u, T) = Select(s, T) \o Select(u, T)}
<1>1. << >> \in U
  <2>1. Select(s, T) \in Seq(S)
    BY SelectType
  <2>. QED
    BY <2>1, SelectEmpty, EmptySeq, ConcatEmptySeq
<1>2. ASSUME NEW u \in Seq(S), NEW e \in S, u \in U PROVE Append(u, e) \in U
  <2>1. /\ Append(u, e) \in Seq(S) /\ s \o u \in Seq(S)
        /\ s \o Append(u, e) = Append(s \o u, e)
    BY AppendProperties, ConcatProperties, ConcatAppend
  <2>2. Select(Append(s \o u, e), T) = Select(s \o u, T) \o Kept(e, T)
    <3> HIDE DEF U
    <3>. QED
      BY <2>1, SelectAppend, Zenon
  <2>3. Select(s \o u, T) = Select(s, T) \o Select(u, T)
    BY <1>2
  <2>4. Select(s, T) \in Seq(S) /\ Select(u, T) \in Seq(S) /\ Kept(e, T) \in Seq(S)
    BY SelectType, KeptType
  <2>5. (Select(s, T) \o Select(u, T)) \o Kept(e, T) = Select(s, T) \o (Select(u, T) \o Kept(e, T))
    BY <2>4, ConcatAssociative
  <2>6. Select(Append(u, e), T) = Select(u, T) \o Kept(e, T)
    BY SelectAppend
  <2>. QED
    BY <2>1, <2>2, <2>3, <2>5, <2>6
<1> HIDE DEF U
<1>3. t \in U
  BY <1>1, <1>2, SequenceInduction
<1>. QED
  BY <1>3 DEF U

(***************************************************************************)
(* Selecting all of a log, or nothing of it.                               *)
(***************************************************************************)
LEMMA SelectAll ==
  ASSUME NEW S, NEW s \in Seq(S), NEW T, ToSet(s) \subseteq T
  PROVE  Select(s, T) = s
<1> DEFINE U == {u \in Seq(S) : ToSet(u) \subseteq T => Select(u, T) = u}
<1>1. << >> \in U
  BY SelectEmpty, EmptySeq
<1>2. ASSUME NEW u \in Seq(S), NEW e \in S, u \in U PROVE Append(u, e) \in U
  <2>1. /\ Append(u, e) \in Seq(S)
        /\ ToSet(Append(u, e)) = ToSet(u) \cup {e}
        /\ Append(u, e) = u \o <<e>>
    BY AppendProperties, EntriesAppend, AppendIsConcat
  <2>2. Select(Append(u, e), T) = Select(u, T) \o Kept(e, T)
    BY SelectAppend
  <2>3. e \in T => Kept(e, T) = <<e>>
    BY DEF Kept
  <2>. QED
    BY <1>2, <2>1, <2>2, <2>3
<1> HIDE DEF U
<1>3. s \in U
  BY <1>1, <1>2, SequenceInduction
<1>. QED
  BY <1>3 DEF U

(***************************************************************************)
(* Selecting what a log does not have leaves nothing.                      *)
(***************************************************************************)
LEMMA SelectNone ==
  ASSUME NEW S, NEW s \in Seq(S), NEW T, ToSet(s) \cap T = {}
  PROVE  Select(s, T) = << >>
<1>1. /\ Select(s, T) \in Seq(S)
      /\ ToSet(Select(s, T)) = {}
  BY SelectType, SelectEntries
<1>2. /\ Len(Select(s, T)) \in Nat
      /\ DOMAIN Select(s, T) = 1 .. Len(Select(s, T))
  BY <1>1, LenProperties
<1>3. 1 \notin DOMAIN Select(s, T)
  BY <1>1, Zenon DEF ToSet
<1>. QED
  BY <1>1, <1>2, <1>3, EmptySeq

(***************************************************************************)
(* What is selected depends on the entries of the log only.                *)
(***************************************************************************)
LEMMA SelectSame ==
  ASSUME NEW S, NEW s \in Seq(S), NEW T, NEW U, ToSet(s) \cap T = ToSet(s) \cap U
  PROVE  Select(s, T) = Select(s, U)
<1>1. \A i \in 1 .. Len(s) : s[i] \in ToSet(s)
  BY LenProperties DEF ToSet
<1>2. \A i \in 1 .. Len(s) : s[i] \in T <=> s[i] \in U
  BY <1>1
<1>3. [i \in 1 .. Len(s) |-> IF s[i] \in T THEN <<s[i]>> ELSE << >>]
        = [i \in 1 .. Len(s) |-> IF s[i] \in U THEN <<s[i]>> ELSE << >>]
  BY <1>2, Zenon
<1>. QED
  BY <1>3, Zenon DEF Select

(***************************************************************************)
(* A selection of a selection; a selection of a log without repetition.    *)
(***************************************************************************)
LEMMA SelectTwice ==
  ASSUME NEW S, NEW s \in Seq(S), NEW T, NEW U
  PROVE  Select(Select(s, T), U) = Select(s, T \cap U)
<1>0. \A u, v \in Seq(S) : Select(u \o v, U) = Select(u, U) \o Select(v, U)
  BY SelectConcat
<1> DEFINE V == {u \in Seq(S) : Select(Select(u, T), U) = Select(u, T \cap U)}
<1>1. << >> \in V
  BY SelectEmpty, EmptySeq
<1>2. ASSUME NEW u \in Seq(S), NEW e \in S, u \in V PROVE Append(u, e) \in V
  <2>1. Append(u, e) \in Seq(S) /\ Select(u, T) \in Seq(S) /\ Kept(e, T) \in Seq(S)
    BY AppendProperties, SelectType, KeptType
  <2>2. Select(Append(u, e), T) = Select(u, T) \o Kept(e, T)
    BY SelectAppend
  <2>3. Select(Select(u, T) \o Kept(e, T), U)
          = Select(Select(u, T), U) \o Select(Kept(e, T), U)
    BY <1>0, <2>1
  <2>4. Select(Kept(e, T), U) = Kept(e, T \cap U)
    BY SelectEmpty, SelectSingle DEF Kept
  <2>5. Select(Append(u, e), T \cap U) = Select(u, T \cap U) \o Kept(e, T \cap U)
    BY SelectAppend
  <2>. QED
    BY <1>2, <2>1, <2>2, <2>3, <2>4, <2>5
<1> HIDE DEF V
<1>3. s \in V
  BY <1>1, <1>2, SequenceInduction
<1>. QED
  BY <1>3 DEF V

(***************************************************************************)
(* A selection of a log without repetition has no repetition.              *)
(***************************************************************************)
LEMMA SelectInjective ==
  ASSUME NEW S, NEW s \in Seq(S), NEW T, IsInjective(s)
  PROVE  IsInjective(Select(s, T))
<1> DEFINE U == {u \in Seq(S) : IsInjective(u) => IsInjective(Select(u, T))}
<1>1. << >> \in U
  BY SelectEmpty, EmptySeq DEF IsInjective
<1>2. ASSUME NEW u \in Seq(S), NEW e \in S, u \in U PROVE Append(u, e) \in U
  <2>1. Append(u, e) \in Seq(S) /\ Select(u, T) \in Seq(S)
    BY AppendProperties, SelectType
  <2> SUFFICES ASSUME IsInjective(Append(u, e)) PROVE IsInjective(Select(Append(u, e), T))
    BY <2>1
  <2>2. IsInjective(u) /\ e \notin ToSet(u)
    BY InjectiveAppend
  <2>3. IsInjective(Select(u, T)) /\ e \notin ToSet(Select(u, T))
    BY <1>2, <2>2, SelectEntries
  <2>4. Select(Append(u, e), T) = Select(u, T) \o Kept(e, T)
    BY SelectAppend
  <2>5. CASE e \in T
    <3>1. Select(Append(u, e), T) = Append(Select(u, T), e)
      BY <2>1, <2>4, <2>5, AppendIsConcat DEF Kept
    <3>. QED
      BY <2>1, <2>3, <3>1, InjectiveAppend
  <2>6. CASE e \notin T
    BY <2>1, <2>3, <2>4, <2>6, ConcatEmptySeq DEF Kept
  <2>. QED
    BY <2>5, <2>6
<1> HIDE DEF U
<1>3. s \in U
  BY <1>1, <1>2, SequenceInduction
<1>. QED
  BY <1>3 DEF U

(***************************************************************************)
(* Flattening a function on 1 .. m + n is flattening it up to m and then   *)
(* after m.                                                                *)
(***************************************************************************)
LEMMA FlattenSplit ==
  ASSUME NEW S, NEW m \in Nat, NEW n \in Nat, NEW f \in [1 .. m + n -> Seq(S)]
  PROVE  FlattenSeq(f) = FlattenSeq([i \in 1 .. m |-> f[i]])
                           \o FlattenSeq([i \in 1 .. n |-> f[m + i]])
<1> DEFINE P == Seq(S)
           a == [i \in 1 .. m |-> f[i]]
           b == [i \in 1 .. n |-> f[m + i]]
<1>1. f \in [1 .. m + n -> P] /\ a \in [1 .. m -> P] /\ b \in [1 .. n -> P] /\ m + n \in Nat
  OBVIOUS
<1>2. /\ \A i \in 1 .. m : a[i] = f[i]
      /\ \A i \in 1 .. n : b[i] = f[m + i]
  OBVIOUS
<1> HIDE DEF P, a, b
<1>3. /\ f \in Seq(P) /\ Len(f) = m + n
      /\ a \in Seq(P) /\ Len(a) = m
      /\ b \in Seq(P) /\ Len(b) = n
  BY <1>1, FunctionIsSequence
<1>4. a \o b = f
  <2>1. /\ a \o b \in Seq(P) /\ Len(a \o b) = m + n
        /\ \A i \in 1 .. m + n : (a \o b)[i] = IF i <= m THEN a[i] ELSE b[i - m]
    BY <1>3, ConcatProperties
  <2>2. ASSUME NEW i \in 1 .. m + n PROVE (a \o b)[i] = f[i]
    <3>1. IF i <= m THEN i \in 1 .. m ELSE i - m \in 1 .. n /\ m + (i - m) = i
      OBVIOUS
    <3>. QED
      BY <1>2, <2>1, <3>1, Zenon
  <2>. QED
    BY <1>3, <2>1, <2>2, SeqEqual
<1>5. a \in Seq(Seq(S)) /\ b \in Seq(Seq(S))
  BY <1>3, Zenon DEF P
<1>6. FlattenSeq(a \o b) = FlattenSeq(a) \o FlattenSeq(b)
  BY <1>5, FlattenConcat, Zenon
<1>. QED
  BY <1>4, <1>6, Zenon DEF a, b

(***************************************************************************)
(* Selecting from a flattening is flattening the selections from its parts.*)
(***************************************************************************)
LEMMA SelectFlatten ==
  ASSUME NEW S, NEW parts \in Seq(Seq(S)), NEW T
  PROVE  Select(FlattenSeq(parts), T)
           = FlattenSeq([i \in 1 .. Len(parts) |-> Select(parts[i], T)])
<1> DEFINE P == Seq(S)
           Selected(q) == [i \in 1 .. Len(q) |-> Select(q[i], T)]
           V == {q \in Seq(P) : Select(FlattenSeq(q), T) = FlattenSeq(Selected(q))}
<1>1. << >> \in V
  <2>1. Selected(<< >>) = << >>
    BY EmptySeq
  <2>. QED
    BY <2>1, EmptySeq, FlattenEmpty, SelectEmpty
<1>2. ASSUME NEW q \in Seq(P), NEW e \in P, q \in V PROVE Append(q, e) \in V
  <2>1. /\ Len(q) \in Nat /\ Append(q, e) \in Seq(P)
        /\ Len(Append(q, e)) = Len(q) + 1
        /\ \A i \in 1 .. Len(q) : q[i] \in P /\ Append(q, e)[i] = q[i]
        /\ Append(q, e)[Len(q) + 1] = e
    <3> HIDE DEF P, V
    <3>. QED
      BY LenProperties, AppendProperties, ElementOfSeq
  <2>2. \A u \in P : Select(u, T) \in P
    BY SelectType
  <2>3. Selected(q) \in Seq(P) /\ Len(Selected(q)) = Len(q)
    <3> HIDE DEF P, V
    <3>1. Selected(q) \in [1 .. Len(q) -> P]
      BY <2>1, <2>2
    <3>. QED
      BY <2>1, <3>1, FunctionIsSequence
  <2>4. Selected(Append(q, e)) = Append(Selected(q), Select(e, T))
    <3>1. Select(e, T) \in P
      BY <2>2
    <3>2. \A i \in 1 .. Len(q) : Selected(q)[i] = Select(q[i], T)
      OBVIOUS
    <3> HIDE DEF P, V
    <3>3. /\ Append(Selected(q), Select(e, T)) \in Seq(P)
          /\ Len(Append(Selected(q), Select(e, T))) = Len(q) + 1
          /\ \A i \in 1 .. Len(q) : Append(Selected(q), Select(e, T))[i] = Selected(q)[i]
          /\ Append(Selected(q), Select(e, T))[Len(q) + 1] = Select(e, T)
      <4> HIDE DEF Selected
      <4>. QED
        BY <2>1, <2>3, <3>1, AppendProperties
    <3>4. /\ Selected(Append(q, e)) \in [1 .. Len(q) + 1 -> P]
          /\ \A i \in 1 .. Len(q) : Selected(Append(q, e))[i] = Select(q[i], T)
          /\ Selected(Append(q, e))[Len(q) + 1] = Select(e, T)
      BY <2>1, <2>2
    <3> HIDE DEF Selected
    <3>5. Selected(Append(q, e)) \in Seq(P) /\ Len(Selected(Append(q, e))) = Len(q) + 1
      BY <2>1, <3>4, FunctionIsSequence
    <3>6. \A i \in 1 .. Len(q) + 1 : i \in 1 .. Len(q) \/ i = Len(q) + 1
      BY <2>1
    <3>7. \A i \in 1 .. Len(q) + 1 :
            Selected(Append(q, e))[i] = Append(Selected(q), Select(e, T))[i]
      BY <3>2, <3>3, <3>4, <3>6, Zenon
    <3>. QED
      BY <3>3, <3>5, <3>7, SeqEqual
  <2> HIDE DEF Selected, V
  <2>5. FlattenSeq(Append(q, e)) = FlattenSeq(q) \o e /\ FlattenSeq(q) \in Seq(S) /\ e \in Seq(S)
    BY FlattenAppend, FlattenType
  <2>6. Select(FlattenSeq(q) \o e, T) = Select(FlattenSeq(q), T) \o Select(e, T)
    BY <2>5, SelectConcat
  <2>7. FlattenSeq(Append(Selected(q), Select(e, T))) = FlattenSeq(Selected(q)) \o Select(e, T)
    BY <2>2, <2>3, FlattenAppend
  <2>8. Select(FlattenSeq(q), T) = FlattenSeq(Selected(q))
    BY <1>2, Zenon DEF V
  <2>9. Select(FlattenSeq(Append(q, e)), T) = FlattenSeq(Selected(Append(q, e)))
    BY <2>4, <2>5, <2>6, <2>7, <2>8, Zenon
  <2>. QED
    BY <2>1, <2>9, Zenon DEF V
<1>3. parts \in Seq(P)
  BY Zenon
<1> HIDE DEF V, P
<1>4. parts \in V
  BY <1>1, <1>2, <1>3, SequenceInduction
<1>. QED
  BY <1>4, Zenon DEF V

-----------------------------------------------------------------------------
(***************************************************************************)
(* Applying a function to the entries of a log, before or after selecting. *)
(***************************************************************************)
\* f takes what is in S to what is in R.
Maps(f, S, R) == \A e \in S : f[e] \in R

Mapped(f, s) == [i \in 1 .. Len(s) |-> f[s[i]]]

(***************************************************************************)
(* The image of a log over S under f from S to R is a log over R.          *)
(***************************************************************************)
LEMMA MappedType ==
  ASSUME NEW S, NEW R, NEW f, Maps(f, S, R), NEW s \in Seq(S)
  PROVE  Mapped(f, s) \in Seq(R) /\ Len(Mapped(f, s)) = Len(s)
<1>1. Len(s) \in Nat /\ \A i \in 1 .. Len(s) : s[i] \in S
  BY LenProperties, ElementOfSeq
<1>2. Mapped(f, s) \in [1 .. Len(s) -> R]
  BY <1>1 DEF Mapped, Maps
<1>. QED
  BY <1>1, <1>2, FunctionIsSequence

(***************************************************************************)
(* The image of two logs in a row is the images in a row.                  *)
(***************************************************************************)
LEMMA MappedConcat ==
  ASSUME NEW S, NEW R, NEW f, Maps(f, S, R)
  PROVE  \A s, t \in Seq(S) : Mapped(f, s \o t) = Mapped(f, s) \o Mapped(f, t)
<1> SUFFICES ASSUME NEW s \in Seq(S), NEW t \in Seq(S)
             PROVE  Mapped(f, s \o t) = Mapped(f, s) \o Mapped(f, t)
  OBVIOUS
<1> DEFINE x == Mapped(f, s)
           y == Mapped(f, t)
           z == Mapped(f, s \o t)
<1>1. /\ s \o t \in Seq(S)
      /\ Len(s) \in Nat /\ Len(t) \in Nat
      /\ Len(s \o t) = Len(s) + Len(t)
      /\ \A i \in 1 .. Len(s) + Len(t) :
           (s \o t)[i] = IF i <= Len(s) THEN s[i] ELSE t[i - Len(s)]
  BY ConcatProperties, LenProperties
<1>2. x \in Seq(R) /\ Len(x) = Len(s)
  BY MappedType
<1>3. y \in Seq(R) /\ Len(y) = Len(t)
  BY MappedType
<1>4. z \in Seq(R) /\ Len(z) = Len(s) + Len(t)
  <2>1. \A u \in Seq(S) : Mapped(f, u) \in Seq(R) /\ Len(Mapped(f, u)) = Len(u)
    BY MappedType
  <2>2. z \in Seq(R) /\ Len(z) = Len(s \o t)
    BY <1>1, <2>1, Zenon
  <2>. QED
    BY <1>1, <2>2
<1>5. ASSUME NEW i \in 1 .. Len(s) + Len(t)
      PROVE  z[i] = IF i <= Len(s) THEN x[i] ELSE y[i - Len(s)]
  <2>1. IF i <= Len(s) THEN i \in 1 .. Len(s) ELSE i - Len(s) \in 1 .. Len(t)
    BY <1>1
  <2>2. z[i] = f[(s \o t)[i]]
    BY <1>1, Zenon DEF Mapped
  <2>3. /\ i <= Len(s) => x[i] = f[s[i]]
        /\ ~ (i <= Len(s)) => y[i - Len(s)] = f[t[i - Len(s)]]
    BY <2>1, Zenon DEF Mapped
  <2> HIDE DEF x, y, z
  <2>. QED
    BY <1>1, <2>2, <2>3, Zenon
<1> HIDE DEF x, y, z
<1>6. /\ x \o y \in Seq(R)
      /\ Len(x \o y) = Len(s) + Len(t)
      /\ \A i \in 1 .. Len(s) + Len(t) :
           (x \o y)[i] = IF i <= Len(s) THEN x[i] ELSE y[i - Len(s)]
  BY <1>2, <1>3, ConcatAt
<1>7. z = x \o y
  BY <1>4, <1>5, <1>6, SeqEqual
<1>. QED
  BY <1>7 DEF x, y, z

(***************************************************************************)
(* A selection by image is the image of the selection.                     *)
(***************************************************************************)
LEMMA MappedSelect ==
  ASSUME NEW S, NEW R, NEW f, Maps(f, S, R), NEW s \in Seq(S), NEW T, NEW U,
         \A e \in S : e \in T <=> f[e] \in U
  PROVE  Mapped(f, Select(s, T)) = Select(Mapped(f, s), U)
<1>0. /\ Mapped(f, << >>) = << >>
      /\ \A e : Mapped(f, <<e>>) = <<f[e]>>
  BY EmptySeq DEF Mapped
<1>a. \A u, v \in Seq(S) : Mapped(f, u \o v) = Mapped(f, u) \o Mapped(f, v)
  BY MappedConcat
<1>b. \A u, v \in Seq(R) : Select(u \o v, U) = Select(u, U) \o Select(v, U)
  BY SelectConcat
<1> DEFINE V == {u \in Seq(S) : Mapped(f, Select(u, T)) = Select(Mapped(f, u), U)}
<1>1. << >> \in V
  BY <1>0, SelectEmpty, EmptySeq
<1>2. ASSUME NEW u \in Seq(S), NEW e \in S, u \in V PROVE Append(u, e) \in V
  <2>1. /\ <<e>> \in Seq(S) /\ <<f[e]>> \in Seq(R)
        /\ Append(u, e) = u \o <<e>> /\ Append(u, e) \in Seq(S)
        /\ Select(u, T) \in Seq(S) /\ Kept(e, T) \in Seq(S) /\ Mapped(f, u) \in Seq(R)
    <3>1. <<e>> \in Seq(S) /\ f[e] \in R /\ <<f[e]>> \in Seq(R)
      BY DEF Maps
    <3>2. Append(u, e) = u \o <<e>> /\ Append(u, e) \in Seq(S)
      BY AppendIsConcat, AppendProperties
    <3>3. Select(u, T) \in Seq(S) /\ Kept(e, T) \in Seq(S)
      BY SelectType, KeptType
    <3>4. Mapped(f, u) \in Seq(R)
      BY MappedType
    <3>. QED
      BY <3>1, <3>2, <3>3, <3>4
  <2>2. Mapped(f, Append(u, e)) = Mapped(f, u) \o <<f[e]>>
    BY <1>0, <1>a, <2>1
  <2>3. Select(Mapped(f, u) \o <<f[e]>>, U) = Select(Mapped(f, u), U) \o Kept(f[e], U)
    BY <1>b, <2>1, SelectSingle
  <2>4. Mapped(f, Select(u, T) \o Kept(e, T)) = Mapped(f, Select(u, T)) \o Mapped(f, Kept(e, T))
    BY <1>a, <2>1
  <2>5. Mapped(f, Kept(e, T)) = Kept(f[e], U)
    BY <1>0 DEF Kept
  <2>6. Select(Append(u, e), T) = Select(u, T) \o Kept(e, T)
    BY SelectAppend
  <2>. QED
    BY <1>2, <2>1, <2>2, <2>3, <2>4, <2>5, <2>6
<1> HIDE DEF V
<1>3. s \in V
  BY <1>1, <1>2, SequenceInduction
<1>. QED
  BY <1>3 DEF V

-----------------------------------------------------------------------------
\* The function that Total adds up the amounts of s with.
Sums(f, s, n) == f = [i \in 0 .. n |-> IF i = 0 THEN 0 ELSE f[i - 1] + s[i].amount]

(***************************************************************************)
(* That function exists, and two of them agree as far as the logs do.      *)
(***************************************************************************)
LEMMA SumsExists ==
  ASSUME NEW n \in Nat, NEW s
  PROVE  \E f : Sums(f, s, n)
<1> USE DEF Sums
<1> DEFINE T == {k \in Nat : \E f : Sums(f, s, k)}
<1>1. 0 \in T
  <2> DEFINE f == [i \in 0 .. 0 |-> 0]
  <2>1. Sums(f, s, 0)
    OBVIOUS
  <2>2. \E h : Sums(h, s, 0)
    <3> HIDE DEF f, Sums
    <3>. QED
      BY <2>1, Zenon
  <2>. QED
    BY <2>2
<1>2. ASSUME NEW k \in Nat, k \in T PROVE k + 1 \in T
  <2> PICK f : Sums(f, s, k)
    BY <1>2
  <2> DEFINE g == [i \in 0 .. k + 1 |->
                     IF i <= k THEN f[i] ELSE f[i - 1] + s[i].amount]
  <2>1. ASSUME NEW i \in 0 .. k + 1
        PROVE  g[i] = IF i = 0 THEN 0 ELSE g[i - 1] + s[i].amount
    <3>1. CASE i <= k
      <4>1. i \in 0 .. k /\ (i = 0 \/ i - 1 \in 0 .. k)
        BY <3>1
      <4>2. f[i] = IF i = 0 THEN 0 ELSE f[i - 1] + s[i].amount
        BY <4>1, Zenon
      <4>3. g[i] = f[i] /\ (i # 0 => g[i - 1] = f[i - 1])
        BY <4>1
      <4>. QED
        BY <4>2, <4>3
    <3>2. CASE i = k + 1
      <4>1. g[i - 1] = f[i - 1] /\ i # 0
        BY <3>2
      <4>2. g[i] = f[i - 1] + s[i].amount
        BY <3>2
      <4> HIDE DEF g
      <4>. QED
        BY <4>1, <4>2
    <3>. QED
      BY <3>1, <3>2
  <2>2. g = [i \in 0 .. k + 1 |-> g[i]]
    OBVIOUS
  <2>3. Sums(g, s, k + 1)
    <3> HIDE DEF g
    <3>. QED
      BY <2>1, <2>2, Zenon
  <2>4. \E h : Sums(h, s, k + 1)
    <3> HIDE DEF g, Sums
    <3>. QED
      BY <2>3, Zenon
  <2>5. k + 1 \in Nat
    OBVIOUS
  <2>. QED
    BY <2>4, <2>5, Zenon
<1> HIDE DEF T, Sums
<1>3. n \in T
  BY <1>1, <1>2, NaturalInduction
<1>. QED
  BY <1>3 DEF T

(***************************************************************************)
(* Two such functions agree as far as the logs do.                         *)
(***************************************************************************)
LEMMA SumsAgree ==
  ASSUME NEW m, NEW n, NEW s, NEW t, NEW f, NEW g,
         Sums(f, s, m), Sums(g, t, n),
         m \in Nat, n \in Nat, m <= n, \A i \in 1 .. m : s[i] = t[i]
  PROVE  f[m] = g[m]
<1> DEFINE T == {k \in Nat : k \in 0 .. m => f[k] = g[k]}
<1>1. 0 \in T
  <2>1. 0 \in 0 .. m /\ 0 \in 0 .. n
    OBVIOUS
  <2>2. f[0] = 0 /\ g[0] = 0
    BY <2>1, Zenon DEF Sums
  <2>. QED
    BY <2>2
<1>2. ASSUME NEW k \in Nat, k \in T PROVE k + 1 \in T
  <2> SUFFICES ASSUME k + 1 \in 0 .. m PROVE f[k + 1] = g[k + 1]
    OBVIOUS
  <2>1. /\ k + 1 \in 0 .. n /\ (k + 1) - 1 = k /\ k + 1 # 0
        /\ k \in 0 .. m /\ k + 1 \in 1 .. m
    OBVIOUS
  <2>2. f[k + 1] = f[(k + 1) - 1] + s[k + 1].amount
    BY <2>1, Zenon DEF Sums
  <2>3. g[k + 1] = g[(k + 1) - 1] + t[k + 1].amount
    BY <2>1, Zenon DEF Sums
  <2>4. f[k] = g[k]
    BY <1>2, <2>1, Zenon
  <2>5. s[k + 1] = t[k + 1]
    BY <2>1, Zenon
  <2> HIDE DEF T
  <2>. QED
    BY <2>1, <2>2, <2>3, <2>4, <2>5, Zenon
<1> HIDE DEF T
<1>3. m \in T
  BY <1>1, <1>2, NaturalInduction
<1>4. m \in 0 .. m
  OBVIOUS
<1>. QED
  BY <1>3, <1>4, Zenon DEF T

(***************************************************************************)
(* What Total is: the last value of a function that adds up.               *)
(***************************************************************************)
LEMMA TotalValue ==
  ASSUME NEW n \in Nat, NEW s, Len(s) = n
  PROVE  \E f : Sums(f, s, n) /\ Total(s) = f[n]
<1> DEFINE f == CHOOSE f : f = [i \in 0 .. n |-> IF i = 0 THEN 0 ELSE f[i - 1] + s[i].amount]
<1>1. Sums(f, s, n)
  BY SumsExists, Zenon DEF Sums
<1>2. Total(s) = f[n]
  BY Zenon DEF Total
<1>. QED
  <2> HIDE DEF f
  <2>. QED
    BY <1>1, <1>2, Zenon

(***************************************************************************)
(* The total of an empty log, and of a log with one entry more.            *)
(***************************************************************************)
LEMMA TotalEmpty ==
  Total(<< >>) = 0
<1>1. Len(<< >>) = 0 /\ 0 \in Nat /\ 0 \in 0 .. 0
  BY EmptySeq
<1>2. PICK f : Sums(f, << >>, 0) /\ Total(<< >>) = f[0]
  BY <1>1, TotalValue, Zenon
<1>. QED
  BY <1>1, <1>2, Zenon DEF Sums

(***************************************************************************)
(* The total of a log with one entry more.                                 *)
(***************************************************************************)
LEMMA TotalAppend ==
  ASSUME NEW S, NEW s \in Seq(S), NEW e \in S
  PROVE  Total(Append(s, e)) = Total(s) + e.amount
<1> DEFINE n == Len(s)
           longer == Append(s, e)
<1>1. /\ n \in Nat /\ Len(longer) = n + 1
      /\ \A i \in 1 .. n : longer[i] = s[i]
      /\ longer[n + 1] = e
  BY LenProperties, AppendProperties
<1>2. Len(s) = n
  OBVIOUS
<1> HIDE DEF n, longer
<1>3. n + 1 \in Nat /\ n + 1 # 0 /\ (n + 1) - 1 = n /\ n <= n + 1 /\ n + 1 \in 0 .. n + 1
  BY <1>1
<1>4. PICK f : Sums(f, s, n) /\ Total(s) = f[n]
  BY <1>1, <1>2, TotalValue, Zenon
<1>5. PICK g : Sums(g, longer, n + 1) /\ Total(longer) = g[n + 1]
  BY <1>1, <1>3, TotalValue, Zenon
<1>6. f[n] = g[n]
  <2>1. \A i \in 1 .. n : s[i] = longer[i]
    BY <1>1, Zenon
  <2>. QED
    BY <1>1, <1>3, <1>4, <1>5, <2>1, SumsAgree
<1>7. g[n + 1] = g[n] + longer[n + 1].amount
  BY <1>3, <1>5, Zenon DEF Sums
<1>8. Total(longer) = Total(s) + e.amount
  BY <1>1, <1>4, <1>5, <1>6, <1>7, Zenon
<1>. QED
  BY <1>8, Zenon DEF longer

(***************************************************************************)
(* Totals of natural amounts are natural, add up, and are not less for a   *)
(* selection's rest.                                                       *)
(***************************************************************************)
LEMMA TotalNat ==
  ASSUME NEW S, \A e \in S : e.amount \in Nat, NEW s \in Seq(S)
  PROVE  Total(s) \in Nat
<1> DEFINE U == {u \in Seq(S) : Total(u) \in Nat}
<1>1. << >> \in U
  BY TotalEmpty, EmptySeq
<1>2. ASSUME NEW u \in Seq(S), NEW e \in S, u \in U PROVE Append(u, e) \in U
  <2>1. Total(Append(u, e)) = Total(u) + e.amount
    BY TotalAppend
  <2>2. Append(u, e) \in Seq(S) /\ Total(u) \in Nat /\ e.amount \in Nat
    BY <1>2, AppendProperties
  <2>. QED
    BY <2>1, <2>2
<1> HIDE DEF U
<1>3. s \in U
  BY <1>1, <1>2, SequenceInduction
<1>. QED
  BY <1>3 DEF U

(***************************************************************************)
(* The total of two logs in a row is the sum of their totals.              *)
(***************************************************************************)
LEMMA TotalConcat ==
  ASSUME NEW S, \A e \in S : e.amount \in Nat, NEW s \in Seq(S), NEW t \in Seq(S)
  PROVE  Total(s \o t) = Total(s) + Total(t)
<1> DEFINE U == {u \in Seq(S) : Total(s \o u) = Total(s) + Total(u)}
<1>0. \A u \in Seq(S) : Total(u) \in Nat
  BY TotalNat
<1>1. << >> \in U
  BY <1>0, TotalEmpty, EmptySeq, ConcatEmptySeq
<1>2. ASSUME NEW u \in Seq(S), NEW e \in S, u \in U PROVE Append(u, e) \in U
  <2>1. /\ Append(u, e) \in Seq(S) /\ s \o u \in Seq(S)
        /\ s \o Append(u, e) = Append(s \o u, e)
    BY AppendProperties, ConcatProperties, ConcatAppend
  <2>2. Total(Append(s \o u, e)) = Total(s \o u) + e.amount
    BY <2>1, TotalAppend
  <2>3. Total(Append(u, e)) = Total(u) + e.amount
    BY TotalAppend
  <2>4. Total(s) \in Nat /\ Total(u) \in Nat /\ e.amount \in Nat
    BY <1>0
  <2>5. Total(s \o u) = Total(s) + Total(u)
    BY <1>2
  <2>6. Total(s \o Append(u, e)) = Total(s) + Total(Append(u, e))
    BY <2>1, <2>2, <2>3, <2>4, <2>5
  <2>. QED
    BY <2>1, <2>6
<1> HIDE DEF U
<1>3. t \in U
  BY <1>1, <1>2, SequenceInduction
<1>. QED
  BY <1>3 DEF U

(***************************************************************************)
(* A selection totals no more than the log.                                *)
(***************************************************************************)
LEMMA TotalSelect ==
  ASSUME NEW S, \A e \in S : e.amount \in Nat, NEW s \in Seq(S), NEW T
  PROVE  Total(Select(s, T)) <= Total(s)
<1> DEFINE U == {u \in Seq(S) : Total(Select(u, T)) <= Total(u)}
<1>0. \A u \in Seq(S) : Total(u) \in Nat /\ Select(u, T) \in Seq(S)
  BY TotalNat, SelectType
<1>1. << >> \in U
  BY SelectEmpty, TotalEmpty, EmptySeq
<1>2. ASSUME NEW u \in Seq(S), NEW e \in S, u \in U PROVE Append(u, e) \in U
  <2>1. Append(u, e) \in Seq(S) /\ Total(Append(u, e)) = Total(u) + e.amount
    BY AppendProperties, TotalAppend
  <2>2. Select(Append(u, e), T) = Select(u, T) \o Kept(e, T)
    BY SelectAppend
  <2>3. Total(Select(u, T)) \in Nat /\ Total(u) \in Nat /\ e.amount \in Nat
    BY <1>0
  <2>4. CASE e \in T
    <3>1. Select(Append(u, e), T) = Append(Select(u, T), e)
      BY <1>0, <2>2, <2>4, AppendIsConcat DEF Kept
    <3>2. Total(Append(Select(u, T), e)) = Total(Select(u, T)) + e.amount
      BY <1>0, TotalAppend
    <3>3. Total(Select(u, T)) <= Total(u)
      BY <1>2
    <3>4. Total(Select(Append(u, e), T)) <= Total(Append(u, e))
      BY <2>1, <2>3, <3>1, <3>2, <3>3
    <3>. QED
      BY <2>1, <3>4
  <2>5. CASE e \notin T
    <3>1. Select(Append(u, e), T) = Select(u, T)
      BY <1>0, <2>2, <2>5, ConcatEmptySeq DEF Kept
    <3>2. Total(Select(u, T)) <= Total(u)
      BY <1>2
    <3>3. Total(Select(Append(u, e), T)) <= Total(Append(u, e))
      BY <2>1, <2>3, <3>1, <3>2
    <3>. QED
      BY <2>1, <3>3
  <2>. QED
    BY <2>4, <2>5
<1> HIDE DEF U
<1>3. s \in U
  BY <1>1, <1>2, SequenceInduction
<1>. QED
  BY <1>3 DEF U

-----------------------------------------------------------------------------
(***************************************************************************)
(* A set of sets that has every subset of a finite set whose every rest by *)
(* one element it has, has all its subsets.                                *)
(***************************************************************************)
LEMMA SubsetInduction ==
  ASSUME NEW S, IsFiniteSet(S), NEW T,
         \A s \in SUBSET S : (\A x \in s : s \ {x} \in T) => s \in T
  PROVE  \A s \in SUBSET S : s \in T
<1> DEFINE L == {n \in Nat : \A s \in SUBSET S : Cardinality(s) = n => s \in T}
<1>0. \A s \in SUBSET S : IsFiniteSet(s) /\ Cardinality(s) \in Nat
  BY FS_Subset, FS_CardinalityType
<1>1. 0 \in L
  <2>1. ASSUME NEW s \in SUBSET S, Cardinality(s) = 0 PROVE s \in T
    <3>1. s = {}
      BY <1>0, <2>1, FS_EmptySet
    <3>. QED
      BY <3>1
  <2>. QED
    BY <2>1
<1>2. ASSUME NEW n \in Nat, n \in L PROVE n + 1 \in L
  <2> SUFFICES ASSUME NEW s \in SUBSET S, Cardinality(s) = n + 1 PROVE s \in T
    OBVIOUS
  <2>1. ASSUME NEW x \in s PROVE s \ {x} \in T
    <3>1. Cardinality(s \ {x}) = Cardinality(s) - 1
      BY <1>0, FS_RemoveElement
    <3>2. Cardinality(s \ {x}) = n /\ s \ {x} \in SUBSET S
      BY <3>1
    <3>. QED
      BY <1>2, <3>2
  <2>. QED
    BY <2>1
<1> HIDE DEF L
<1>3. \A n \in Nat : n \in L
  BY <1>1, <1>2, NaturalInduction
<1>. QED
  BY <1>0, <1>3 DEF L

-----------------------------------------------------------------------------
(* The function that SumFunctionOnSet adds up the values of v on subsets of S with. *)
Adds(f, v, S) ==
  f = [s \in SUBSET S |->
         IF s = {} THEN 0
         ELSE v[CHOOSE x \in s : TRUE] + f[s \ {CHOOSE x \in s : TRUE}]]

Same(v, w, S) == \A x \in S : v[x] = w[x]

(***************************************************************************)
(* That function exists for a finite set.                                  *)
(***************************************************************************)
LEMMA AddsExists ==
  ASSUME NEW S, IsFiniteSet(S), NEW v
  PROVE  \E f : Adds(f, v, S)
<1> DEFINE c(s) == CHOOSE x \in s : TRUE
           Eq(f, s) == f[s] = IF s = {} THEN 0 ELSE v[c(s)] + f[s \ {c(s)}]
           UpTo(f, n) == \A s \in SUBSET S : Cardinality(s) <= n => Eq(f, s)
           T == {n \in Nat : \E f : UpTo(f, n)}
<1>0. \A s \in SUBSET S : IsFiniteSet(s) /\ Cardinality(s) \in Nat
  BY FS_Subset, FS_CardinalityType
<1>a. ASSUME NEW s \in SUBSET S, s # {}
      PROVE  /\ s \ {c(s)} \in SUBSET S
             /\ Cardinality(s \ {c(s)}) = Cardinality(s) - 1
             /\ Cardinality(s) # 0
  <2>1. c(s) \in s
    BY <1>a
  <2>2. Cardinality(s \ {c(s)}) = Cardinality(s) - 1
    BY <1>0, <2>1, FS_RemoveElement
  <2>3. Cardinality(s) # 0
    BY <1>0, <1>a, FS_EmptySet
  <2>. QED
    BY <2>2, <2>3
<1>1. 0 \in T
  <2> DEFINE f == [s \in SUBSET S |-> 0]
  <2>1. ASSUME NEW s \in SUBSET S, Cardinality(s) <= 0 PROVE Eq(f, s)
    <3>1. Cardinality(s) = 0
      BY <1>0, <2>1
    <3>2. s = {}
      BY <1>0, <3>1, FS_EmptySet, Zenon
    <3>. QED
      BY <3>2
  <2> HIDE DEF f, Eq
  <2>. QED
    BY <2>1
<1>2. ASSUME NEW n \in Nat, n \in T PROVE n + 1 \in T
  <2> PICK f : UpTo(f, n)
    BY <1>2
  <2> DEFINE g == [s \in SUBSET S |->
                     IF Cardinality(s) <= n THEN f[s]
                     ELSE v[c(s)] + f[s \ {c(s)}]]
  <2>1. ASSUME NEW s \in SUBSET S, Cardinality(s) <= n + 1 PROVE Eq(g, s)
    <3> HIDE DEF c
    <3>1. CASE Cardinality(s) <= n
      <4>1. Eq(f, s) /\ g[s] = f[s]
        BY <3>1
      <4>2. s # {} => g[s \ {c(s)}] = f[s \ {c(s)}]
        BY <1>0, <1>a, <3>1
      <4> HIDE DEF g
      <4>. QED
        BY <4>1, <4>2
    <3>2. CASE ~ (Cardinality(s) <= n)
      <4>1. s # {}
        <5>1. Cardinality(s) # 0
          BY <3>2
        <5>. QED
          BY <1>0, <5>1, FS_EmptySet, Zenon
      <4>2. Cardinality(s) = n + 1
        BY <1>0, <2>1, <3>2
      <4>3. g[s] = v[c(s)] + f[s \ {c(s)}]
        BY <3>2
      <4>4. g[s \ {c(s)}] = f[s \ {c(s)}]
        BY <1>0, <1>a, <4>1, <4>2
      <4> HIDE DEF g
      <4>. QED
        BY <4>1, <4>3, <4>4
    <3>. QED
      BY <3>1, <3>2
  <2> HIDE DEF g, Eq
  <2>. QED
    BY <2>1
<1>3. Cardinality(S) \in T
  <2> HIDE DEF T
  <2>1. \A n \in Nat : n \in T
    BY <1>1, <1>2, NaturalInduction
  <2>. QED
    BY <1>0, <2>1
<1>4. PICK f : UpTo(f, Cardinality(S))
  BY <1>3
<1> DEFINE g == [s \in SUBSET S |-> f[s]]
<1>5. ASSUME NEW s \in SUBSET S
      PROVE  g[s] = IF s = {} THEN 0 ELSE v[c(s)] + g[s \ {c(s)}]
  <2> HIDE DEF c
  <2>1. Cardinality(s) <= Cardinality(S)
    BY FS_Subset
  <2>2. Eq(f, s) /\ g[s] = f[s]
    BY <1>4, <2>1
  <2>3. s # {} => g[s \ {c(s)}] = f[s \ {c(s)}]
    BY <1>a
  <2> HIDE DEF g
  <2>. QED
    BY <2>2, <2>3
<1>6. g = [s \in SUBSET S |-> g[s]]
  OBVIOUS
<1> HIDE DEF g
<1>7. g = [s \in SUBSET S |-> IF s = {} THEN 0 ELSE v[c(s)] + g[s \ {c(s)}]]
  BY <1>5, <1>6, Zenon
<1>8. Adds(g, v, S)
  BY <1>7, Zenon DEF Adds
<1>. QED
  BY <1>8, Zenon

(***************************************************************************)
(* Two such functions agree on a set that both are of, if the values do.   *)
(***************************************************************************)
LEMMA AddsAgree ==
  ASSUME NEW S, NEW R, NEW U, IsFiniteSet(U), U \subseteq S, U \subseteq R,
         NEW v, NEW w, Same(v, w, U)
  PROVE  \A f, g : Adds(f, v, S) /\ Adds(g, w, R) => f[U] = g[U]
<1> SUFFICES ASSUME NEW f, NEW g, Adds(f, v, S), Adds(g, w, R)
             PROVE  f[U] = g[U]
  OBVIOUS
<1> DEFINE c(s) == CHOOSE x \in s : TRUE
           T == {s \in SUBSET U : f[s] = g[s]}
<1>1. ASSUME NEW s \in SUBSET U, \A x \in s : s \ {x} \in T PROVE s \in T
  <2>1. s \in SUBSET S /\ s \in SUBSET R
    OBVIOUS
  <2>2. /\ f[s] = IF s = {} THEN 0 ELSE v[c(s)] + f[s \ {c(s)}]
        /\ g[s] = IF s = {} THEN 0 ELSE w[c(s)] + g[s \ {c(s)}]
    BY <2>1, Zenon DEF Adds
  <2>3. CASE s = {}
    BY <2>2, <2>3
  <2>4. CASE s # {}
    <3>1. c(s) \in s
      BY <2>4
    <3> HIDE DEF c
    <3>2. f[s \ {c(s)}] = g[s \ {c(s)}] /\ v[c(s)] = w[c(s)]
      BY <1>1, <3>1 DEF Same
    <3>. QED
      BY <2>2, <2>4, <3>2
  <2>. QED
    BY <2>3, <2>4
<1>2. U \in T
  <2> HIDE DEF T
  <2>1. \A s \in SUBSET U : s \in T
    BY <1>1, SubsetInduction, Zenon
  <2>. QED
    BY <2>1
<1>. QED
  BY <1>2

(***************************************************************************)
(* It is of no matter which element is added last.                         *)
(***************************************************************************)
LEMMA AddsAny ==
  ASSUME NEW S, IsFiniteSet(S), NEW v, \A x \in S : v[x] \in Nat,
         NEW f, Adds(f, v, S)
  PROVE  \A s \in SUBSET S :
           f[s] \in Nat /\ \A x \in s : f[s] = f[s \ {x}] + v[x]
<1> DEFINE c(s) == CHOOSE x \in s : TRUE
           N == {s \in SUBSET S : f[s] \in Nat}
           T == {s \in SUBSET S : \A x \in s : f[s] = f[s \ {x}] + v[x]}
<1>0. ASSUME NEW s \in SUBSET S, s # {}
      PROVE  c(s) \in s /\ f[s] = v[c(s)] + f[s \ {c(s)}] /\ v[c(s)] \in Nat
  <2>1. c(s) \in s
    BY <1>0
  <2>2. f[s] = IF s = {} THEN 0 ELSE v[c(s)] + f[s \ {c(s)}]
    BY Zenon DEF Adds
  <2> HIDE DEF c
  <2>. QED
    BY <1>0, <2>1, <2>2
<1>1. ASSUME NEW s \in SUBSET S, \A x \in s : s \ {x} \in N PROVE s \in N
  <2> HIDE DEF c
  <2>1. CASE s = {}
    <3>1. f[s] = 0
      BY <2>1, Zenon DEF Adds
    <3>. QED
      BY <3>1
  <2>2. CASE s # {}
    <3>1. f[s \ {c(s)}] \in Nat
      BY <1>0, <1>1, <2>2
    <3>. QED
      BY <1>0, <2>2, <3>1
  <2>. QED
    BY <2>1, <2>2
<1>2. \A s \in SUBSET S : f[s] \in Nat
  <2>1. \A s \in SUBSET S : s \in N
    <3> HIDE DEF N
    <3>. QED
      BY <1>1, SubsetInduction, Zenon
  <2>. QED
    BY <2>1
<1>3. ASSUME NEW s \in SUBSET S, \A x \in s : s \ {x} \in T, NEW x \in s
      PROVE  f[s] = f[s \ {x}] + v[x]
  <2> HIDE DEF c
  <2>1. /\ s # {} /\ c(s) \in s /\ v[c(s)] \in Nat /\ v[x] \in Nat
        /\ f[s] = v[c(s)] + f[s \ {c(s)}]
    BY <1>0
  <2>2. CASE x = c(s)
    BY <1>2, <2>1, <2>2
  <2>3. CASE x # c(s)
    <3> DEFINE r == (s \ {x}) \ {c(s)}
    <3>1. r = (s \ {c(s)}) \ {x} /\ r \in SUBSET S
      OBVIOUS
    <3>2. f[s \ {x}] = f[r] + v[c(s)]
      <4>1. s \ {x} \in T /\ c(s) \in s \ {x}
        BY <1>3, <2>1, <2>3
      <4>. QED
        BY <4>1
    <3>3. f[s \ {c(s)}] = f[r] + v[x]
      <4>1. s \ {c(s)} \in T /\ x \in s \ {c(s)}
        BY <1>3, <2>1, <2>3
      <4> HIDE DEF r
      <4>2. f[s \ {c(s)}] = f[(s \ {c(s)}) \ {x}] + v[x]
        BY <4>1
      <4>. QED
        BY <3>1, <4>2
    <3>4. f[r] \in Nat
      BY <1>2, <3>1
    <3> HIDE DEF r, T
    <3>. QED
      BY <2>1, <3>2, <3>3, <3>4
  <2>. QED
    BY <2>2, <2>3
<1>4. \A s \in SUBSET S : s \in T
  <2>1. ASSUME NEW s \in SUBSET S, \A x \in s : s \ {x} \in T PROVE s \in T
    BY <1>3, <2>1
  <2> HIDE DEF T
  <2>. QED
    BY <2>1, SubsetInduction, Zenon
<1>. QED
  BY <1>2, <1>4

(***************************************************************************)
(* What SumFunctionOnSet is: the value for the set of the function that    *)
(* adds up.                                                                *)
(***************************************************************************)
LEMMA SumValue ==
  ASSUME NEW S, IsFiniteSet(S), NEW v
  PROVE  \E f : Adds(f, v, S) /\ SumFunctionOnSet(v, S) = f[S]
<1> DEFINE f == CHOOSE f : f = [s \in SUBSET S |->
                  IF s = {} THEN 0
                  ELSE v[CHOOSE x \in s : TRUE] + f[s \ {CHOOSE x \in s : TRUE}]]
<1>1. Adds(f, v, S)
  <2>1. PICK h : Adds(h, v, S)
    BY AddsExists, Zenon
  <2>2. h = [s \in SUBSET S |->
               IF s = {} THEN 0
               ELSE v[CHOOSE x \in s : TRUE] + h[s \ {CHOOSE x \in s : TRUE}]]
    BY <2>1, Zenon DEF Adds
  <2>. QED
    BY <2>2, Zenon DEF Adds
<1>2. SumFunctionOnSet(v, S) = f[S]
  BY Zenon DEF SumFunctionOnSet, FoldFunctionOnSet, MapThenFoldSet
<1>. QED
  <2> HIDE DEF f
  <2>. QED
    BY <1>1, <1>2, Zenon

(***************************************************************************)
(* The sum over no elements, and over one element more.                    *)
(***************************************************************************)
LEMMA SumEmpty ==
  ASSUME NEW v
  PROVE  SumFunctionOnSet(v, {}) = 0
<1>1. PICK f : Adds(f, v, {}) /\ SumFunctionOnSet(v, {}) = f[{}]
  BY SumValue, FS_EmptySet, Zenon
<1>2. f[{}] = 0
  BY <1>1, Zenon DEF Adds
<1>. QED
  BY <1>1, <1>2

(***************************************************************************)
(* A sum of numbers is a number.                                           *)
(***************************************************************************)
LEMMA SumNat ==
  ASSUME NEW S, IsFiniteSet(S), NEW v, \A x \in S : v[x] \in Nat
  PROVE  SumFunctionOnSet(v, S) \in Nat
<1>1. PICK f : Adds(f, v, S) /\ SumFunctionOnSet(v, S) = f[S]
  BY SumValue, Zenon
<1>2. f[S] \in Nat
  BY <1>1, AddsAny
<1>. QED
  BY <1>1, <1>2

(***************************************************************************)
(* The sum over a set, but for one element.                                *)
(***************************************************************************)
LEMMA SumRemove ==
  ASSUME NEW S, IsFiniteSet(S), NEW v, \A x \in S : v[x] \in Nat, NEW x \in S
  PROVE  SumFunctionOnSet(v, S) = SumFunctionOnSet(v, S \ {x}) + v[x]
<1>1. PICK f : Adds(f, v, S) /\ SumFunctionOnSet(v, S) = f[S]
  BY SumValue, Zenon
<1>2. IsFiniteSet(S \ {x})
  BY FS_RemoveElement
<1>3. PICK g : Adds(g, v, S \ {x}) /\ SumFunctionOnSet(v, S \ {x}) = g[S \ {x}]
  BY <1>2, SumValue, Zenon
<1>4. f[S \ {x}] = g[S \ {x}]
  <2> DEFINE r == S \ {x}
  <2>1. r \subseteq S /\ r \subseteq r /\ Same(v, v, r)
    BY DEF Same
  <2>2. IsFiniteSet(r) /\ Adds(g, v, r)
    BY <1>2, <1>3
  <2> HIDE DEF r
  <2>3. f[r] = g[r]
    BY <1>1, <2>1, <2>2, AddsAgree
  <2>. QED
    BY <2>3 DEF r
<1>5. f[S] = f[S \ {x}] + v[x]
  BY <1>1, AddsAny
<1>. QED
  BY <1>1, <1>3, <1>4, <1>5

(***************************************************************************)
(* A sum depends on the values that are summed up.                         *)
(***************************************************************************)
LEMMA SumSame ==
  ASSUME NEW S, IsFiniteSet(S), NEW v, NEW w, \A x \in S : v[x] = w[x]
  PROVE  SumFunctionOnSet(v, S) = SumFunctionOnSet(w, S)
<1>1. PICK f : Adds(f, v, S) /\ SumFunctionOnSet(v, S) = f[S]
  BY SumValue, Zenon
<1>2. PICK g : Adds(g, w, S) /\ SumFunctionOnSet(w, S) = g[S]
  BY SumValue, Zenon
<1>3. \A h, k : Adds(h, v, S) /\ Adds(k, w, S) => h[S] = k[S]
  <2>1. S \subseteq S /\ Same(v, w, S)
    BY DEF Same
  <2>. QED
    BY <2>1, AddsAgree
<1>4. f[S] = g[S]
  BY <1>1, <1>2, <1>3, Zenon
<1>. QED
  BY <1>1, <1>2, <1>4, Zenon

(***************************************************************************)
(* The sum over two sets that have nothing in common.                      *)
(***************************************************************************)
LEMMA SumUnion ==
  ASSUME NEW S, IsFiniteSet(S), NEW R, IsFiniteSet(R), S \cap R = {},
         NEW v, \A x \in S \cup R : v[x] \in Nat
  PROVE  SumFunctionOnSet(v, S \cup R) = SumFunctionOnSet(v, S) + SumFunctionOnSet(v, R)
<1> DEFINE Q(s) == SumFunctionOnSet(v, S \cup s) = SumFunctionOnSet(v, S) + SumFunctionOnSet(v, s)
           T == {s \in SUBSET R : Q(s)}
<1>0. \A s \in SUBSET R : /\ IsFiniteSet(s) /\ IsFiniteSet(S \cup s)
                          /\ SumFunctionOnSet(v, s) \in Nat
  <2>1. ASSUME NEW s \in SUBSET R
        PROVE  /\ IsFiniteSet(s) /\ IsFiniteSet(S \cup s)
               /\ SumFunctionOnSet(v, s) \in Nat
    <3>1. IsFiniteSet(s)
      BY FS_Subset
    <3>2. IsFiniteSet(S \cup s)
      BY <3>1, FS_Union
    <3>3. SumFunctionOnSet(v, s) \in Nat
      BY <3>1, SumNat
    <3>. QED
      BY <3>1, <3>2, <3>3
  <2>. QED
    BY <2>1
<1>a. SumFunctionOnSet(v, S) \in Nat
  BY SumNat
<1>1. ASSUME NEW s \in SUBSET R, \A x \in s : s \ {x} \in T PROVE Q(s)
  <2>1. CASE s = {}
    <3>1. S \cup {} = S
      OBVIOUS
    <3>. QED
      BY <1>a, <2>1, <3>1, SumEmpty
  <2>2. CASE s # {}
    <3>1. PICK x \in s : TRUE
      BY <2>2
    <3>2. Q(s \ {x}) /\ s \ {x} \in SUBSET R /\ v[x] \in Nat
      BY <1>1
    <3>3. SumFunctionOnSet(v, s) = SumFunctionOnSet(v, s \ {x}) + v[x]
      BY <1>0, SumRemove
    <3>4. SumFunctionOnSet(v, S \cup s) = SumFunctionOnSet(v, S \cup (s \ {x})) + v[x]
      <4>1. (S \cup s) \ {x} = S \cup (s \ {x})
        OBVIOUS
      <4>2. SumFunctionOnSet(v, S \cup s) = SumFunctionOnSet(v, (S \cup s) \ {x}) + v[x]
        BY <1>0, SumRemove
      <4>. QED
        BY <4>1, <4>2
    <3>5. SumFunctionOnSet(v, s \ {x}) \in Nat
      BY <1>0, <3>2
    <3>. QED
      BY <1>a, <3>2, <3>3, <3>4, <3>5
  <2>. QED
    BY <2>1, <2>2
<1>2. R \in T
  <2>1. ASSUME NEW s \in SUBSET R, \A x \in s : s \ {x} \in T PROVE s \in T
    BY <1>1, <2>1
  <2> HIDE DEF T
  <2>2. \A s \in SUBSET R : s \in T
    BY <2>1, SubsetInduction, Zenon
  <2>. QED
    BY <2>2
<1>. QED
  BY <1>2

(***************************************************************************)
(* The sum over a subset is not more.                                      *)
(***************************************************************************)
LEMMA SumSubset ==
  ASSUME NEW S, IsFiniteSet(S), NEW R \in SUBSET S, NEW v, \A x \in S : v[x] \in Nat
  PROVE  SumFunctionOnSet(v, R) <= SumFunctionOnSet(v, S)
<1>1. IsFiniteSet(R) /\ IsFiniteSet(S \ R)
  BY FS_Subset
<1>2. R \cup (S \ R) = S /\ R \cap (S \ R) = {}
  OBVIOUS
<1>3. SumFunctionOnSet(v, R \cup (S \ R))
        = SumFunctionOnSet(v, R) + SumFunctionOnSet(v, S \ R)
  <2> DEFINE Q == S \ R
  <2>1. \A x \in R \cup Q : v[x] \in Nat
    OBVIOUS
  <2>2. IsFiniteSet(Q) /\ R \cap Q = {}
    BY <1>1
  <2> HIDE DEF Q
  <2>3. SumFunctionOnSet(v, R \cup Q) = SumFunctionOnSet(v, R) + SumFunctionOnSet(v, Q)
    BY <1>1, <2>1, <2>2, SumUnion
  <2>. QED
    BY <2>3 DEF Q
<1>4. SumFunctionOnSet(v, R) \in Nat /\ SumFunctionOnSet(v, S \ R) \in Nat
  BY <1>1, SumNat
<1> DEFINE a == SumFunctionOnSet(v, R)
           b == SumFunctionOnSet(v, S \ R)
           d == SumFunctionOnSet(v, S)
<1>5. d = a + b
  BY <1>2, <1>3, Zenon
<1> HIDE DEF a, b, d
<1>6. a <= d
  BY <1>4, <1>5 DEF a, b
<1>. QED
  BY <1>6 DEF a, d

-----------------------------------------------------------------------------
\* The images of the entries of s one after the other, where an entry's image is a log.
Images(f, s) == FlattenSeq(Mapped(f, s))

(***************************************************************************)
(* Images are logs, of nothing nothing and of one entry its image.         *)
(***************************************************************************)
LEMMA ImagesAre ==
  ASSUME NEW S, NEW R, NEW f, Maps(f, S, Seq(R))
  PROVE  /\ \A s \in Seq(S) : Images(f, s) \in Seq(R)
         /\ Images(f, << >>) = << >>
         /\ \A e \in S : Images(f, <<e>>) = f[e]
<1>1. \A s \in Seq(S) : Images(f, s) \in Seq(R)
  BY MappedType, FlattenType DEF Images
<1>2. Images(f, << >>) = << >>
  <2>1. Mapped(f, << >>) = << >>
    BY EmptySeq DEF Mapped
  <2>. QED
    BY <2>1, FlattenEmpty DEF Images
<1>3. ASSUME NEW e \in S PROVE Images(f, <<e>>) = f[e]
  <2>1. Mapped(f, <<e>>) = <<f[e]>>
    BY EmptySeq DEF Mapped
  <2>2. Len(<<f[e]>>) = 1 /\ <<f[e]>>[1] = f[e]
    OBVIOUS
  <2>3. FlattenSeq(<<f[e]>>) = <<f[e]>>[1]
    BY <2>2, FlattenSingle
  <2>. QED
    BY <2>1, <2>2, <2>3 DEF Images
<1>. QED
  BY <1>1, <1>2, <1>3

(***************************************************************************)
(* The images of two logs' entries, one log after the other.               *)
(***************************************************************************)
LEMMA ImagesConcat ==
  ASSUME NEW S, NEW R, NEW f, Maps(f, S, Seq(R))
  PROVE  \A s, t \in Seq(S) : Images(f, s \o t) = Images(f, s) \o Images(f, t)
<1> SUFFICES ASSUME NEW s \in Seq(S), NEW t \in Seq(S)
             PROVE  Images(f, s \o t) = Images(f, s) \o Images(f, t)
  OBVIOUS
<1>1. Mapped(f, s \o t) = Mapped(f, s) \o Mapped(f, t)
  BY MappedConcat
<1>2. Mapped(f, s) \in Seq(Seq(R)) /\ Mapped(f, t) \in Seq(Seq(R))
  BY MappedType
<1>3. FlattenSeq(Mapped(f, s) \o Mapped(f, t)) = FlattenSeq(Mapped(f, s)) \o FlattenSeq(Mapped(f, t))
  BY <1>2, FlattenConcat
<1>. QED
  BY <1>1, <1>3 DEF Images

(***************************************************************************)
(* The images of the entries of a flattening are those of its parts'.      *)
(***************************************************************************)
LEMMA ImagesFlatten ==
  ASSUME NEW S, NEW R, NEW f, Maps(f, S, Seq(R)), NEW parts \in Seq(Seq(S))
  PROVE  Images(f, FlattenSeq(parts)) = FlattenSeq([i \in 1 .. Len(parts) |-> Images(f, parts[i])])
<1> DEFINE P == Seq(S)
           g == [u \in P |-> Images(f, u)]
           V == {q \in Seq(P) : Images(f, FlattenSeq(q)) = Images(g, q)}
<1>0. \A u \in P : g[u] = Images(f, u)
  OBVIOUS
<1>1. Maps(g, P, Seq(R))
  BY ImagesAre DEF Maps
<1>2. \A u, v \in P : Images(f, u \o v) = Images(f, u) \o Images(f, v)
  BY ImagesConcat
<1> HIDE DEF g
<1>3. /\ Images(g, << >>) = << >>
      /\ \A e \in P : Images(g, <<e>>) = g[e]
      /\ \A q, r \in Seq(P) : Images(g, q \o r) = Images(g, q) \o Images(g, r)
  <2> HIDE DEF P
  <2>. QED
    BY <1>1, ImagesAre, ImagesConcat
<1>4. << >> \in V
  BY <1>3, ImagesAre, FlattenEmpty, EmptySeq
<1>5. ASSUME NEW q \in Seq(P), NEW e \in P, q \in V PROVE Append(q, e) \in V
  <2>1. /\ Append(q, e) \in Seq(P) /\ Append(q, e) = q \o <<e>> /\ <<e>> \in Seq(P)
    BY AppendProperties, AppendIsConcat
  <2>2. FlattenSeq(Append(q, e)) = FlattenSeq(q) \o e /\ FlattenSeq(q) \in P
    BY FlattenAppend, FlattenType
  <2>3. Images(f, FlattenSeq(Append(q, e))) = Images(f, FlattenSeq(q)) \o Images(f, e)
    BY <1>2, <2>2
  <2>4. Images(g, Append(q, e)) = Images(g, q) \o g[e]
    BY <1>3, <2>1
  <2>5. Images(f, FlattenSeq(q)) = Images(g, q)
    BY <1>5
  <2>6. Images(f, FlattenSeq(Append(q, e))) = Images(g, Append(q, e))
    BY <1>0, <2>3, <2>4, <2>5
  <2>. QED
    BY <2>1, <2>6
<1>6. parts \in Seq(P)
  OBVIOUS
<1> HIDE DEF V, P
<1>7. parts \in V
  BY <1>4, <1>5, <1>6, SequenceInduction
<1>8. Mapped(g, parts) = [i \in 1 .. Len(parts) |-> Images(f, parts[i])]
  <2>1. \A i \in 1 .. Len(parts) : g[parts[i]] = Images(f, parts[i])
    BY <1>0, <1>6, ElementOfSeq
  <2>. QED
    BY <2>1 DEF Mapped
<1>. QED
  BY <1>7, <1>8 DEF V, Images

(***************************************************************************)
(* Images that are the same entry by entry are the same.                   *)
(***************************************************************************)
LEMMA ImagesSame ==
  ASSUME NEW S, NEW s \in Seq(S), NEW f, NEW g, \A e \in ToSet(s) : f[e] = g[e]
  PROVE  Images(f, s) = Images(g, s)
<1>1. \A i \in 1 .. Len(s) : s[i] \in ToSet(s)
  BY LenProperties DEF ToSet
<1>2. Mapped(f, s) = Mapped(g, s)
  BY <1>1 DEF Mapped
<1>. QED
  BY <1>2 DEF Images

(***************************************************************************)
(* Entries whose image is empty may be left out.                           *)
(***************************************************************************)
LEMMA ImagesSelect ==
  ASSUME NEW S, NEW R, NEW f, Maps(f, S, Seq(R)), NEW T, \A e \in S \ T : f[e] = << >>
  PROVE  \A s \in Seq(S) : Images(f, Select(s, T)) = Images(f, s)
<1> DEFINE V == {s \in Seq(S) : Images(f, Select(s, T)) = Images(f, s)}
<1>1. << >> \in V
  BY SelectEmpty, EmptySeq
<1>2. ASSUME NEW s \in Seq(S), NEW e \in S, s \in V PROVE Append(s, e) \in V
  <2>1. /\ Append(s, e) \in Seq(S) /\ Append(s, e) = s \o <<e>> /\ <<e>> \in Seq(S)
    BY AppendProperties, AppendIsConcat
  <2>2. Select(Append(s, e), T) = Select(s, T) \o Kept(e, T)
    BY SelectAppend
  <2>3. Select(s, T) \in Seq(S) /\ Kept(e, T) \in Seq(S)
    BY SelectType, KeptType
  <2>4. Images(f, Select(Append(s, e), T)) = Images(f, Select(s, T)) \o Images(f, Kept(e, T))
    BY <2>2, <2>3, ImagesConcat
  <2>5. Images(f, Append(s, e)) = Images(f, s) \o Images(f, <<e>>)
    <3>1. \A u, v \in Seq(S) : Images(f, u \o v) = Images(f, u) \o Images(f, v)
      BY ImagesConcat
    <3>. QED
      BY <2>1, <3>1
  <2>6. Images(f, Kept(e, T)) = Images(f, <<e>>)
    BY ImagesAre DEF Kept
  <2>7. Images(f, Select(s, T)) = Images(f, s)
    BY <1>2
  <2>. QED
    BY <2>1, <2>4, <2>5, <2>6, <2>7
<1> HIDE DEF V
<1>3. \A s \in Seq(S) : s \in V
  BY <1>1, <1>2, SequenceInduction
<1>. QED
  BY <1>3 DEF V

(***************************************************************************)
(* Empty parts flatten to nothing, and one part among empty ones to itself.*)
(***************************************************************************)
LEMMA FlattenOne ==
  ASSUME NEW S, NEW parts \in Seq(Seq(S))
  PROVE  /\ (\A i \in 1 .. Len(parts) : parts[i] = << >>) => FlattenSeq(parts) = << >>
         /\ \A j \in 1 .. Len(parts) :
              (\A i \in 1 .. Len(parts) : i # j => parts[i] = << >>) => FlattenSeq(parts) = parts[j]
<1> DEFINE P == Seq(S)
           None(q) == \A i \in 1 .. Len(q) : q[i] = << >>
           Only(q, j) == \A i \in 1 .. Len(q) : i # j => q[i] = << >>
           V == {q \in Seq(P) : /\ None(q) => FlattenSeq(q) = << >>
                                /\ \A j \in 1 .. Len(q) : Only(q, j) => FlattenSeq(q) = q[j]}
<1>1. << >> \in V
  BY EmptySeq, FlattenEmpty
<1>2. ASSUME NEW q \in Seq(P), NEW e \in P, q \in V PROVE Append(q, e) \in V
  <2> DEFINE r == Append(q, e)
             n == Len(q)
  <2>1. /\ r \in Seq(P) /\ n \in Nat /\ Len(r) = n + 1
        /\ \A i \in 1 .. n : r[i] = q[i] /\ q[i] \in P
        /\ r[n + 1] = e
    <3> HIDE DEF P, V
    <3>. QED
      BY AppendProperties, LenProperties, ElementOfSeq
  <2>2. FlattenSeq(r) = FlattenSeq(q) \o e /\ FlattenSeq(q) \in Seq(S)
    BY FlattenAppend, FlattenType
  <2>3. \A u \in Seq(S) : << >> \o u = u /\ u \o << >> = u
    BY ConcatEmptySeq
  <2>4. e \in Seq(S) /\ << >> \in Seq(S)
    OBVIOUS
  <2> HIDE DEF r, n, P
  <2>5. n + 1 \in 1 .. n + 1 /\ \A i \in 1 .. n : i \in 1 .. n + 1 /\ i # n + 1
    BY <2>1
  <2>6. None(r) => None(q) /\ e = << >>
    BY <2>1, <2>5 DEF n
  <2>7. None(r) => FlattenSeq(r) = << >>
    BY <1>2, <2>2, <2>3, <2>4, <2>6
  <2>8. ASSUME NEW j \in 1 .. n + 1, Only(r, j) PROVE FlattenSeq(r) = r[j]
    <3>1. CASE j = n + 1
      <4>1. None(q)
        BY <2>1, <2>5, <2>8, <3>1 DEF n
      <4>2. FlattenSeq(q) = << >>
        BY <1>2, <4>1
      <4>. QED
        BY <2>1, <2>2, <2>3, <2>4, <3>1, <4>2
    <3>2. CASE j # n + 1
      <4>1. j \in 1 .. n
        BY <2>1, <3>2
      <4>2. Only(q, j) /\ e = << >>
        BY <2>1, <2>5, <2>8, <3>2 DEF n
      <4>3. FlattenSeq(q) = q[j]
        BY <1>2, <4>1, <4>2 DEF n
      <4>. QED
        BY <2>1, <2>2, <2>3, <4>1, <4>2, <4>3
    <3>. QED
      BY <3>1, <3>2
  <2>. QED
    BY <2>1, <2>7, <2>8 DEF r
<1>3. parts \in Seq(P)
  OBVIOUS
<1> HIDE DEF V, P
<1>4. parts \in V
  BY <1>1, <1>2, <1>3, SequenceInduction
<1>. QED
  BY <1>4 DEF V

(***************************************************************************)
(* Two selections that share nothing add up to the selection of both.      *)
(***************************************************************************)
LEMMA TotalUnion ==
  ASSUME NEW S, \A e \in S : e.amount \in Nat, NEW A, NEW B, A \cap B = {}
  PROVE  \A s \in Seq(S) : Total(Select(s, A \cup B)) = Total(Select(s, A)) + Total(Select(s, B))
<1> DEFINE C == A \cup B
           V == {s \in Seq(S) : Total(Select(s, C)) = Total(Select(s, A)) + Total(Select(s, B))}
<1>1. << >> \in V
  BY SelectEmpty, TotalEmpty, EmptySeq
<1>2. ASSUME NEW s \in Seq(S), NEW e \in S, s \in V PROVE Append(s, e) \in V
  <2> DEFINE Added(T) == IF e \in T THEN e.amount ELSE 0
  <2>1. Append(s, e) \in Seq(S)
    BY AppendProperties
  <2>2. ASSUME NEW T
        PROVE  /\ Total(Select(Append(s, e), T)) = Total(Select(s, T)) + Added(T)
               /\ Total(Select(s, T)) \in Nat
    <3>1. Select(Append(s, e), T) = Select(s, T) \o Kept(e, T)
      BY SelectAppend
    <3>2. Select(s, T) \in Seq(S) /\ Kept(e, T) \in Seq(S)
      BY SelectType, KeptType
    <3>3. Total(Select(s, T) \o Kept(e, T)) = Total(Select(s, T)) + Total(Kept(e, T))
      BY <3>2, TotalConcat
    <3>4. Total(Kept(e, T)) = Added(T)
      <4>1. CASE e \in T
        <5>1. Kept(e, T) = Append(<< >>, e) /\ << >> \in Seq(S)
          BY <4>1, EmptySeq DEF Kept
        <5>2. Total(Append(<< >>, e)) = Total(<< >>) + e.amount
          BY <5>1, TotalAppend
        <5>. QED
          BY <4>1, <5>1, <5>2, TotalEmpty
      <4>2. CASE e \notin T
        BY <4>2, TotalEmpty DEF Kept
      <4>. QED
        BY <4>1, <4>2
    <3>5. Total(Select(s, T)) \in Nat
      BY <3>2, TotalNat
    <3>. QED
      BY <3>1, <3>3, <3>4, <3>5
  <2>3. Added(C) = Added(A) + Added(B) /\ Added(A) \in Nat /\ Added(B) \in Nat
    OBVIOUS
  <2>4. Total(Select(s, C)) = Total(Select(s, A)) + Total(Select(s, B))
    BY <1>2
  <2> HIDE DEF Added, V, C
  <2>5. Total(Select(Append(s, e), C))
          = Total(Select(Append(s, e), A)) + Total(Select(Append(s, e), B))
    BY <2>2, <2>3, <2>4
  <2>. QED
    BY <2>1, <2>5 DEF V
<1> HIDE DEF V
<1>3. \A s \in Seq(S) : s \in V
  BY <1>1, <1>2, SequenceInduction
<1>. QED
  BY <1>3 DEF V

(***************************************************************************)
(* Entries whose images are all empty have nothing for images.             *)
(***************************************************************************)
LEMMA ImagesNone ==
  ASSUME NEW S, NEW R, NEW f, Maps(f, S, Seq(R)), NEW s \in Seq(S),
         \A e \in ToSet(s) : f[e] = << >>
  PROVE  Images(f, s) = << >>
<1>1. Mapped(f, s) \in Seq(Seq(R)) /\ Len(Mapped(f, s)) = Len(s)
  BY MappedType
<1>2. \A i \in 1 .. Len(s) : s[i] \in ToSet(s)
  BY LenProperties DEF ToSet
<1>3. \A i \in 1 .. Len(Mapped(f, s)) : Mapped(f, s)[i] = << >>
  BY <1>1, <1>2 DEF Mapped
<1>. QED
  BY <1>1, <1>3, FlattenOne, Zenon DEF Images
-----------------------------------------------------------------------------
\* Every entry of s is related to every later one.
Ordered(s, Lt) == \A a, b \in 1 .. Len(s) : a < b => <<s[a], s[b]>> \in Lt

\* Every entry of a part is related to every entry of a later part.
Staggered(parts, Lt) ==
  \A i, j \in 1 .. Len(parts) :
    i < j => \A x \in ToSet(parts[i]), y \in ToSet(parts[j]) : <<x, y>> \in Lt

(***************************************************************************)
(* Ordered logs follow each other in order if their entries do.            *)
(***************************************************************************)
LEMMA OrderedConcat ==
  ASSUME NEW S, NEW s \in Seq(S), NEW t \in Seq(S), NEW Lt, Ordered(s, Lt), Ordered(t, Lt),
         \A x \in ToSet(s), y \in ToSet(t) : <<x, y>> \in Lt
  PROVE  Ordered(s \o t, Lt)
<1> DEFINE u == s \o t
           m == Len(s)
           n == Len(t)
<1>1. /\ m \in Nat /\ n \in Nat /\ Len(u) = m + n
      /\ \A i \in 1 .. m + n : u[i] = IF i <= m THEN s[i] ELSE t[i - m]
  BY ConcatProperties, LenProperties
<1>2. /\ \A i \in 1 .. m : s[i] \in ToSet(s)
      /\ \A i \in 1 .. n : t[i] \in ToSet(t)
  BY LenProperties DEF ToSet
<1> HIDE DEF u, m, n
<1>3. ASSUME NEW a \in 1 .. m + n, NEW b \in 1 .. m + n, a < b PROVE <<u[a], u[b]>> \in Lt
  <2>1. CASE b <= m
    <3>1. a \in 1 .. m /\ b \in 1 .. m /\ u[a] = s[a] /\ u[b] = s[b]
      BY <1>1, <1>3, <2>1
    <3>. QED
      BY <1>3, <3>1 DEF Ordered, m
  <2>2. CASE ~ (b <= m) /\ a <= m
    <3>1. a \in 1 .. m /\ b - m \in 1 .. n /\ u[a] = s[a] /\ u[b] = t[b - m]
      BY <1>1, <2>2
    <3>. QED
      BY <1>2, <3>1
  <2>3. CASE ~ (a <= m)
    <3>1. /\ a - m \in 1 .. n /\ b - m \in 1 .. n /\ a - m < b - m
          /\ u[a] = t[a - m] /\ u[b] = t[b - m]
      BY <1>1, <1>3, <2>3
    <3>. QED
      BY <3>1 DEF Ordered, n
  <2>. QED
    BY <2>1, <2>2, <2>3
<1>. QED
  BY <1>1, <1>3 DEF Ordered, u

(***************************************************************************)
(* Ordered parts flatten to an ordered log if they are in order themselves.*)
(***************************************************************************)
LEMMA OrderedFlatten ==
  ASSUME NEW S, NEW parts \in Seq(Seq(S)), NEW Lt,
         \A i \in 1 .. Len(parts) : Ordered(parts[i], Lt), Staggered(parts, Lt)
  PROVE  Ordered(FlattenSeq(parts), Lt)
<1> DEFINE P == Seq(S)
           Good(q) == (\A i \in 1 .. Len(q) : Ordered(q[i], Lt)) /\ Staggered(q, Lt)
           V == {q \in Seq(P) : Good(q) => Ordered(FlattenSeq(q), Lt)}
<1>1. << >> \in V
  BY EmptySeq, FlattenEmpty DEF Ordered
<1>2. ASSUME NEW q \in Seq(P), NEW e \in P, q \in V PROVE Append(q, e) \in V
  <2> DEFINE r == Append(q, e)
             n == Len(q)
  <2>0. SUFFICES ASSUME Good(r) PROVE r \in Seq(P) /\ Ordered(FlattenSeq(r), Lt)
    <3>1. (r \in Seq(P) /\ (Good(r) => Ordered(FlattenSeq(r), Lt))) => r \in V
      <4> HIDE DEF Good, P, r
      <4>. QED
        OBVIOUS
    <3>2. r \in Seq(P)
      <4> HIDE DEF P
      <4>. QED
        BY AppendProperties
    <3> HIDE DEF Good, r, P, V
    <3>. QED
      BY <3>1, <3>2 DEF r
  <2>1. /\ r \in Seq(P) /\ n \in Nat /\ Len(r) = n + 1
        /\ \A i \in 1 .. n : r[i] = q[i]
        /\ r[n + 1] = e
    <3> HIDE DEF P, V
    <3>. QED
      BY AppendProperties, LenProperties
  <2>2. FlattenSeq(r) = FlattenSeq(q) \o e /\ FlattenSeq(q) \in Seq(S)
    BY FlattenAppend, FlattenType
  <2> HIDE DEF r, n, P
  <2>3. n + 1 \in 1 .. n + 1 /\ \A i \in 1 .. n : i \in 1 .. n + 1 /\ i < n + 1
    BY <2>1
  <2>a. /\ \A i \in 1 .. n + 1 : Ordered(r[i], Lt)
        /\ \A i, j \in 1 .. n + 1 :
             i < j => \A x \in ToSet(r[i]), y \in ToSet(r[j]) : <<x, y>> \in Lt
    <3>1. (\A i \in 1 .. Len(r) : Ordered(r[i], Lt)) /\ Staggered(r, Lt)
      BY <2>0
    <3>. QED
      BY <2>1, <3>1 DEF Staggered
  <2>4. Ordered(e, Lt)
    BY <2>1, <2>3, <2>a
  <2>5. Good(q)
    <3>1. \A i \in 1 .. n : Ordered(q[i], Lt)
      BY <2>1, <2>3, <2>a
    <3>2. \A i, j \in 1 .. n :
            i < j => \A x \in ToSet(q[i]), y \in ToSet(q[j]) : <<x, y>> \in Lt
      <4> SUFFICES ASSUME NEW i \in 1 .. n, NEW j \in 1 .. n, i < j
                   PROVE  \A x \in ToSet(q[i]), y \in ToSet(q[j]) : <<x, y>> \in Lt
        OBVIOUS
      <4>1. r[i] = q[i] /\ r[j] = q[j] /\ i \in 1 .. n + 1 /\ j \in 1 .. n + 1
        BY <2>1, <2>3
      <4>. QED
        BY <2>a, <4>1
    <3>3. Staggered(q, Lt)
      BY <3>2 DEF Staggered, n
    <3>. QED
      BY <3>1, <3>3 DEF n
  <2>6. Ordered(FlattenSeq(q), Lt)
    BY <1>2, <2>5
  <2>7. ASSUME NEW x \in ToSet(FlattenSeq(q)), NEW y \in ToSet(e) PROVE <<x, y>> \in Lt
    <3>1. PICK p \in ToSet(q) : x \in ToSet(p)
      BY FlattenEntries DEF P
    <3>2. PICK i \in 1 .. n : p = q[i]
      BY <2>1, LenProperties DEF ToSet, n
    <3>. QED
      BY <2>1, <2>3, <2>a, <3>1, <3>2
  <2>8. e \in Seq(S)
    BY DEF P
  <2>9. Ordered(FlattenSeq(q) \o e, Lt)
    BY <2>2, <2>4, <2>6, <2>7, <2>8, OrderedConcat
  <2>. QED
    BY <2>1, <2>2, <2>9
<1>3. parts \in Seq(P)
  OBVIOUS
<1> HIDE DEF V, P
<1>4. parts \in V
  BY <1>1, <1>2, <1>3, SequenceInduction
<1>. QED
  BY <1>4 DEF V

(***************************************************************************)
(* What is selected from an ordered log is in order.                       *)
(***************************************************************************)
LEMMA OrderedSelect ==
  ASSUME NEW S, NEW s \in Seq(S), NEW Lt, Ordered(s, Lt), NEW T
  PROVE  Ordered(Select(s, T), Lt)
<1> DEFINE n == Len(s)
           parts == [i \in 1 .. n |-> IF s[i] \in T THEN <<s[i]>> ELSE << >>]
<1>1. n \in Nat /\ \A i \in 1 .. n : s[i] \in S
  BY LenProperties, ElementOfSeq
<1>2. \A i \in 1 .. n : parts[i] = IF s[i] \in T THEN <<s[i]>> ELSE << >>
  OBVIOUS
<1>3. parts \in Seq(Seq(S)) /\ Len(parts) = n
  <2>1. parts \in [1 .. n -> Seq(S)]
    BY <1>1, EmptySeq
  <2> HIDE DEF parts
  <2>. QED
    BY <1>1, <2>1, FunctionIsSequence
<1> HIDE DEF parts
<1>4. ASSUME NEW i \in 1 .. n
      PROVE  ToSet(parts[i]) \subseteq {s[i]} /\ Ordered(parts[i], Lt)
  <2>1. CASE s[i] \in T
    <3>1. parts[i] = <<s[i]>>
      BY <1>2, <2>1
    <3> HIDE DEF n
    <3>. QED
      BY <3>1 DEF ToSet, Ordered
  <2>2. CASE s[i] \notin T
    <3>1. parts[i] = << >>
      BY <1>2, <2>2
    <3> HIDE DEF n
    <3>. QED
      BY <3>1 DEF ToSet, Ordered
  <2>. QED
    BY <2>1, <2>2
<1>5. Staggered(parts, Lt)
  <2>1. \A i, j \in 1 .. n : i < j => <<s[i], s[j]>> \in Lt
    BY DEF Ordered, n
  <2> HIDE DEF n
  <2>. QED
    BY <1>3, <1>4, <2>1 DEF Staggered
<1>6. Ordered(FlattenSeq(parts), Lt)
  BY <1>3, <1>4, <1>5, OrderedFlatten
<1>. QED
  BY <1>6 DEF Select, parts, n
===============================================================================
