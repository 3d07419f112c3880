----------------------------- MODULE ValuesProofs -----------------------------
(***************************************************************************)
(* What is proved of the algorithms that MCValues checks over bounded      *)
(* inputs, for inputs of any size: products scaled down (FixedPoint),      *)
(* sweeps (Transparent), the notes of a transaction and the readers of a   *)
(* chain (Deposits), snapshots of a node (Zebra), the messages of a server *)
(* (LightClient) and a directory of shares (Shares).                       *)
(*                                                                         *)
(* The arguments.  A product of two words is put together from products of *)
(* halves, each smaller than a word, so no carry is lost (ProductIs); the  *)
(* long division that follows keeps dividend = quotient * divisor + rest   *)
(* of the bits it has shifted in, with rest < divisor (StepDivides), and   *)
(* one shift of the rest overflows a word by one bit at most, which is     *)
(* what the carry is for.  A total counted in words is the exact total     *)
(* modulo the word (CountsAre), and what is due for n outputs is what plan *)
(* sets aside (FeeIsDue).  An output that is money and claims no           *)
(* application has one owner or none (OwnersAre), and who that is does not *)
(* depend on when the attribution is looked at (ReadingsAgree).            *)
(*                                                                         *)
(* Of snapshots: as a transaction is in one block of a chain at most, the  *)
(* list of what the chain has for an account lists what it has block by    *)
(* block (ListedAre), so a snapshot's deposits of a height are those of    *)
(* the block there (BlocksAgree), whatever came before the first height    *)
(* asked for is not in them (NoneEarlier), and a balance is put together   *)
(* from the balances of the blocks (BalanceOfBlocks).                      *)
(*                                                                         *)
(* Of readers: what is selected from, and what is put together of, logs in *)
(* the order of the chain is in that order (SightingsAre,                  *)
(* BlocksSightings), a page goes on where the one before ended (PageIs),   *)
(* so what was read after any number of pages is what a single page would  *)
(* have (PagedIs), and each page gets on.                                  *)
(*                                                                         *)
(* Of messages: what a string holds of several parts put together is each  *)
(* part, where the one before it ends (HoldsEach), so records, and the     *)
(* transactions of a block one after the other (TxsHeld), are read where   *)
(* they were written.  What is read of a string that was cut ends within   *)
(* what arrived of it, and where it does in the whole (HasArrived,         *)
(* ManyArrived, TxArrived), so that a reader of the whole is refused.      *)
(*                                                                         *)
(* Of shares: public.bin is written last, so it names a ceremony only      *)
(* when all its shares were written (Written), and from then on a file it  *)
(* names is overwritten by later ceremonies only (Newer).  A ceremony      *)
(* later than the one public.bin names was cut short or is being saved,    *)
(* unless public.bin is torn, which the next save that ends mends (Ended). *)
(***************************************************************************)
EXTENDS MCValues, DataLemmas

-----------------------------------------------------------------------------

(***************************************************************************)
(* Iteration.  The functions by which LongDivision, PowerOfTwo and the     *)
(* totals are defined exist, because a step can be taken as often as one   *)
(* likes.                                                                  *)
(***************************************************************************)
Iterates(f, n, base, step) == f = [i \in 0 .. n |-> IF i = 0 THEN base ELSE step[i][f[i - 1]]]

(***************************************************************************)
(* A step can be taken any number of times.                                *)
(***************************************************************************)
LEMMA IterationExists ==
  ASSUME NEW n \in Nat, NEW base, NEW step
  PROVE  \E f : Iterates(f, n, base, step)
<1> USE DEF Iterates
<1> DEFINE T == {k \in Nat : \E f : Iterates(f, k, base, step)}
<1>1. 0 \in T
  <2> DEFINE f == [i \in 0 .. 0 |-> base]
  <2>1. Iterates(f, 0, base, step)
    OBVIOUS
  <2>2. \E h : Iterates(h, 0, base, step)
    <3> HIDE DEF f, Iterates
    <3>. QED
      BY <2>1, Zenon
  <2>. QED
    BY <2>2
<1>2. ASSUME NEW k \in Nat, k \in T PROVE k + 1 \in T
  <2> PICK f : Iterates(f, k, base, step)
    BY <1>2
  <2> DEFINE g == [i \in 0 .. k + 1 |-> IF i <= k THEN f[i] ELSE step[i][f[i - 1]]]
  <2>1. ASSUME NEW i \in 0 .. k + 1
        PROVE  g[i] = IF i = 0 THEN base ELSE step[i][g[i - 1]]
    <3>1. CASE i <= k
      <4>1. i \in 0 .. k /\ (i = 0 \/ i - 1 \in 0 .. k)
        BY <3>1
      <4>2. f[i] = IF i = 0 THEN base ELSE step[i][f[i - 1]]
        BY <4>1, Zenon
      <4>3. g[i] = f[i]
        BY <3>1
      <4>4. i # 0 => g[i - 1] = f[i - 1]
        <5>1. i # 0 => i - 1 \in 0 .. k + 1 /\ i - 1 <= k
          BY <4>1
        <5>. QED
          BY <5>1
      <4>. QED
        BY <4>2, <4>3, <4>4
    <3>2. CASE i = k + 1
      <4>1. g[i - 1] = f[i - 1] /\ i # 0
        BY <3>2
      <4>2. g[i] = step[i][f[i - 1]]
        BY <3>2
      <4> HIDE DEF g
      <4>. QED
        BY <4>1, <4>2
    <3>3. i <= k \/ i = k + 1
      OBVIOUS
    <3> HIDE DEF g
    <3>. QED
      BY <3>1, <3>2, <3>3, Zenon
  <2>2. g = [i \in 0 .. k + 1 |-> g[i]]
    OBVIOUS
  <2>3. Iterates(g, k + 1, base, step)
    <3> HIDE DEF g
    <3>. QED
      BY <2>1, <2>2, Zenon
  <2>4. \E h : Iterates(h, k + 1, base, step)
    <3> HIDE DEF g, Iterates
    <3>. QED
      BY <2>3, Zenon
  <2>5. k + 1 \in Nat
    OBVIOUS
  <2>. QED
    BY <2>4, <2>5, Zenon
<1> HIDE DEF T, Iterates
<1>3. n \in T
  BY <1>1, <1>2, NaturalInduction
<1>. QED
  BY <1>3 DEF T

(***************************************************************************)
(* What is true at first and kept by every step is true in the end.        *)
(***************************************************************************)
LEMMA IterationType ==
  ASSUME NEW S, NEW n \in Nat, NEW base \in S, NEW step, NEW f,
         Iterates(f, n, base, step),
         \A i \in 1 .. n : \A x \in S : step[i][x] \in S
  PROVE  \A i \in 0 .. n : f[i] \in S
<1> DEFINE T == {k \in Nat : k \in 0 .. n => f[k] \in S}
<1>1. 0 \in T
  <2>1. 0 \in 0 .. n
    OBVIOUS
  <2>2. f[0] = base
    BY <2>1, Zenon DEF Iterates
  <2>. QED
    BY <2>2
<1>2. ASSUME NEW k \in Nat, k \in T PROVE k + 1 \in T
  <2> SUFFICES ASSUME k + 1 \in 0 .. n PROVE f[k + 1] \in S
    OBVIOUS
  <2>1. k \in 0 .. n /\ k + 1 # 0 /\ (k + 1) - 1 = k /\ k + 1 \in 1 .. n
    OBVIOUS
  <2>2. f[k + 1] = step[k + 1][f[(k + 1) - 1]]
    BY <2>1, Zenon DEF Iterates
  <2>3. f[k] \in S
    BY <1>2, <2>1
  <2>. QED
    BY <2>1, <2>2, <2>3
<1> HIDE DEF T
<1>3. \A k \in Nat : k \in T
  BY <1>1, <1>2, NaturalInduction
<1>. QED
  BY <1>3 DEF T

-----------------------------------------------------------------------------
(***************************************************************************)
(* Dividing numbers.                                                       *)
(***************************************************************************)
\* A quotient and a remainder.
LEMMA DivisionIs ==
  ASSUME NEW a \in Nat, NEW b \in Nat \ {0}
  PROVE  /\ a \div b \in Nat /\ a % b \in Nat /\ a % b < b
         /\ a = b * (a \div b) + (a % b)
OBVIOUS

\* There is only one.
LEMMA DivisionOnce ==
  ASSUME NEW a \in Nat, NEW b \in Nat \ {0}, NEW q \in Nat, NEW r \in Nat, a = b * q + r, r < b
  PROVE  a \div b = q /\ a % b = r
<1> DEFINE p == a \div b
           s == a % b
<1>1. p \in Nat /\ s \in Nat /\ s < b /\ a = b * p + s
  BY DivisionIs
<1> HIDE DEF p, s
<1>2. ~ (p + 1 <= q)
  <2> SUFFICES ASSUME p + 1 <= q PROVE FALSE
    OBVIOUS
  <2>1. b * (p + 1) <= b * q
    BY <1>1
  <2>2. b * (p + 1) = b * p + b
    BY <1>1
  <2>3. b * p \in Nat /\ b * q \in Nat
    BY <1>1
  <2>. QED
    BY <1>1, <2>1, <2>2, <2>3
<1>3. ~ (q + 1 <= p)
  <2> SUFFICES ASSUME q + 1 <= p PROVE FALSE
    OBVIOUS
  <2>1. b * (q + 1) <= b * p
    BY <1>1
  <2>2. b * (q + 1) = b * q + b
    BY <1>1
  <2>3. b * p \in Nat /\ b * q \in Nat
    BY <1>1
  <2>. QED
    BY <1>1, <2>1, <2>2, <2>3
<1>4. p = q
  BY <1>1, <1>2, <1>3
<1>5. s = r
  <2>1. b * q \in Nat
    OBVIOUS
  <2>. QED
    BY <1>1, <1>4, <2>1
<1>. QED
  BY <1>4, <1>5 DEF p, s

\* Dividing in two steps.
LEMMA DivisionTwice ==
  ASSUME NEW a \in Nat, NEW b \in Nat \ {0}
  PROVE  a \div b = 2 * (a \div (2 * b)) + ((a \div b) % 2)
<1> DEFINE p == a \div b
           s == a % b
           q == p \div 2
           r == p % 2
<1>1. p \in Nat /\ s \in Nat /\ s < b /\ a = b * p + s
  BY DivisionIs
<1> HIDE DEF p, s
<1>2. q \in Nat /\ r \in Nat /\ r < 2 /\ p = 2 * q + r
  BY <1>1
<1> HIDE DEF q, r
<1>3. a = (2 * b) * q + (b * r + s)
  BY <1>1, <1>2
<1>4. b * r + s \in Nat /\ b * r + s < 2 * b
  <2>1. r = 0 \/ r = 1
    BY <1>2
  <2>. QED
    BY <1>1, <2>1
<1>5. a \div (2 * b) = q
  <2> DEFINE c == 2 * b
             t == b * r + s
  <2>1. c \in Nat \ {0}
    OBVIOUS
  <2> HIDE DEF c, t
  <2>2. a = c * q + t /\ t \in Nat /\ t < c
    BY <1>3, <1>4 DEF c, t
  <2>3. a \div c = q
    BY <1>2, <2>1, <2>2, DivisionOnce
  <2>. QED
    BY <2>3 DEF c
<1>. QED
  BY <1>2, <1>5 DEF p, q, r

-----------------------------------------------------------------------------
(***************************************************************************)
(* Words.                                                                  *)
(***************************************************************************)

\* Powers of two double from one to the next, and are positive.
LEMMA PowersAre ==
  /\ PowerOfTwo[0] = 1
  /\ \A i \in 1 .. 2 * H : PowerOfTwo[i] = 2 * PowerOfTwo[i - 1]
  /\ \A i \in 0 .. 2 * H : PowerOfTwo[i] \in Nat \ {0}
<1> DEFINE n == 2 * H
           double == [i \in 1 .. n |-> [x \in Nat \ {0} |-> 2 * x]]
           p == CHOOSE p : p = [i \in 0 .. n |-> IF i = 0 THEN 1 ELSE 2 * p[i - 1]]
<1>1. n \in Nat
  BY FixedPointAssumption
<1>2. \A i \in 1 .. n : \A x \in Nat \ {0} : double[i][x] = 2 * x /\ 2 * x \in Nat \ {0}
  OBVIOUS
<1>3. PICK f : Iterates(f, n, 1, double)
  <2> HIDE DEF n, double
  <2>. QED
    BY <1>1, IterationExists
<1> HIDE DEF double
<1>4. \A i \in 0 .. n : f[i] \in Nat \ {0}
  <2> DEFINE S == Nat \ {0}
  <2>1. 1 \in S /\ \A i \in 1 .. n : \A x \in S : double[i][x] \in S
    BY <1>2
  <2> HIDE DEF S, n
  <2>2. \A i \in 0 .. n : f[i] \in S
    BY <1>1, <1>3, <2>1, IterationType, Zenon
  <2>. QED
    BY <2>2 DEF S
<1> HIDE DEF n
<1>5. f = [i \in 0 .. n |-> IF i = 0 THEN 1 ELSE 2 * f[i - 1]]
  <2>1. f = [i \in 0 .. n |-> IF i = 0 THEN 1 ELSE double[i][f[i - 1]]]
    BY <1>3, Zenon DEF Iterates
  <2>2. \A i \in 0 .. n : i # 0 => double[i][f[i - 1]] = 2 * f[i - 1]
    <3> SUFFICES ASSUME NEW i \in 0 .. n, i # 0 PROVE double[i][f[i - 1]] = 2 * f[i - 1]
      OBVIOUS
    <3>1. i \in 1 .. n /\ i - 1 \in 0 .. n
      BY <1>1
    <3>. QED
      BY <1>2, <1>4, <3>1
  <2>. QED
    BY <2>1, <2>2
<1>6. PowerOfTwo = p
  BY Zenon DEF PowerOfTwo, n
<1>7. p = [i \in 0 .. n |-> IF i = 0 THEN 1 ELSE 2 * p[i - 1]]
  BY <1>5, Zenon
<1> HIDE DEF p
<1>8. p[0] = 1 /\ \A i \in 1 .. n : p[i] = 2 * p[i - 1]
  <2>1. \A i \in 0 .. n : p[i] = IF i = 0 THEN 1 ELSE 2 * p[i - 1]
    BY <1>7, Zenon
  <2>2. 0 \in 0 .. n /\ \A i \in 1 .. n : i \in 0 .. n /\ i # 0
    BY <1>1
  <2>. QED
    BY <2>1, <2>2, Zenon
<1>9. \A i \in 0 .. n : p[i] \in Nat \ {0}
  <2> DEFINE T == {k \in Nat : k \in 0 .. n => p[k] \in Nat \ {0}}
  <2>1. 0 \in T
    BY <1>8
  <2>2. ASSUME NEW k \in Nat, k \in T PROVE k + 1 \in T
    <3> SUFFICES ASSUME k + 1 \in 0 .. n PROVE p[k + 1] \in Nat \ {0}
      OBVIOUS
    <3>1. k \in 0 .. n /\ k + 1 \in 1 .. n /\ (k + 1) - 1 = k
      BY <1>1
    <3>2. p[k + 1] = 2 * p[k]
      BY <1>8, <3>1
    <3>3. p[k] \in Nat \ {0}
      BY <2>2, <3>1
    <3>. QED
      BY <3>2, <3>3
  <2> HIDE DEF T
  <2>3. \A k \in Nat : k \in T
    BY <2>1, <2>2, NaturalInduction
  <2>. QED
    BY <2>3 DEF T
<1>. QED
  BY <1>6, <1>8, <1>9 DEF n

\* A word is made of two halves, and of two times its positive part.
LEMMA WordsAre ==
  /\ Half \in Nat /\ Half >= 2 /\ Word = Half * Half
  /\ Word \div 2 \in Nat \ {0} /\ Word = 2 * (Word \div 2)
<1>1. H \in Nat \ {0}
  BY FixedPointAssumption
<1> DEFINE T == {k \in Nat : k \in 0 .. H => PowerOfTwo[H + k] = Half * PowerOfTwo[k]}
<1>2. Half \in Nat \ {0}
  BY <1>1, PowersAre DEF Half
<1>3. 0 \in T
  BY <1>1, <1>2, PowersAre DEF Half
<1>4. ASSUME NEW k \in Nat, k \in T PROVE k + 1 \in T
  <2> SUFFICES ASSUME k + 1 \in 0 .. H PROVE PowerOfTwo[H + (k + 1)] = Half * PowerOfTwo[k + 1]
    OBVIOUS
  <2>1. /\ k \in 0 .. H /\ k \in 0 .. 2 * H /\ k + 1 \in 1 .. 2 * H /\ (k + 1) - 1 = k
        /\ H + (k + 1) \in 1 .. 2 * H /\ (H + (k + 1)) - 1 = H + k
    BY <1>1
  <2>2. PowerOfTwo[H + k] = Half * PowerOfTwo[k]
    BY <1>4, <2>1
  <2>3. PowerOfTwo[H + (k + 1)] = 2 * PowerOfTwo[H + k] /\ PowerOfTwo[k + 1] = 2 * PowerOfTwo[k]
    BY <2>1, PowersAre
  <2>4. PowerOfTwo[k] \in Nat
    BY <2>1, PowersAre
  <2>. QED
    BY <1>2, <2>2, <2>3, <2>4
<1> HIDE DEF T
<1>5. \A k \in Nat : k \in T
  BY <1>3, <1>4, NaturalInduction
<1>6. Word = Half * Half
  <2>1. H \in T /\ H \in 0 .. H /\ H + H = 2 * H
    BY <1>1, <1>5
  <2>2. PowerOfTwo[2 * H] = Half * PowerOfTwo[H]
    BY <2>1 DEF T
  <2>. QED
    BY <2>2 DEF Word, Half
<1>7. Half >= 2
  <2>1. H \in 1 .. 2 * H /\ H - 1 \in 0 .. 2 * H
    BY <1>1
  <2>2. Half = 2 * PowerOfTwo[H - 1] /\ PowerOfTwo[H - 1] \in Nat \ {0}
    BY <2>1, PowersAre DEF Half
  <2>. QED
    BY <2>2
<1>8. Word \div 2 \in Nat \ {0} /\ Word = 2 * (Word \div 2)
  <2>1. 2 * H \in 1 .. 2 * H /\ 2 * H - 1 \in 0 .. 2 * H
    BY <1>1
  <2>2. Word = 2 * PowerOfTwo[2 * H - 1] /\ PowerOfTwo[2 * H - 1] \in Nat \ {0}
    BY <2>1, PowersAre DEF Word
  <2> DEFINE w == PowerOfTwo[2 * H - 1]
  <2> HIDE DEF w
  <2>3. w \in Nat \ {0} /\ Word = 2 * w
    BY <2>2 DEF w
  <2>4. Word \div 2 = w
    BY <2>3
  <2>. QED
    BY <2>3, <2>4
<1>. QED
  BY <1>2, <1>6, <1>7, <1>8

\* What the product of two words is made of.
LEMMA ProductIs ==
  ASSUME NEW a \in Nat, NEW b \in Nat, a < Word, b < Word
  PROVE  LET p == MulFull(a, b)
         IN /\ p.hi \in Nat /\ p.lo \in Nat /\ p.hi < Word /\ p.lo < Word
            /\ p.hi * Word + p.lo = a * b
<1> DEFINE A == Half
           W == Word
           ah == a \div A  al == a % A
           bh == b \div A  bl == b % A
           ll == al * bl   lh == al * bh
           hl == ah * bl   hh == ah * bh
           l1 == ll \div A l0 == ll % A
           x1 == lh \div A x0 == lh % A
           y1 == hl \div A y0 == hl % A
           mid == l1 + x0 + y0
           m1 == mid \div A  m0 == mid % A
           hi == hh + x1 + y1 + m1
           lo == l0 + m0 * A
<1>1. A \in Nat \ {0} /\ A >= 2 /\ W = A * A /\ W \in Nat \ {0}
  BY WordsAre
<1> DEFINE low == l0 + (((mid % W) * A) % W)
           high == (hh + x1 + y1 + ((mid % W) \div A)) % W
<1>2. MulFull(a, b) = [lo |-> low, hi |-> high]
  BY Zenon DEF MulFull
<1>2a. MulFull(a, b).lo = low /\ MulFull(a, b).hi = high
  <2> HIDE DEF low, high
  <2>. QED
    BY <1>2
<1> HIDE DEF A, W, low, high
<1>3. /\ ah \in Nat /\ al \in Nat /\ al < A /\ a = A * ah + al
      /\ bh \in Nat /\ bl \in Nat /\ bl < A /\ b = A * bh + bl
  BY <1>1, DivisionIs
<1> HIDE DEF ah, al, bh, bl
<1>5. ll \in Nat /\ lh \in Nat /\ hl \in Nat /\ hh \in Nat
  BY <1>3
<1>6. ll < A * A
  <2>1. ll <= al * A /\ al * A <= A * A
    BY <1>1, <1>3
  <2>2. al = 0 \/ ll < al * A
    BY <1>1, <1>3
  <2>3. ll \in Nat /\ al * A \in Nat /\ A * A \in Nat /\ A * A > 0
    BY <1>1, <1>3
  <2>. QED
    BY <1>1, <1>3, <2>1, <2>2, <2>3
<1>7. a * b = A * A * hh + A * (lh + hl) + ll
  BY <1>1, <1>3
<1> HIDE DEF ll, lh, hl, hh
<1>8. /\ l1 \in Nat /\ l0 \in Nat /\ l0 < A /\ ll = A * l1 + l0
      /\ x1 \in Nat /\ x0 \in Nat /\ x0 < A /\ lh = A * x1 + x0
      /\ y1 \in Nat /\ y0 \in Nat /\ y0 < A /\ hl = A * y1 + y0
  BY <1>1, <1>5, DivisionIs
<1> HIDE DEF l1, l0, x1, x0, y1, y0
<1>9. l1 < A
  <2> SUFFICES ASSUME A <= l1 PROVE FALSE
    BY <1>1, <1>8
  <2>1. A * A <= A * l1
    BY <1>1, <1>8
  <2>2. A * l1 \in Nat /\ A * A \in Nat
    BY <1>1, <1>8
  <2>. QED
    BY <1>6, <1>8, <2>1, <2>2
<1>10. mid \in Nat /\ mid < W
  <2>1. mid \in Nat /\ mid <= 3 * (A - 1)
    BY <1>1, <1>8, <1>9
  <2>2. 3 * (A - 1) < A * A
    <3>1. CASE A = 2
      BY <3>1
    <3>2. CASE A >= 3
      <4>1. 3 * A <= A * A
        BY <1>1, <3>2
      <4>2. A * A \in Nat
        BY <1>1
      <4>. QED
        BY <1>1, <4>1, <4>2
    <3>. QED
      BY <1>1, <3>1, <3>2
  <2> HIDE DEF mid
  <2>3. A * A \in Nat
    BY <1>1
  <2>. QED
    BY <1>1, <2>1, <2>2, <2>3
<1>11. mid % W = mid
  <2> HIDE DEF mid
  <2>. QED
    BY <1>1, <1>10
<1>12. m1 \in Nat /\ m0 \in Nat /\ m0 < A /\ mid = A * m1 + m0
  <2> HIDE DEF mid
  <2>. QED
    BY <1>1, <1>10, DivisionIs
<1>13. a * b = hi * W + lo
  <2>1. a * b = A * A * hh + A * ((A * x1 + x0) + (A * y1 + y0)) + (A * l1 + l0)
    BY <1>7, <1>8
  <2>2. a * b = A * A * (hh + x1 + y1) + A * mid + l0
    BY <1>1, <1>5, <1>8, <2>1
  <2> HIDE DEF mid, m1, m0
  <2>3. a * b = A * A * (hh + x1 + y1) + A * (A * m1 + m0) + l0
    BY <1>12, <2>2
  <2>. QED
    BY <1>1, <1>5, <1>8, <1>12, <2>3
<1> HIDE DEF mid, m1, m0
<1>14. lo \in Nat /\ lo < W /\ m0 * A \in Nat /\ m0 * A < W
  <2>1. m0 * A <= (A - 1) * A
    BY <1>1, <1>12
  <2>2. (A - 1) * A = A * A - A /\ A * A \in Nat /\ m0 * A \in Nat
    BY <1>1, <1>12
  <2>. QED
    BY <1>1, <1>8, <2>1, <2>2
<1>15. hi \in Nat
  BY <1>5, <1>8, <1>12
<1>16. (mid * A) % W = m0 * A
  <2>1. mid * A = W * m1 + m0 * A
    BY <1>1, <1>12
  <2> DEFINE u == mid * A
             v == m0 * A
  <2>2. u \in Nat /\ v \in Nat /\ v < W /\ u = W * m1 + v
    BY <1>1, <1>10, <1>14, <2>1
  <2> HIDE DEF u, v
  <2>3. u % W = v
    BY <1>1, <1>12, <2>2, DivisionOnce
  <2>. QED
    BY <2>3 DEF u, v
<1> HIDE DEF hi, lo
<1>17. hi < W
  <2> SUFFICES ASSUME W <= hi PROVE FALSE
    BY <1>1, <1>15
  <2>1. W * W <= hi * W
    BY <1>1, <1>15
  <2>2. a * b <= a * W /\ a * W <= W * W
    BY <1>1 DEF W
  <2>3. a * W < W * W
    BY <1>1 DEF W
  <2>4. a * b \in Nat /\ a * W \in Nat /\ hi * W \in Nat /\ W * W \in Nat
    BY <1>1, <1>15
  <2>. QED
    BY <1>13, <1>14, <2>1, <2>2, <2>3, <2>4
<1>18. MulFull(a, b).lo = lo
  BY <1>2a, <1>11, <1>16 DEF lo, low
<1>19. MulFull(a, b).hi = hi
  <2>1. MulFull(a, b).hi = hi % W
    BY <1>2a, <1>11 DEF hi, m1, high
  <2>. QED
    BY <1>1, <1>15, <1>17, <2>1
<1>. QED
  BY <1>13, <1>14, <1>15, <1>17, <1>18, <1>19 DEF W

\* The first bits of a word are those before the last of them, and that one.
LEMMA BitsAre ==
  ASSUME NEW lo \in Nat, lo < Word
  PROVE  /\ lo \div PowerOfTwo[2 * H] = 0 /\ lo \div PowerOfTwo[0] = lo
         /\ \A i \in 1 .. 2 * H :
              /\ Bit(lo, i) \in {0, 1}
              /\ lo \div PowerOfTwo[2 * H - i] = 2 * (lo \div PowerOfTwo[2 * H - (i - 1)]) + Bit(lo, i)
              /\ lo \div PowerOfTwo[2 * H - i] \in Nat
<1>1. H \in Nat \ {0}
  BY FixedPointAssumption
<1>2. lo \div PowerOfTwo[0] = lo
  BY PowersAre
<1>3. lo \div PowerOfTwo[2 * H] = 0
  BY WordsAre DEF Word
<1>4. ASSUME NEW i \in 1 .. 2 * H
      PROVE  /\ Bit(lo, i) \in {0, 1}
             /\ lo \div PowerOfTwo[2 * H - i] = 2 * (lo \div PowerOfTwo[2 * H - (i - 1)]) + Bit(lo, i)
             /\ lo \div PowerOfTwo[2 * H - i] \in Nat
  <2> DEFINE w == PowerOfTwo[2 * H - i]
             v == PowerOfTwo[2 * H - (i - 1)]
  <2>1. /\ 2 * H - i \in 0 .. 2 * H /\ 2 * H - (i - 1) \in 1 .. 2 * H
        /\ (2 * H - (i - 1)) - 1 = 2 * H - i
    BY <1>1
  <2>2. w \in Nat \ {0} /\ v = 2 * w
    BY <2>1, PowersAre
  <2>3. Bit(lo, i) = (lo \div w) % 2
    BY DEF Bit
  <2> HIDE DEF w, v
  <2>4. lo \div w = 2 * (lo \div (2 * w)) + ((lo \div w) % 2)
    BY <2>2, DivisionTwice
  <2>5. lo \div w \in Nat
    BY <2>2
  <2>6. (lo \div w) % 2 \in {0, 1}
    BY <2>5
  <2>7. lo \div w = 2 * (lo \div v) + Bit(lo, i)
    BY <2>2, <2>3, <2>4
  <2>. QED
    BY <2>3, <2>5, <2>6, <2>7 DEF w, v
<1>. QED
  BY <1>2, <1>3, <1>4

Division == [rem : Nat, quo : Nat]

\* A step of the long division keeps what it divides.
LEMMA StepDivides ==
  ASSUME NEW d \in Division, NEW bit \in {0, 1}, NEW den \in 1 .. Word \div 2, d.rem < den
  PROVE  LET e == DivisionStep(d, bit, den)
         IN /\ e \in Division /\ e.rem < den
            /\ e.quo * den + e.rem = 2 * (d.quo * den + d.rem) + bit
<1> DEFINE W == Word
           w == Word \div 2
           r == d.rem
           q == d.quo
           shifted == r * 2 + bit
<1>1. W \in Nat /\ w \in Nat \ {0} /\ W = 2 * w /\ den \in Nat /\ den <= w
  BY WordsAre
<1>2. DivisionStep(d, bit, den) =
        IF r >= w \/ ((r * 2) % W) + bit >= den
          THEN [rem |-> ((((r * 2) % W) + bit) - den) % W, quo |-> 2 * q + 1]
          ELSE [rem |-> ((r * 2) % W) + bit, quo |-> 2 * q]
  BY Zenon DEF DivisionStep
<1> HIDE DEF W, w
<1>3. r \in Nat /\ q \in Nat /\ r < den /\ q * den \in Nat
  BY <1>1 DEF Division
<1> HIDE DEF r, q
<1>4. (r * 2) % W = r * 2 /\ ~ (r >= w)
  BY <1>1, <1>3
<1>5. shifted \in Nat /\ shifted < den + den
  BY <1>1, <1>3
<1>6. CASE shifted >= den
  <2>1. DivisionStep(d, bit, den) = [rem |-> (shifted - den) % W, quo |-> 2 * q + 1]
    BY <1>2, <1>4, <1>6
  <2>2. (shifted - den) % W = shifted - den /\ shifted - den \in Nat /\ shifted - den < den
    <3> HIDE DEF shifted
    <3>. QED
      BY <1>1, <1>5, <1>6
  <2>3. (2 * q + 1) * den = 2 * (q * den) + den /\ 2 * q + 1 \in Nat
    BY <1>1, <1>3
  <2>4. (2 * q + 1) * den + (shifted - den) = 2 * (q * den + r) + bit
    BY <1>1, <1>3, <2>3
  <2> HIDE DEF shifted
  <2>5. DivisionStep(d, bit, den) = [rem |-> shifted - den, quo |-> 2 * q + 1]
    BY <2>1, <2>2
  <2>. QED
    BY <2>2, <2>3, <2>4, <2>5 DEF Division, r, q
<1>7. CASE ~ (shifted >= den)
  <2>1. DivisionStep(d, bit, den) = [rem |-> shifted, quo |-> 2 * q]
    BY <1>2, <1>4, <1>7
  <2>2. shifted < den /\ 2 * q \in Nat
    <3> HIDE DEF shifted
    <3>. QED
      BY <1>1, <1>3, <1>5, <1>7
  <2>3. (2 * q) * den = 2 * (q * den)
    BY <1>1, <1>3
  <2>4. (2 * q) * den + shifted = 2 * (q * den + r) + bit
    BY <1>1, <1>3, <2>3
  <2> HIDE DEF shifted
  <2>. QED
    BY <1>5, <2>1, <2>2, <2>4 DEF Division, r, q
<1>. QED
  BY <1>6, <1>7

(***************************************************************************)
(* After as many steps as a word has bits it has divided both words.       *)
(***************************************************************************)
LEMMA LongDivisionDivides ==
  ASSUME NEW hi \in Nat, NEW lo \in Nat, lo < Word, NEW den \in 1 .. Word \div 2, hi < den
  PROVE  LET d == LongDivision(hi, lo, den)
         IN d \in Division /\ d.rem < den /\ hi * Word + lo = d.quo * den + d.rem
<1> DEFINE n == 2 * H
           base == [rem |-> hi, quo |-> 0]
           S == {d \in Division : d.rem < den}
           step == [i \in 1 .. n |-> [d \in S |-> DivisionStep(d, Bit(lo, i), den)]]
           after == CHOOSE f : f = [i \in 0 .. n |-> IF i = 0 THEN base
                                                     ELSE DivisionStep(f[i - 1], Bit(lo, i), den)]
<1>1. n \in Nat /\ den \in Nat
  BY FixedPointAssumption, WordsAre
<1>2. base \in S
  BY <1>1 DEF Division
<1>3. \A i \in 1 .. n : Bit(lo, i) \in {0, 1}
  BY BitsAre
<1>4. \A i \in 1 .. n : \A d \in S :
         /\ DivisionStep(d, Bit(lo, i), den) \in S
         /\ DivisionStep(d, Bit(lo, i), den).quo * den + DivisionStep(d, Bit(lo, i), den).rem
              = 2 * (d.quo * den + d.rem) + Bit(lo, i)
  BY <1>3, StepDivides
<1>5. LongDivision(hi, lo, den) = after[n]
  BY Zenon DEF LongDivision
<1>6. \A i \in 1 .. n : \A d \in S : step[i][d] = DivisionStep(d, Bit(lo, i), den) /\ step[i][d] \in S
  BY <1>4
<1> HIDE DEF n, base, S, step
<1>7. PICK f : Iterates(f, n, base, step)
  BY <1>1, IterationExists
<1>8. \A i \in 0 .. n : f[i] \in S
  BY <1>1, <1>2, <1>6, <1>7, IterationType
<1>9. f = [i \in 0 .. n |-> IF i = 0 THEN base ELSE DivisionStep(f[i - 1], Bit(lo, i), den)]
  <2>1. f = [i \in 0 .. n |-> IF i = 0 THEN base ELSE step[i][f[i - 1]]]
    BY <1>7, Zenon DEF Iterates
  <2>2. \A i \in 0 .. n : i # 0 => step[i][f[i - 1]] = DivisionStep(f[i - 1], Bit(lo, i), den)
    <3> SUFFICES ASSUME NEW i \in 0 .. n, i # 0
                 PROVE step[i][f[i - 1]] = DivisionStep(f[i - 1], Bit(lo, i), den)
      OBVIOUS
    <3>1. i \in 1 .. n /\ i - 1 \in 0 .. n
      BY <1>1
    <3>. QED
      BY <1>6, <1>8, <3>1
  <2>. QED
    BY <2>1, <2>2
<1>10. after = [i \in 0 .. n |-> IF i = 0 THEN base ELSE DivisionStep(after[i - 1], Bit(lo, i), den)]
  BY <1>9, Zenon
<1> HIDE DEF after
<1>11. after[0] = base /\ \A i \in 1 .. n : after[i] = DivisionStep(after[i - 1], Bit(lo, i), den)
  <2>1. \A i \in 0 .. n : after[i] = IF i = 0 THEN base ELSE DivisionStep(after[i - 1], Bit(lo, i), den)
    BY <1>10, Zenon
  <2>2. 0 \in 0 .. n /\ \A i \in 1 .. n : i \in 0 .. n /\ i # 0
    BY <1>1
  <2>. QED
    BY <2>1, <2>2, Zenon
<1> DEFINE top(i) == lo \div PowerOfTwo[n - i]
           T == {k \in Nat : k \in 0 .. n =>
                   /\ after[k] \in S
                   /\ hi * PowerOfTwo[k] + top(k) = after[k].quo * den + after[k].rem}
<1>12. /\ top(0) = 0 /\ top(n) = lo
       /\ \A i \in 1 .. n : top(i) = 2 * top(i - 1) + Bit(lo, i)
  <2>1. n - 0 = n /\ n - n = 0
    BY <1>1
  <2>. QED
    BY <2>1, BitsAre DEF n
<1>13. PowerOfTwo[0] = 1 /\ \A i \in 1 .. n : PowerOfTwo[i] = 2 * PowerOfTwo[i - 1]
  BY PowersAre DEF n
<1>14. \A i \in 0 .. n : PowerOfTwo[i] \in Nat /\ top(i) \in Nat
  <2>1. \A i \in 0 .. n : n - i \in 0 .. n
    BY <1>1
  <2>2. \A i \in 0 .. n : PowerOfTwo[i] \in Nat \ {0}
    BY PowersAre DEF n
  <2>. QED
    BY <2>1, <2>2
<1> HIDE DEF top
<1>15. 0 \in T
  BY <1>2, <1>11, <1>12, <1>13 DEF base
<1>16. ASSUME NEW k \in Nat, k \in T PROVE k + 1 \in T
  <2> SUFFICES ASSUME k + 1 \in 0 .. n
               PROVE /\ after[k + 1] \in S
                     /\ hi * PowerOfTwo[k + 1] + top(k + 1) = after[k + 1].quo * den + after[k + 1].rem
    OBVIOUS
  <2>1. k \in 0 .. n /\ k + 1 \in 1 .. n /\ (k + 1) - 1 = k
    BY <1>1
  <2> DEFINE d == after[k]
             e == after[k + 1]
             bit == Bit(lo, k + 1)
  <2>2. d \in S /\ hi * PowerOfTwo[k] + top(k) = d.quo * den + d.rem
    BY <1>16, <2>1
  <2>3. e = DivisionStep(d, bit, den)
    BY <1>11, <2>1
  <2>4. e \in S /\ e.quo * den + e.rem = 2 * (d.quo * den + d.rem) + bit
    BY <1>4, <2>1, <2>2, <2>3 DEF n, S
  <2>5. top(k + 1) = 2 * top(k) + bit /\ PowerOfTwo[k + 1] = 2 * PowerOfTwo[k]
    BY <1>12, <1>13, <2>1
  <2>6. bit \in Nat /\ top(k) \in Nat /\ PowerOfTwo[k] \in Nat
    BY <1>3, <1>14, <2>1 DEF n
  <2> HIDE DEF d, e, bit
  <2>7. hi * PowerOfTwo[k + 1] + top(k + 1) = 2 * (hi * PowerOfTwo[k] + top(k)) + bit
    BY <2>5, <2>6
  <2>8. hi * PowerOfTwo[k + 1] + top(k + 1) = e.quo * den + e.rem
    BY <2>2, <2>4, <2>7
  <2>. QED
    BY <2>4, <2>8 DEF e
<1> HIDE DEF T
<1>17. n \in T /\ n \in 0 .. n
  BY <1>1, <1>15, <1>16, NaturalInduction
<1>18. after[n] \in S /\ hi * PowerOfTwo[n] + top(n) = after[n].quo * den + after[n].rem
  BY <1>17 DEF T
<1>. QED
  BY <1>5, <1>12, <1>18 DEF S, n, Word

\* Two words divided by a divisor: absent exactly where the quotient is no word.
LEMMA DivRemIs ==
  ASSUME NEW hi \in Nat, NEW lo \in Nat, hi < Word, lo < Word, NEW den \in 1 .. Word \div 2
  PROVE  LET n == hi * Word + lo
         IN /\ n \in Nat /\ n \div den \in Nat
            /\ DivRem(hi, lo, den) = IF n \div den < Word THEN {[quo |-> n \div den, rem |-> n % den]} ELSE {}
<1> DEFINE W == Word
           n == hi * W + lo
           q == n \div den
           r == n % den
<1>1. W \in Nat \ {0} /\ den \in Nat \ {0} /\ den <= W
  BY WordsAre
<1>2. n \in Nat
  BY <1>1
<1>3. q \in Nat /\ r \in Nat /\ r < den /\ n = den * q + r
  <2> HIDE DEF n
  <2>. QED
    BY <1>1, <1>2, DivisionIs
<1>4. CASE hi = 0
  <2>1. n = lo
    BY <1>1, <1>4
  <2>2. DivRem(hi, lo, den) = {[quo |-> q, rem |-> r]}
    <3>1. DivRem(hi, lo, den) = {[quo |-> lo \div den, rem |-> lo % den]}
      BY <1>1, <1>4 DEF DivRem
    <3>. QED
      BY <2>1, <3>1
  <2>3. q < W
    <3> HIDE DEF n, q, r
    <3>1. q <= den * q
      BY <1>1, <1>3
    <3>2. den * q \in Nat
      BY <1>1, <1>3
    <3>. QED
      BY <1>1, <1>3, <2>1, <3>1, <3>2 DEF W
  <2>. QED
    BY <1>2, <1>3, <2>2, <2>3
<1>5. CASE hi # 0 /\ hi < den
  <2> DEFINE d == LongDivision(hi, lo, den)
  <2>1. DivRem(hi, lo, den) = {d}
    BY <1>1, <1>5 DEF DivRem
  <2>2. d \in Division /\ d.rem < den /\ n = d.quo * den + d.rem
    BY <1>5, LongDivisionDivides
  <2> HIDE DEF d
  <2>3. d.quo \in Nat /\ d.rem \in Nat /\ d = [quo |-> d.quo, rem |-> d.rem]
    BY <2>2 DEF Division
  <2>4. d.quo * den = den * d.quo
    BY <1>1, <2>3
  <2>5. q = d.quo /\ r = d.rem
    <3> HIDE DEF n
    <3>. QED
      BY <1>1, <1>2, <2>2, <2>3, <2>4, DivisionOnce
  <2>6. q < W
    <3> HIDE DEF q, r
    <3> SUFFICES ASSUME W <= q PROVE FALSE
      BY <1>1, <1>3
    <3>1. den * W <= den * q
      BY <1>1, <1>3
    <3>2. (hi + 1) * W <= den * W
      BY <1>1, <1>5
    <3>3. (hi + 1) * W = hi * W + W
      BY <1>1
    <3>4. hi * W \in Nat /\ den * W \in Nat /\ den * q \in Nat
      BY <1>1, <1>3
    <3>. QED
      BY <1>1, <1>3, <3>1, <3>2, <3>3, <3>4
  <2>7. DivRem(hi, lo, den) = {[quo |-> q, rem |-> r]}
    BY <2>1, <2>3, <2>5
  <2>. QED
    BY <1>2, <1>3, <2>6, <2>7
<1>6. CASE hi >= den
  <2>1. DivRem(hi, lo, den) = {}
    BY <1>1, <1>6 DEF DivRem
  <2>2. ~ (q < W)
    <3> HIDE DEF q, r
    <3> SUFFICES ASSUME q + 1 <= W PROVE FALSE
      BY <1>1, <1>3
    <3>1. den * (q + 1) <= den * W
      BY <1>1, <1>3
    <3>2. den * W <= hi * W
      BY <1>1, <1>6
    <3>3. den * (q + 1) = den * q + den
      BY <1>1, <1>3
    <3>4. hi * W \in Nat /\ den * W \in Nat /\ den * q \in Nat
      BY <1>1, <1>3
    <3>. QED
      BY <1>1, <1>3, <3>1, <3>2, <3>3, <3>4
  <2>. QED
    BY <1>2, <1>3, <2>1, <2>2
<1>. QED
  BY <1>1, <1>4, <1>5, <1>6

\* Magnitudes of words, and of their products.
LEMMA MagnitudesAre ==
  /\ \A x \in Words : x \in Int /\ Abs(x) \in Nat /\ Abs(x) <= Word \div 2 /\ Abs(x) < Word
  /\ \A x \in Words : x # 0 => Abs(x) \in 1 .. Word \div 2
  /\ \A x, y \in Int : Abs(x * y) = Abs(x) * Abs(y)
<1> DEFINE w == Word \div 2
           W == Word
<1>1. w \in Nat \ {0} /\ W = 2 * w
  BY WordsAre
<1>2. Words = (-w) .. (w - 1)
  BY DEF Words, Smallest, Largest
<1> HIDE DEF w, W
<1>3. \A x \in Words : x \in Int /\ Abs(x) \in Nat /\ Abs(x) <= w /\ Abs(x) < W /\ (x # 0 => Abs(x) \in 1 .. w)
  BY <1>1, <1>2 DEF Abs
<1>4. ASSUME NEW x \in Int, NEW y \in Int PROVE Abs(x * y) = Abs(x) * Abs(y)
  <2>1. /\ (-x) * y = -(x * y) /\ x * (-y) = -(x * y) /\ (-x) * (-y) = x * y
        /\ x * y \in Int
    OBVIOUS
  <2>2. \A m, n \in Nat : m * n \in Nat
    OBVIOUS
  <2>3. CASE x < 0 /\ y < 0
    <3>1. (-x) * (-y) \in Nat
      BY <2>2, <2>3
    <3>. QED
      BY <2>1, <2>3, <3>1 DEF Abs
  <2>4. CASE x < 0 /\ ~ (y < 0)
    <3>1. (-x) * y \in Nat
      BY <2>2, <2>4
    <3>. QED
      BY <2>1, <2>4, <3>1 DEF Abs
  <2>5. CASE ~ (x < 0) /\ y < 0
    <3>1. x * (-y) \in Nat
      BY <2>2, <2>5
    <3>. QED
      BY <2>1, <2>5, <3>1 DEF Abs
  <2>6. CASE ~ (x < 0) /\ ~ (y < 0)
    <3>1. x * y \in Nat
      BY <2>2, <2>6
    <3>. QED
      BY <2>1, <2>6, <3>1 DEF Abs
  <2>. QED
    BY <2>3, <2>4, <2>5, <2>6
<1>. QED
  BY <1>3, <1>4 DEF w, W

\* The magnitude of a quotient, and what is left.
LEMMA MagnitudeIs ==
  ASSUME NEW a \in Words, NEW b \in Words, NEW den \in Words, den # 0
  PROVE  LET n == Abs(a * b)
             d == Abs(den)
         IN /\ n \in Nat /\ d \in Nat \ {0} /\ d <= Word \div 2 /\ n \div d \in Nat
            /\ Magnitude(a, b, den) = IF n \div d < Word THEN {[quo |-> n \div d, rem |-> n % d]} ELSE {}
<1> DEFINE x == Abs(a)
           y == Abs(b)
           d == Abs(den)
           p == MulFull(x, y)
<1>1. x \in Nat /\ y \in Nat /\ x < Word /\ y < Word /\ d \in 1 .. Word \div 2 /\ Abs(a * b) = x * y
  BY MagnitudesAre
<1>2. Magnitude(a, b, den) = DivRem(p.hi, p.lo, d)
  BY Zenon DEF Magnitude
<1> HIDE DEF x, y, d
<1>3. p.hi \in Nat /\ p.lo \in Nat /\ p.hi < Word /\ p.lo < Word /\ p.hi * Word + p.lo = x * y
  BY <1>1, ProductIs
<1> HIDE DEF p
<1>4. d \in Nat \ {0} /\ d <= Word \div 2
  BY <1>1, WordsAre
<1>5. LET n == p.hi * Word + p.lo
      IN /\ n \in Nat /\ n \div d \in Nat
         /\ DivRem(p.hi, p.lo, d) = IF n \div d < Word THEN {[quo |-> n \div d, rem |-> n % d]} ELSE {}
  <2> DEFINE h == p.hi
             l == p.lo
  <2>1. h \in Nat /\ l \in Nat /\ h < Word /\ l < Word
    BY <1>3
  <2> HIDE DEF h, l
  <2>2. LET n == h * Word + l
        IN /\ n \in Nat /\ n \div d \in Nat
           /\ DivRem(h, l, d) = IF n \div d < Word THEN {[quo |-> n \div d, rem |-> n % d]} ELSE {}
    BY <1>1, <2>1, DivRemIs
  <2>. QED
    BY <2>2 DEF h, l
<1>6. Abs(a * b) = p.hi * Word + p.lo
  BY <1>1, <1>3
<1> DEFINE n == p.hi * Word + p.lo
<1>7. n \in Nat /\ n \div d \in Nat
      /\ DivRem(p.hi, p.lo, d) = IF n \div d < Word THEN {[quo |-> n \div d, rem |-> n % d]} ELSE {}
  BY <1>5
<1> HIDE DEF n
<1>8. Abs(a * b) = n
  BY <1>6 DEF n
<1>. QED
  BY <1>2, <1>4, <1>7, <1>8 DEF d

\* The sign put back is the quotient, where that is a word.
LEMMA SignedIs ==
  ASSUME NEW neg \in BOOLEAN, NEW q \in Nat
  PROVE  /\ Signed(neg, q) = Checked(IF neg THEN -q ELSE q)
         /\ q >= Word => Checked(IF neg THEN -q ELSE q) = {}
<1> DEFINE w == Word \div 2
           W == Word
<1>1. w \in Nat \ {0} /\ W = 2 * w
  BY WordsAre
<1>2. Words = (-w) .. (w - 1) /\ Largest = w - 1
  BY DEF Words, Smallest, Largest
<1> HIDE DEF w, W
<1>3. CASE neg
  <2>1. Signed(neg, q) = IF q <= w THEN {-q} ELSE {}
    BY <1>1, <1>2, <1>3 DEF Signed
  <2>2. -q \in Words <=> q <= w
    BY <1>1, <1>2
  <2>3. q >= W => ~ (q <= w)
    BY <1>1
  <2>4. Checked(-q) = IF q <= w THEN {-q} ELSE {}
    BY <2>2 DEF Checked
  <2>. QED
    BY <1>3, <2>1, <2>3, <2>4 DEF W
<1>4. CASE ~ neg
  <2>1. Signed(neg, q) = IF q <= w - 1 THEN {q} ELSE {}
    BY <1>1, <1>2, <1>4 DEF Signed
  <2>2. q \in Words <=> q <= w - 1
    BY <1>1, <1>2
  <2>. QED
    BY <1>1, <1>4, <2>1, <2>2 DEF Checked, W
<1>. QED
  BY <1>3, <1>4

\* Rounding up is adding one if something is left.
LEMMA RoundedUp ==
  ASSUME NEW n \in Nat, NEW d \in Nat \ {0}
  PROVE  /\ n \div d \in Nat /\ n % d \in Nat
         /\ (n + d - 1) \div d = (n \div d) + (IF n % d # 0 THEN 1 ELSE 0)
<1> DEFINE q == n \div d
           r == n % d
<1>1. q \in Nat /\ r \in Nat /\ r < d /\ n = d * q + r
  BY DivisionIs
<1> HIDE DEF q, r
<1> DEFINE m == n + d - 1
<1>2. d * q \in Nat /\ d * (q + 1) = d * q + d
  BY <1>1
<1>3. m \in Nat
  OBVIOUS
<1>4. CASE r = 0
  <2>1. m = d * q + (d - 1) /\ d - 1 \in Nat /\ d - 1 < d
    BY <1>1, <1>2, <1>4
  <2> HIDE DEF m
  <2>2. m \div d = q
    BY <1>1, <1>3, <2>1, DivisionOnce
  <2>. QED
    BY <1>1, <1>4, <2>2 DEF q, r, m
<1>5. CASE r # 0
  <2>1. m = d * (q + 1) + (r - 1) /\ r - 1 \in Nat /\ r - 1 < d /\ q + 1 \in Nat
    BY <1>1, <1>2, <1>5
  <2> HIDE DEF m
  <2>2. m \div d = q + 1
    BY <1>1, <1>3, <2>1, DivisionOnce
  <2>. QED
    BY <1>1, <1>5, <2>2 DEF q, r, m
<1>. QED
  BY <1>4, <1>5

(***************************************************************************)
(* A product scaled down is exact, rounded toward zero or away from it     *)
(* whatever the signs, and absent exactly when it does not fit a word or   *)
(* the divisor is zero (amount.rs, mul_div and mul_div_ceil).              *)
(***************************************************************************)
THEOREM ScalingIsExact ==
  \A a, b, den \in Words : ScaledExactly(a, b, den)
<1> SUFFICES ASSUME NEW a \in Words, NEW b \in Words, NEW den \in Words
             PROVE  ScaledExactly(a, b, den)
  OBVIOUS
<1>1. CASE den = 0
  <2>1. Abs(den) = 0
    BY <1>1 DEF Abs
  <2>2. Magnitude(a, b, den) = {}
    BY <2>1 DEF Magnitude, DivRem
  <2>. QED
    BY <1>1, <2>2 DEF ScaledExactly, MulDiv, MulDivCeil
<1>2. CASE den # 0
  <2> DEFINE n == Abs(a * b)
             d == Abs(den)
             neg == Negative(a, b, den)
             q == n \div d
             r == n % d
             u == q + IF r # 0 THEN 1 ELSE 0
  <2>1. /\ n \in Nat /\ d \in Nat \ {0} /\ d <= Word \div 2
        /\ Magnitude(a, b, den) = IF q < Word THEN {[quo |-> q, rem |-> r]} ELSE {}
    BY <1>2, MagnitudeIs
  <2>2. neg \in BOOLEAN
    BY DEF Negative
  <2>3. q \in Nat /\ u \in Nat /\ (n + d - 1) \div d = u
    <3> HIDE DEF n, d
    <3>1. /\ n \div d \in Nat /\ n % d \in Nat
          /\ (n + d - 1) \div d = (n \div d) + (IF n % d # 0 THEN 1 ELSE 0)
      BY <2>1, RoundedUp, Zenon
    <3> HIDE DEF q, r
    <3>2. q \in Nat /\ (n + d - 1) \div d = u
      BY <3>1, Zenon DEF q, r
    <3>. QED
      BY <3>2
  <2>4. /\ Quotient(a, b, den, FALSE) = IF neg THEN -q ELSE q
        /\ Quotient(a, b, den, TRUE) = IF neg THEN -u ELSE u
    <3>1. Quotient(a, b, den, FALSE) = IF neg THEN -((n + 0) \div d) ELSE (n + 0) \div d
      BY Zenon DEF Quotient
    <3>2. Quotient(a, b, den, TRUE) = IF neg THEN -((n + (d - 1)) \div d) ELSE (n + (d - 1)) \div d
      BY Zenon DEF Quotient
    <3>3. n + 0 = n /\ n + (d - 1) = n + d - 1
      <4> HIDE DEF n, d
      <4>. QED
        BY <2>1
    <3> HIDE DEF n, d, neg, u
    <3>. QED
      BY <2>3, <3>1, <3>2, <3>3
  <2>5. /\ MulDiv(a, b, den) = UNION {Signed(neg, x.quo) : x \in Magnitude(a, b, den)}
        /\ MulDivCeil(a, b, den) =
             UNION {Signed(neg, y) :
                      y \in {x.quo + (IF x.rem # 0 THEN 1 ELSE 0) : x \in Magnitude(a, b, den)} \cap 0 .. Word - 1}
    BY Zenon DEF MulDiv, MulDivCeil
  <2>6. q <= u
    <3> HIDE DEF q, r
    <3>. QED
      BY <2>3
  <2> HIDE DEF n, d, neg, q, r
  <2>7. CASE q < Word
    <3>1. Magnitude(a, b, den) = {[quo |-> q, rem |-> r]}
      BY <2>1, <2>7
    <3>2. MulDiv(a, b, den) = Signed(neg, q)
      BY <2>5, <3>1
    <3>3. MulDivCeil(a, b, den) = UNION {Signed(neg, y) : y \in {u} \cap 0 .. Word - 1}
      BY <2>5, <3>1
    <3> HIDE DEF u
    <3>4. Signed(neg, q) = Checked(IF neg THEN -q ELSE q)
      BY <2>2, <2>3, SignedIs
    <3>5. /\ Signed(neg, u) = Checked(IF neg THEN -u ELSE u)
          /\ u >= Word => Checked(IF neg THEN -u ELSE u) = {}
      BY <2>2, <2>3, SignedIs
    <3>6. u \in 0 .. Word - 1 <=> ~ (u >= Word)
      BY <2>3, WordsAre
    <3>7. MulDivCeil(a, b, den) = Checked(IF neg THEN -u ELSE u)
      BY <3>3, <3>5, <3>6
    <3>. QED
      BY <1>2, <2>4, <3>2, <3>4, <3>7 DEF ScaledExactly
  <2>8. CASE ~ (q < Word)
    <3>1. MulDiv(a, b, den) = {} /\ MulDivCeil(a, b, den) = {}
      BY <2>1, <2>5, <2>8
    <3>2. q >= Word /\ u >= Word
      <4> HIDE DEF u
      <4>. QED
        BY <2>3, <2>6, <2>8, WordsAre
    <3> HIDE DEF u
    <3>3. Checked(IF neg THEN -q ELSE q) = {} /\ Checked(IF neg THEN -u ELSE u) = {}
      BY <2>2, <2>3, <3>2, SignedIs
    <3>. QED
      BY <1>2, <2>4, <3>1, <3>3 DEF ScaledExactly
  <2>. QED
    BY <2>7, <2>8
<1>. QED
  BY <1>1, <1>2

\* A scaled product is a word, no greater in magnitude than the product is.
LEMMA ScaledIs ==
  ASSUME NEW a \in Words, NEW b \in Words, NEW den \in Words, den # 0, NEW q \in MulDiv(a, b, den)
  PROVE  /\ q \in Words
         /\ Abs(q) * Abs(den) <= Abs(a) * Abs(b)
         /\ a >= 0 /\ b >= 0 /\ den > 0 => q \in Nat /\ q * den <= a * b /\ a * b < q * den + den
<1> DEFINE n == Abs(a * b)
           d == Abs(den)
           neg == Negative(a, b, den)
           k == n \div d
<1>1. /\ a \in Int /\ b \in Int /\ den \in Int /\ d \in Nat \ {0}
      /\ Abs(a) \in Nat /\ Abs(b) \in Nat /\ n = Abs(a) * Abs(b) /\ n \in Nat
  BY MagnitudesAre, MagnitudeIs
<1>2. MulDiv(a, b, den) = Checked(Quotient(a, b, den, FALSE))
  BY ScalingIsExact DEF ScaledExactly
<1>3. q \in Words /\ q = Quotient(a, b, den, FALSE)
  BY <1>2 DEF Checked
<1>4. Quotient(a, b, den, FALSE) = IF neg THEN -((n + 0) \div d) ELSE (n + 0) \div d
  BY Zenon DEF Quotient
<1>5. neg \in BOOLEAN /\ (a >= 0 /\ b >= 0 /\ den > 0 => ~ neg /\ d = den /\ n = a * b)
  <2>1. neg \in BOOLEAN
    BY DEF Negative
  <2>2. ASSUME a >= 0, b >= 0, den > 0 PROVE ~ neg /\ d = den /\ n = a * b
    <3>1. Abs(a) = a /\ Abs(b) = b /\ Abs(den) = den
      BY <1>1, <2>2 DEF Abs
    <3>2. ~ neg
      BY <1>1, <2>2 DEF Negative
    <3>. QED
      BY <1>1, <3>1, <3>2
  <2>. QED
    BY <2>1, <2>2
<1> HIDE DEF n, d, neg
<1>6. n + 0 = n
  BY <1>1
<1>7. k \in Nat /\ d * k <= n /\ n < d * k + d
  <2>1. k \in Nat /\ n % d \in Nat /\ n % d < d /\ n = d * k + (n % d)
    BY <1>1, DivisionIs
  <2> HIDE DEF k
  <2>2. d * k \in Nat
    BY <1>1, <2>1
  <2> DEFINE r == n % d
  <2> HIDE DEF r
  <2>3. r \in Nat /\ r < d /\ n = d * k + r
    BY <2>1 DEF r
  <2>. QED
    BY <1>1, <2>1, <2>2, <2>3
<1>8. q = IF neg THEN -k ELSE k
  BY <1>3, <1>4, <1>6
<1> HIDE DEF k
<1>9. Abs(q) = k
  BY <1>5, <1>7, <1>8 DEF Abs
<1>10. Abs(q) * Abs(den) <= Abs(a) * Abs(b)
  <2>1. Abs(q) * Abs(den) = d * k
    BY <1>1, <1>7, <1>9 DEF d
  <2>. QED
    BY <1>1, <1>7, <2>1
<1>11. ASSUME a >= 0, b >= 0, den > 0
       PROVE  q \in Nat /\ q * den <= a * b /\ a * b < q * den + den
  <2>1. q = k /\ d = den /\ n = a * b
    BY <1>5, <1>8, <1>11
  <2>2. q * den = d * k
    BY <1>1, <1>7, <2>1
  <2>. QED
    BY <1>7, <2>1, <2>2
<1>. QED
  BY <1>3, <1>10, <1>11

(***************************************************************************)
(* Rounding never makes value (amount.rs, mul and div): what is divided by *)
(* a price and multiplied by it again is never more than it was, and an    *)
(* amount scaled in two parts never more than in one.                      *)
(***************************************************************************)
THEOREM RoundingMakesNoValue ==
  \A a, b, wad \in Words : wad > 0 => NoValueMade(a, b, wad)
<1> SUFFICES ASSUME NEW a \in Words, NEW b \in Words, NEW wad \in Words, wad > 0
             PROVE  NoValueMade(a, b, wad)
  OBVIOUS
<1>1. /\ a \in Int /\ b \in Int /\ wad \in Nat \ {0} /\ Abs(wad) = wad
      /\ Abs(a) \in Nat /\ Abs(b) \in Nat
  BY MagnitudesAre DEF Abs
<1>2. ASSUME NEW shares \in FixedDiv(a, b, wad), NEW back \in FixedMul(shares, b, wad)
      PROVE  Abs(back) <= Abs(a)
  <2>1. b # 0 /\ shares \in MulDiv(a, wad, b)
    BY <1>2 DEF FixedDiv
  <2>2. shares \in Words /\ Abs(shares) * Abs(b) <= Abs(a) * Abs(wad)
    BY <2>1, ScaledIs
  <2>3. back \in MulDiv(shares, b, wad)
    BY <1>2 DEF FixedMul
  <2>4. back \in Words /\ Abs(back) * Abs(wad) <= Abs(shares) * Abs(b)
    BY <1>1, <2>2, <2>3, ScaledIs
  <2> DEFINE x == Abs(back)
             y == Abs(a)
             z == Abs(shares) * Abs(b)
  <2>5. x \in Nat /\ y \in Nat /\ z \in Int
    BY <2>2, <2>4, MagnitudesAre
  <2>6. x * wad <= z /\ z <= y * wad
    BY <1>1, <2>2, <2>4
  <2> HIDE DEF x, y, z
  <2>7. x <= y
    <3> SUFFICES ASSUME y + 1 <= x PROVE FALSE
      BY <2>5
    <3>1. (y + 1) * wad <= x * wad
      BY <1>1, <2>5
    <3>2. (y + 1) * wad = y * wad + wad
      BY <1>1, <2>5
    <3>3. x * wad \in Nat /\ y * wad \in Nat
      BY <1>1, <2>5
    <3>. QED
      BY <1>1, <2>5, <2>6, <3>1, <3>2, <3>3
  <2>. QED
    BY <2>7 DEF x, y
<1>3. ASSUME a \in 0 .. Largest, b \in 0 .. Largest,
             NEW part \in {a \div 2, 1} \cap 0 .. a, NEW rest \in FixedSub(a, part),
             NEW x \in FixedMul(part, b, wad), NEW y \in FixedMul(rest, b, wad),
             NEW whole \in FixedMul(a, b, wad), NEW sum \in FixedAdd(x, y)
      PROVE  sum <= whole
  <2>1. a \in Nat /\ b \in Nat /\ part \in Nat /\ part <= a
    BY <1>1, <1>3
  <2>2. rest = a - part /\ rest \in Words /\ rest \in Nat
    BY <1>3, <2>1 DEF FixedSub, Checked
  <2>3. part \in Words
    <3>1. Smallest \in Int /\ Largest \in Int /\ Smallest <= 0 /\ a <= Largest
      BY <1>3, <2>1, WordsAre DEF Smallest, Largest
    <3>. QED
      BY <2>1, <3>1 DEF Words
  <2>4. sum = x + y
    BY <1>3 DEF FixedAdd, Checked
  <2>5. x \in Nat /\ x * wad <= part * b
    BY <1>1, <1>3, <2>1, <2>3, ScaledIs DEF FixedMul
  <2>6. y \in Nat /\ y * wad <= rest * b
    BY <1>1, <1>3, <2>1, <2>2, ScaledIs DEF FixedMul
  <2>7. whole \in Nat /\ a * b < whole * wad + wad
    BY <1>1, <1>3, <2>1, ScaledIs DEF FixedMul
  <2>8. part * b + rest * b = a * b
    BY <2>1, <2>2
  <2>9. (x + y) * wad <= a * b
    <3>1. (x + y) * wad = x * wad + y * wad
      BY <1>1, <2>5, <2>6
    <3>2. x * wad \in Nat /\ y * wad \in Nat /\ part * b \in Nat /\ rest * b \in Nat
      BY <1>1, <2>1, <2>2, <2>5, <2>6
    <3>. QED
      BY <2>5, <2>6, <2>8, <3>1, <3>2
  <2>10. x + y <= whole
    <3> SUFFICES ASSUME whole + 1 <= x + y PROVE FALSE
      BY <2>5, <2>6, <2>7
    <3>1. (whole + 1) * wad <= (x + y) * wad
      BY <1>1, <2>5, <2>6, <2>7
    <3>2. (whole + 1) * wad = whole * wad + wad
      BY <1>1, <2>7
    <3>3. (x + y) * wad \in Nat /\ whole * wad \in Nat /\ a * b \in Nat
      BY <1>1, <2>1, <2>5, <2>6, <2>7
    <3>. QED
      BY <1>1, <2>7, <2>9, <3>1, <3>2, <3>3
  <2>. QED
    BY <2>4, <2>10
<1>. QED
  BY <1>2, <1>3 DEF NoValueMade

-----------------------------------------------------------------------------
(***************************************************************************)
(* Sweeps.                                                                 *)
(***************************************************************************)
\* The greater of two numbers.
LEMMA GreaterOfTwo ==
  ASSUME NEW a \in Int, NEW b \in Int
  PROVE  Max({a, b}) = IF a >= b THEN a ELSE b
<1> DEFINE m == IF a >= b THEN a ELSE b
           S == {a, b}
<1>1. m \in S /\ \A y \in S : m >= y
  OBVIOUS
<1>2. \A x \in S : (\A y \in S : x >= y) => x = m
  OBVIOUS
<1> HIDE DEF S, m
<1>3. Max(S) = m
  BY <1>1, <1>2, Zenon DEF Max
<1>. QED
  BY <1>3 DEF S, m

Output(scripts) == [value : Nat, script : scripts]

\* What has been counted after i outputs, exactly and in a word.
Exactly(f, utxos) ==
  f = [i \in 0 .. Len(utxos) |-> IF i = 0 THEN 0 ELSE f[i - 1] + utxos[i].value]
InWords(f, utxos) ==
  f = [i \in 0 .. Len(utxos) |-> IF i = 0 THEN 0 ELSE (f[i - 1] + utxos[i].value) % ValueWord]

(***************************************************************************)
(* Both ways of counting are defined, and one is the other without its     *)
(* overflows.                                                              *)
(***************************************************************************)
LEMMA CountsAre ==
  ASSUME NEW scripts, NEW utxos \in Seq(Output(scripts))
  PROVE  /\ Given(utxos) \in Nat
         /\ Plan(utxos).total = Given(utxos) % ValueWord
         /\ \A most \in Nat : (\A i \in DOMAIN utxos : utxos[i].value <= most) =>
              Given(utxos) <= Len(utxos) * most
<1> DEFINE n == Len(utxos)
           W == ValueWord
           count == [i \in 1 .. n |-> [x \in Nat |-> x + utxos[i].value]]
           wrap == [i \in 1 .. n |-> [x \in Nat |-> (x + utxos[i].value) % W]]
           f == CHOOSE f : Exactly(f, utxos)
           g == CHOOSE g : InWords(g, utxos)
<1>1. n \in Nat /\ W \in Nat \ {0} /\ \A i \in 1 .. n : utxos[i].value \in Nat
  <2>1. n \in Nat /\ \A i \in 1 .. n : utxos[i] \in Output(scripts)
    BY LenProperties, ElementOfSeq
  <2>. QED
    BY <2>1, TransparentAssumption DEF Output
<1>2. Given(utxos) = f[n]
  BY Zenon DEF Given, Exactly
<1>3. Plan(utxos).total = g[n]
  <2> DEFINE fee == SweepFee(n)
             net == Max({g[n] - fee, 0})
  <2>1. Plan(utxos) = [total |-> g[n], fee |-> fee, net |-> net]
    BY Zenon DEF Plan, InWords
  <2> HIDE DEF g, n, fee, net
  <2>. QED
    BY <2>1
<1>4. /\ \A i \in 1 .. n : \A x \in Nat : count[i][x] = x + utxos[i].value /\ count[i][x] \in Nat
      /\ \A i \in 1 .. n : \A x \in Nat : wrap[i][x] = (x + utxos[i].value) % W /\ wrap[i][x] \in Nat
  <2>1. \A v, x \in Nat : x + v \in Nat /\ (x + v) % W \in Nat
    BY <1>1
  <2>. QED
    BY <1>1, <2>1
<1> HIDE DEF count, wrap, W
<1>5. PICK c : Iterates(c, n, 0, count)
  BY <1>1, IterationExists
<1>6. PICK w : Iterates(w, n, 0, wrap)
  BY <1>1, IterationExists
<1>7. \A i \in 0 .. n : c[i] \in Nat /\ w[i] \in Nat
  <2>1. /\ \A i \in 1 .. n : \A x \in Nat : count[i][x] \in Nat
        /\ \A i \in 1 .. n : \A x \in Nat : wrap[i][x] \in Nat
    BY <1>4
  <2>2. 0 \in Nat
    OBVIOUS
  <2> HIDE DEF n
  <2>3. \A i \in 0 .. n : c[i] \in Nat
    BY <1>1, <1>5, <2>1, <2>2, IterationType, Zenon
  <2>4. \A i \in 0 .. n : w[i] \in Nat
    BY <1>1, <1>6, <2>1, <2>2, IterationType, Zenon
  <2>. QED
    BY <2>3, <2>4
<1>8. \A i \in 0 .. n : i # 0 => i \in 1 .. n /\ i - 1 \in 0 .. n
  BY <1>1
<1>9. Exactly(c, utxos)
  <2>1. c = [i \in 0 .. n |-> IF i = 0 THEN 0 ELSE count[i][c[i - 1]]]
    BY <1>5, Zenon DEF Iterates
  <2>2. \A i \in 0 .. n : i # 0 => count[i][c[i - 1]] = c[i - 1] + utxos[i].value
    BY <1>4, <1>7, <1>8
  <2>3. c = [i \in 0 .. n |-> IF i = 0 THEN 0 ELSE c[i - 1] + utxos[i].value]
    BY <2>1, <2>2
  <2>. QED
    BY <2>3, Zenon DEF Exactly
<1>10. InWords(w, utxos)
  <2>1. w = [i \in 0 .. n |-> IF i = 0 THEN 0 ELSE wrap[i][w[i - 1]]]
    BY <1>6, Zenon DEF Iterates
  <2>2. \A i \in 0 .. n : i # 0 => wrap[i][w[i - 1]] = (w[i - 1] + utxos[i].value) % W
    BY <1>4, <1>7, <1>8
  <2>3. w = [i \in 0 .. n |-> IF i = 0 THEN 0 ELSE (w[i - 1] + utxos[i].value) % W]
    BY <2>1, <2>2
  <2>. QED
    BY <2>3, Zenon DEF InWords, W
<1>11. Exactly(f, utxos) /\ InWords(g, utxos)
  BY <1>9, <1>10, Zenon
<1> HIDE DEF f, g
<1>12. /\ f[0] = 0 /\ g[0] = 0
       /\ \A i \in 1 .. n : f[i] = f[i - 1] + utxos[i].value /\ g[i] = (g[i - 1] + utxos[i].value) % W
  <2>1. /\ \A i \in 0 .. n : f[i] = IF i = 0 THEN 0 ELSE f[i - 1] + utxos[i].value
        /\ \A i \in 0 .. n : g[i] = IF i = 0 THEN 0 ELSE (g[i - 1] + utxos[i].value) % W
    BY <1>11, Zenon DEF Exactly, InWords, W
  <2>2. 0 \in 0 .. n /\ \A i \in 1 .. n : i \in 0 .. n /\ i # 0
    BY <1>1
  <2>. QED
    BY <2>1, <2>2, Zenon
<1> HIDE DEF n
<1> DEFINE T == {k \in Nat : k \in 0 .. n => f[k] \in Nat /\ g[k] = f[k] % W}
<1>13. 0 \in T
  <2>1. 0 % W = 0
    BY <1>1
  <2>. QED
    BY <1>12, <2>1
<1>14. ASSUME NEW k \in Nat, k \in T PROVE k + 1 \in T
  <2> SUFFICES ASSUME k + 1 \in 0 .. n PROVE f[k + 1] \in Nat /\ g[k + 1] = f[k + 1] % W
    OBVIOUS
  <2>0. n \in Nat
    BY <1>1
  <2>1. k \in 0 .. n /\ k + 1 \in 1 .. n /\ (k + 1) - 1 = k
    BY <2>0
  <2> DEFINE x == f[k]
             v == utxos[k + 1].value
  <2>2. f[k + 1] = x + v /\ g[k + 1] = (g[k] + v) % W
    BY <1>12, <2>1
  <2>3. x \in Nat /\ v \in Nat /\ g[k] = x % W
    BY <1>1, <1>14, <2>1
  <2> HIDE DEF x, v
  <2>4. x \div W \in Nat /\ x % W \in Nat /\ x = W * (x \div W) + (x % W)
    BY <1>1, <2>3, DivisionIs
  <2> DEFINE q == x \div W
             r == x % W
             q2 == (r + v) \div W
             r2 == (r + v) % W
  <2>5. q \in Nat /\ r \in Nat /\ x = W * q + r
    BY <2>4
  <2> HIDE DEF q, r
  <2>6. r + v \in Nat
    BY <2>3, <2>5
  <2>7. q2 \in Nat /\ r2 \in Nat /\ r2 < W /\ r + v = W * q2 + r2
    BY <1>1, <2>6, DivisionIs
  <2> HIDE DEF q2, r2
  <2>8. x + v = W * (q + q2) + r2 /\ q + q2 \in Nat
    BY <1>1, <2>3, <2>5, <2>7
  <2>9. (x + v) % W = r2
    <3> DEFINE y == x + v
               p == q + q2
    <3>1. y \in Nat /\ p \in Nat /\ y = W * p + r2
      BY <2>3, <2>8
    <3> HIDE DEF y, p
    <3>2. y % W = r2
      BY <1>1, <2>7, <3>1, DivisionOnce
    <3>. QED
      BY <3>2 DEF y
  <2>10. g[k + 1] = r2
    BY <2>2, <2>3 DEF r, r2
  <2>. QED
    BY <2>2, <2>3, <2>9, <2>10
<1> HIDE DEF T
<1>15. n \in T /\ n \in 0 .. n
  <2>1. n \in Nat
    BY <1>1
  <2>2. \A k \in Nat : k \in T
    BY <1>13, <1>14, NaturalInduction
  <2>. QED
    BY <2>1, <2>2
<1>16. Given(utxos) \in Nat /\ Plan(utxos).total = Given(utxos) % ValueWord
  BY <1>2, <1>3, <1>15 DEF T, W
<1>17. ASSUME NEW most \in Nat, \A i \in DOMAIN utxos : utxos[i].value <= most
       PROVE  Given(utxos) <= n * most
  <2> DEFINE U == {k \in Nat : k \in 0 .. n => f[k] \in Nat /\ f[k] <= k * most}
  <2>1. 0 \in U
    BY <1>12
  <2>2. ASSUME NEW k \in Nat, k \in U PROVE k + 1 \in U
    <3> SUFFICES ASSUME k + 1 \in 0 .. n PROVE f[k + 1] \in Nat /\ f[k + 1] <= (k + 1) * most
      OBVIOUS
    <3>0. n \in Nat
      BY <1>1
    <3>1. k \in 0 .. n /\ k + 1 \in 1 .. n /\ (k + 1) - 1 = k
      BY <3>0
    <3>2. k + 1 \in DOMAIN utxos
      BY <3>1, LenProperties DEF n
    <3>3. f[k + 1] = f[k] + utxos[k + 1].value /\ utxos[k + 1].value \in Nat
      BY <1>1, <1>12, <3>1
    <3>4. f[k] \in Nat /\ f[k] <= k * most /\ utxos[k + 1].value <= most
      BY <1>17, <2>2, <3>1, <3>2
    <3>5. (k + 1) * most = k * most + most /\ k * most \in Nat
      OBVIOUS
    <3>. QED
      BY <3>3, <3>4, <3>5
  <2> HIDE DEF U
  <2>3. \A k \in Nat : k \in U
    BY <2>1, <2>2, NaturalInduction
  <2>4. n \in Nat
    BY <1>1
  <2>5. n \in U /\ n \in 0 .. n
    BY <2>3, <2>4
  <2>. QED
    BY <1>2, <2>5 DEF U
<1>. QED
  BY <1>16, <1>17 DEF n

\* Number of inputs and two actions: what is planned is what is due.
LEMMA FeeIsDue ==
  ASSUME NEW count \in Nat, count > 0
  PROVE  SweepFee(count) = MarginalFee * (count + 2) /\ MarginalFee * Max({2, count + Max({2, 1})}) = SweepFee(count)
<1>1. Max({count, 1}) = count /\ Max({count + 2, 2}) = count + 2
  BY GreaterOfTwo
<1>2. Max({2, 1}) = 2 /\ Max({2, count + 2}) = count + 2
  BY GreaterOfTwo
<1>. QED
  BY <1>1, <1>2 DEF SweepFee, PADDED_ORCHARD_ACTIONS

(***************************************************************************)
(* A sweep moves everything it was given, for the fee that is due and no   *)
(* more, is the one its holder was shown and signs with the keys of the    *)
(* addresses paid (transparent.rs, plan and shield), as long as what is    *)
(* given together is counted in a word.                                    *)
(***************************************************************************)
THEOREM SweepsMoveEverything ==
  ASSUME NEW scripts, NEW secrets,
         NEW receivers \in Seq([address : scripts, secret : secrets]),
         NEW utxos \in Seq(Output(scripts)), Given(utxos) < ValueWord
  PROVE  SweepMovesAll(receivers, utxos)
<1> SUFFICES ASSUME NEW sweep \in Shield(receivers, utxos)
             PROVE  /\ [i \in DOMAIN sweep.inputs |-> sweep.inputs[i].utxo] = utxos
                    /\ Given(utxos) = sweep.output + DueFee(sweep)
                    /\ Given(utxos) = Plan(utxos).total /\ sweep.output = Plan(utxos).net
                    /\ \A i \in DOMAIN sweep.inputs :
                         \E r \in Range(receivers) :
                           r.address = utxos[i].script /\ r.secret = sweep.inputs[i].key
  BY DEF SweepMovesAll
<1> DEFINE n == Len(utxos)
           net == Plan(utxos).net
           total == Plan(utxos).total
           paid == [i \in DOMAIN utxos |-> [utxo |-> utxos[i], key |-> Spender(receivers, utxos[i]).secret]]
<1>1. /\ utxos # << >> /\ net \in 1 .. MaxMoney
      /\ \A i \in DOMAIN utxos : Spendable(receivers, utxos[i])
      /\ sweep = [inputs |-> paid, output |-> net]
  <2> DEFINE made == [inputs |-> paid, output |-> net]
             may == utxos # << >> /\ net \in 1 .. MaxMoney /\ \A i \in DOMAIN utxos : Spendable(receivers, utxos[i])
  <2>1. Shield(receivers, utxos) = IF may THEN {made} ELSE {}
    BY Zenon DEF Shield
  <2> HIDE DEF made, may
  <2>2. may /\ sweep = made
    BY <2>1
  <2>. QED
    BY <2>2 DEF made, may
<1>2. n \in Nat \ {0} /\ DOMAIN utxos = 1 .. n
  BY <1>1, LenProperties, EmptySeq
<1>3. sweep.inputs = paid /\ sweep.output = net
  <2> HIDE DEF paid, net
  <2>. QED
    BY <1>1
<1>4. DOMAIN paid = 1 .. n /\ \A i \in 1 .. n : paid[i].utxo = utxos[i] /\ paid[i].key = Spender(receivers, utxos[i]).secret
  BY <1>2
<1>5. Len(paid) = n
  BY <1>2, <1>4
<1> HIDE DEF paid
<1>6. [i \in DOMAIN sweep.inputs |-> sweep.inputs[i].utxo] = utxos
  <2>1. [i \in 1 .. n |-> paid[i].utxo] = [i \in 1 .. n |-> utxos[i]]
    BY <1>4
  <2>2. utxos = [i \in 1 .. n |-> utxos[i]]
    BY <1>2, LenProperties
  <2>. QED
    BY <1>3, <1>4, <2>1, <2>2
<1>7. total = Given(utxos) /\ Given(utxos) \in Nat
  <2>1. Given(utxos) \in Nat /\ total = Given(utxos) % ValueWord
    BY CountsAre
  <2> DEFINE t == Given(utxos)
  <2> HIDE DEF t
  <2>2. t \in Nat /\ t < ValueWord => t % ValueWord = t
    BY TransparentAssumption
  <2>. QED
    BY <2>1, <2>2 DEF t
<1>8. net = Max({total - SweepFee(n), 0}) /\ SweepFee(n) \in Nat
  <2>1. net = Max({total - SweepFee(n), 0})
    <3> DEFINE h == CHOOSE g : InWords(g, utxos)
               fee == SweepFee(n)
               rest == Max({h[n] - fee, 0})
    <3>1. Plan(utxos) = [total |-> h[n], fee |-> fee, net |-> rest]
      BY Zenon DEF Plan, InWords
    <3> HIDE DEF h, n, fee
    <3>2. total = h[n]
      <4> HIDE DEF rest
      <4>. QED
        BY <3>1
    <3>3. net = rest
      <4> HIDE DEF rest
      <4>. QED
        BY <3>1
    <3>. QED
      BY <3>2, <3>3 DEF fee
  <2>2. SweepFee(n) = MarginalFee * (n + 2)
    <3>1. n \in Nat /\ n > 0
      BY <1>2
    <3> HIDE DEF n
    <3>. QED
      BY <3>1, FeeIsDue, Zenon
  <2>3. SweepFee(n) \in Nat
    BY <1>2, <2>2, TransparentAssumption
  <2>. QED
    BY <2>1, <2>3
<1>9. Given(utxos) = net + SweepFee(n)
  <2> DEFINE m == total - SweepFee(n)
             fee == SweepFee(n)
  <2>1. m \in Int /\ net = IF m >= 0 THEN m ELSE 0
    BY <1>7, <1>8, GreaterOfTwo
  <2>2. net > 0
    <3> HIDE DEF net
    <3>. QED
      BY <1>1, TransparentAssumption
  <2> HIDE DEF net
  <2>3. net = m
    BY <2>1, <2>2
  <2>. QED
    BY <1>7, <1>8, <2>3
<1>10. DueFee(sweep) = SweepFee(n)
  <2>1. DueFee(sweep) = MarginalFee * Max({2, n + Max({2, 1})})
    BY <1>3, <1>5, Zenon DEF DueFee
  <2>2. n \in Nat /\ n > 0
    BY <1>2
  <2> HIDE DEF n
  <2>3. MarginalFee * Max({2, n + Max({2, 1})}) = SweepFee(n)
    BY <2>2, FeeIsDue, Zenon
  <2>. QED
    BY <2>1, <2>3, Zenon
<1>11. ASSUME NEW i \in 1 .. n
       PROVE  \E r \in Range(receivers) : r.address = utxos[i].script /\ r.secret = paid[i].key
  <2> DEFINE u == utxos[i]
             mine == {j \in DOMAIN receivers : Spends(receivers[j], u)}
             first == Min(mine)
  <2>1. mine # {} /\ mine \subseteq Nat
    <3>1. \E j \in DOMAIN receivers : Spends(receivers[j], u)
      BY <1>1, <1>2, Zenon DEF Spendable
    <3>2. DOMAIN receivers \subseteq Nat
      BY LenProperties
    <3>. QED
      BY <3>1, <3>2
  <2>2. first \in mine
    <3> HIDE DEF mine
    <3>1. PICK k \in mine : \A j \in mine : k <= j
      BY <2>1, LeastNat
    <3>2. \E x \in mine : \A y \in mine : x <= y
      BY <3>1
    <3>. QED
      BY <3>2, Zenon DEF Min
  <2>3. Spender(receivers, u) = receivers[first]
    BY Zenon DEF Spender
  <2>4. first \in DOMAIN receivers /\ Spends(receivers[first], u)
    <3> HIDE DEF first
    <3>. QED
      BY <2>2
  <2>5. receivers[first] \in Range(receivers)
    <3> HIDE DEF first
    <3>. QED
      BY <2>4, Zenon DEF Range
  <2>6. receivers[first].address = u.script
    BY <2>4, Zenon DEF Spends
  <2>7. receivers[first].secret = paid[i].key
    BY <1>4, <2>3
  <2> HIDE DEF first
  <2>. QED
    BY <2>5, <2>6, <2>7
<1>. QED
  BY <1>3, <1>4, <1>6, <1>7, <1>9, <1>10, <1>11


(***************************************************************************)
(* So is the lesser.                                                       *)
(***************************************************************************)
LEMMA LesserOfTwo ==
  ASSUME NEW a \in Int, NEW b \in Int
  PROVE  Min({a, b}) = IF a <= b THEN a ELSE b
<1> DEFINE m == IF a <= b THEN a ELSE b
           S == {a, b}
<1>1. m \in S /\ \A y \in S : m <= y
  OBVIOUS
<1>2. \A x \in S : (\A y \in S : x <= y) => x = m
  OBVIOUS
<1> HIDE DEF S, m
<1>3. Min(S) = m
  BY <1>1, <1>2, Zenon DEF Min
<1>. QED
  BY <1>3 DEF S, m

(***************************************************************************)
(* Numbers that are bounded have a greatest.                               *)
(***************************************************************************)
LEMMA GreatestOf ==
  ASSUME NEW N, NEW m \in Nat, N # {}, \A n \in N : n \in Nat /\ n <= m
  PROVE  Max(N) \in N /\ \A n \in N : Max(N) >= n
<1> DEFINE D == {k \in Nat : m - k \in N}
<1>1. PICK n \in N : TRUE
  OBVIOUS
<1>2. m - n \in D
  <2>1. m - n \in Nat /\ m - (m - n) = n
    BY <1>1
  <2>. QED
    BY <1>1, <2>1
<1>3. PICK k \in D : \A j \in D : k <= j
  BY <1>2, LeastNat
<1>4. m - k \in N /\ k \in Nat
  OBVIOUS
<1>5. ASSUME NEW x \in N PROVE m - k >= x
  <2>1. x \in Nat /\ x <= m /\ m - x \in Nat /\ m - (m - x) = x
    OBVIOUS
  <2>2. m - x \in D
    BY <2>1
  <2>. QED
    BY <1>3, <1>4, <2>1, <2>2
<1> HIDE DEF D
<1>6. \E x \in N : \A y \in N : x >= y
  BY <1>4, <1>5
<1>. QED
  BY <1>6, Zenon DEF Max
(***************************************************************************)
(* A sweep of fewer outputs than all the money there is fills a word with  *)
(* moves everything: no output of more than all the money is spent         *)
(* (transparent.rs, shield), so their total never overflows.               *)
(***************************************************************************)
THEOREM FewOutputsMoveEverything ==
  ASSUME NEW scripts, NEW secrets,
         NEW receivers \in Seq([address : scripts, secret : secrets]),
         NEW utxos \in Seq(Output(scripts)), Len(utxos) * MaxMoney < ValueWord
  PROVE  SweepMovesAll(receivers, utxos)
<1>1. CASE \A i \in DOMAIN utxos : utxos[i].value <= MaxMoney
  <2>1. Given(utxos) \in Nat /\ Given(utxos) <= Len(utxos) * MaxMoney
    BY <1>1, CountsAre, TransparentAssumption
  <2>2. Len(utxos) * MaxMoney \in Nat /\ ValueWord \in Nat
    BY LenProperties, TransparentAssumption
  <2> DEFINE given == Given(utxos)
             most == Len(utxos) * MaxMoney
  <2> HIDE DEF given, most
  <2>3. given < ValueWord
    BY <2>1, <2>2 DEF given, most
  <2>. QED
    BY <2>3, SweepsMoveEverything DEF given
<1>2. CASE \E i \in DOMAIN utxos : ~(utxos[i].value <= MaxMoney)
  <2> DEFINE may == /\ utxos # << >> /\ Plan(utxos).net \in 1 .. MaxMoney
                    /\ \A i \in DOMAIN utxos : Spendable(receivers, utxos[i])
             paid == [i \in DOMAIN utxos |-> [utxo |-> utxos[i], key |-> Spender(receivers, utxos[i]).secret]]
             made == [inputs |-> paid, output |-> Plan(utxos).net]
  <2>1. Shield(receivers, utxos) = IF may THEN {made} ELSE {}
    BY Zenon DEF Shield
  <2>2. ~may
    BY <1>2, Zenon DEF Spendable
  <2> HIDE DEF may, made
  <2>3. Shield(receivers, utxos) = {}
    BY <2>1, <2>2
  <2>. QED
    BY <2>3 DEF SweepMovesAll
<1>. QED
  BY <1>1, <1>2, Zenon

-----------------------------------------------------------------------------
(***************************************************************************)
(* Notes.                                                                  *)
(***************************************************************************)
Memos == UNION {MemosOf(tag) : tag \in Tags}
AtMostOne(set) == \A x, y \in set : x = y
Attribution(set) == set \subseteq AccountIds /\ AtMostOne(set)
AreHanded(handed_out) == \A x \in DOMAIN handed_out : handed_out[x] \in AccountIds

\* Outputs a transaction may have, as a key that may be the vault's sees them.
TxOutputs == [ours : BOOLEAN, memo : Memos, index : Indices \cup {VaultIndex, NoIndex}]

(***************************************************************************)
(* A memo names one account or none, and a forced intent's is somebody's.  *)
(***************************************************************************)
LEMMA MemosName ==
  ASSUME NEW o \in TxOutputs
  PROVE  /\ DecodedAccount(o.memo) \subseteq AccountIds /\ AtMostOne(DecodedAccount(o.memo))
         /\ ForcedSigner(o) \subseteq Accounts /\ AtMostOne(ForcedSigner(o))
<1> DEFINE m == o.memo
<1>1. PICK tag \in Tags : m \in MemosOf(tag)
  BY DEF TxOutputs, Memos
<1>2. m.tag = tag /\ m.body \in Bodies(tag)
  BY <1>1 DEF MemosOf
<1> HIDE DEF m
<1>3. DecodedAccount(m) \subseteq AccountIds /\ AtMostOne(DecodedAccount(m))
  <2>1. DecodedAccount(m) \subseteq {m.body} \ {NoAccount}
    BY DEF DecodedAccount
  <2>2. AtMostOne(DecodedAccount(m))
    BY <2>1 DEF AtMostOne
  <2>3. tag \notin {"ZEC", "ZEC1:"} => DecodedAccount(m) = {}
    BY <1>2 DEF DecodedAccount
  <2>4. tag = "ZEC" => m.body \in AccountIds
    BY <1>2 DEF Bodies
  <2>5. tag = "ZEC1:" => m.body \in AccountIds \cup {NoAccount}
    BY <1>2 DEF Bodies
  <2>. QED
    BY <2>1, <2>2, <2>3, <2>4, <2>5
<1>4. ForcedSigner(o) \subseteq Accounts /\ AtMostOne(ForcedSigner(o))
  <2>1. ForcedFrame(m) \subseteq {m.body} /\ (tag # "ZEF" => ForcedFrame(m) = {})
    BY <1>2 DEF ForcedFrame
  <2>2. tag = "ZEF" => m.body.signer \in {NoAccount} \cup Accounts
    <3>1. tag = "ZEF" => m.body \in Frames
      BY <1>2 DEF Bodies
    <3>. QED
      BY <3>1 DEF Frames
  <2>3. ForcedSigner(o) \subseteq {m.body.signer} \ {NoAccount}
    BY <2>1 DEF ForcedSigner, ForcedAccount, m
  <2>4. tag # "ZEF" => ForcedSigner(o) = {}
    BY <2>1 DEF ForcedSigner, m
  <2>. QED
    BY <2>2, <2>3, <2>4 DEF AtMostOne
<1>. QED
  BY <1>3, <1>4 DEF m

Owned(owner, o, spends_ours, attributed, handed) ==
  /\ owner \subseteq AccountIds /\ AtMostOne(owner)
  /\ owner \subseteq Accounts \cup DecodedAccount(o.memo) \cup attributed \cup handed
  /\ owner = {} /\ spends_ours => DecodedAccount(o.memo) = {}

Recorded(a, o, attributed) ==
  /\ a.ours = o.ours /\ a.index = o.index
  /\ a.anchor = (o.ours /\ Evidence(o))
  /\ a.reserved = (o.ours /\ HasAppPaymentTag(o.memo))
  /\ a.payment = IF o.ours /\ HasAppPaymentTag(o.memo) THEN DecodedAppPayment(o.memo) ELSE {}
  /\ a.account = IF o.ours /\ ~Evidence(o) /\ ~(o.ours /\ HasAppPaymentTag(o.memo))
                   THEN NamedBy(o, attributed) ELSE {}

(***************************************************************************)
(* What a scan that knows no attribution records of an output: the account *)
(* the memo names, if it is money and claims no application.               *)
(***************************************************************************)
LEMMA ActionsAre ==
  ASSUME NEW o \in TxOutputs, NEW attributed
  PROVE  Recorded(ScannedAction(o, attributed), o, attributed)
<1> DEFINE claimed == o.ours /\ HasAppPaymentTag(o.memo)
           money == o.ours /\ ~Evidence(o) /\ ~claimed
           evidence == o.ours /\ Evidence(o)
           payment == IF claimed THEN DecodedAppPayment(o.memo) ELSE {}
           forced == o.ours /\ ForcedSigner(o) # {}
           a == ScannedAction(o, attributed)
           account == IF o.ours /\ ~evidence /\ ~claimed THEN NamedBy(o, attributed) ELSE {}
<1>1. a = [ours |-> o.ours, index |-> o.index, anchor |-> evidence, payment |-> payment,
           reserved |-> claimed, forced |-> forced, account |-> account]
  BY Zenon DEF ScannedAction
<1>2. account = IF money THEN NamedBy(o, attributed) ELSE {}
  <2>1. CASE o.ours
    <3>1. evidence <=> Evidence(o)
      BY <2>1, Zenon
    <3>. QED
      BY <3>1, Zenon
  <2>2. CASE ~o.ours
    BY <2>2, Zenon
  <2>. QED
    BY <2>1, <2>2, Zenon
<1>3. /\ a.ours = o.ours /\ a.index = o.index /\ a.anchor = evidence /\ a.reserved = claimed
      /\ a.payment = payment /\ a.account = account
  <2> HIDE DEF claimed, evidence, payment, forced, account, a
  <2>. QED
    BY <1>1
<1>. QED
  BY <1>2, <1>3, Zenon DEF Recorded

(***************************************************************************)
(* An output that is money has one owner or none: an account its memo, its *)
(* address or the attribution names.  With none of these it is change.     *)
(***************************************************************************)
LEMMA OwnersAre ==
  ASSUME NEW o \in TxOutputs, NEW spends_ours \in BOOLEAN,
         NEW attributed, Attribution(attributed),
         NEW handed_out, AreHanded(handed_out),
         o.ours, ~Evidence(o), ~HasAppPaymentTag(o.memo),
         NEW a, a = ScannedAction(o, {}),
         NEW owner, owner = Owner(a, spends_ours, attributed, handed_out),
         NEW handed, handed = {handed_out[x] : x \in DOMAIN handed_out \cap {o.index}}
  PROVE  Owned(owner, o, spends_ours, attributed, handed)
<1> DEFINE decoded == DecodedAccount(o.memo)
           forced == ForcedSigner(o)
           address == ByAddress(a, handed_out)
           memo == ByMemo(a, spends_ours, attributed)
<1>1. /\ decoded \subseteq AccountIds /\ AtMostOne(decoded)
      /\ forced \subseteq Accounts /\ AtMostOne(forced)
  BY MemosName
<1>2. a.index = o.index /\ a.account = NamedBy(o, {})
  <2> DEFINE claimed == o.ours /\ HasAppPaymentTag(o.memo)
             money == o.ours /\ ~Evidence(o) /\ ~claimed
  <2>1. Recorded(a, o, {})
    BY ActionsAre, Zenon
  <2>3. a.index = o.index /\ a.account = IF money THEN NamedBy(o, {}) ELSE {}
    BY <2>1, Zenon DEF Recorded
  <2>2. money
    OBVIOUS
  <2>. QED
    BY <2>2, <2>3, Zenon
<1>3. NamedBy(o, {}) = IF forced # {} THEN forced ELSE IF decoded # {} THEN decoded ELSE {}
  <2> HIDE DEF forced, decoded
  <2>1. NamedBy(o, {}) = CASE forced # {} -> forced
                           [] forced = {} /\ decoded # {} -> decoded
                           [] OTHER -> {}
    BY Zenon DEF NamedBy, forced, decoded
  <2>. QED
    BY <2>1
<1>4. address \subseteq handed /\ address \subseteq AccountIds /\ AtMostOne(address)
  <2>1. address = IF o.index \in DOMAIN handed_out \ {VaultIndex} THEN {handed_out[o.index]} ELSE {}
    BY <1>2 DEF ByAddress
  <2>. QED
    BY <2>1 DEF AtMostOne, AreHanded
<1>5. memo = IF a.account # {} THEN a.account ELSE IF spends_ours THEN {} ELSE attributed
  <2> DEFINE account == a.account
  <2>1. memo = CASE account # {} -> account
                 [] account = {} /\ spends_ours -> {}
                 [] OTHER -> attributed
    BY Zenon DEF ByMemo
  <2> HIDE DEF account, memo
  <2>. QED
    BY <2>1 DEF account
<1>6. owner = IF address # {} THEN address ELSE memo
  BY Zenon DEF Owner
<1>7. Accounts \subseteq AccountIds
  BY DEF AccountIds
<1> HIDE DEF decoded, forced, address, memo
<1>8. /\ memo \subseteq AccountIds /\ AtMostOne(memo)
      /\ memo \subseteq Accounts \cup decoded \cup attributed
      /\ memo = {} /\ spends_ours => decoded = {}
  <2>1. AtMostOne({})
    BY DEF AtMostOne
  <2>. QED
    BY <1>1, <1>2, <1>3, <1>5, <1>7, <2>1 DEF Attribution
<1>9. /\ owner \subseteq AccountIds /\ AtMostOne(owner)
      /\ owner \subseteq Accounts \cup decoded \cup attributed \cup handed
      /\ owner = {} /\ spends_ours => decoded = {}
  BY <1>4, <1>6, <1>8
<1>. QED
  BY <1>9, Zenon DEF decoded, Owned

(***************************************************************************)
(* Every note of the vault's in a transaction that is classified is        *)
(* exactly one thing, evidence, a payment, nobody's, change or one deposit *)
(* (shielded.rs, classify_addressed): for transactions of any length,      *)
(* whatever addresses were handed out, to whom, and whoever it is          *)
(* attributed to.                                                          *)
(***************************************************************************)
THEOREM NotesAreOfOneKind ==
  ASSUME NEW tx \in Seq(TxOutputs), NEW spends_ours \in BOOLEAN,
         NEW attributed, Attribution(attributed),
         NEW handed_out, AreHanded(handed_out)
  PROVE  EveryNoteIsOneThing(tx, spends_ours, attributed, handed_out)
<1> DEFINE scanned == Scan(tx, {}, TRUE)
           actions == [i \in Outputs(tx) |-> ScannedAction(tx[i], {})]
           result == Classify(scanned.actions, spends_ours, attributed, handed_out)
           ByOutput(i) == {d \in result.deposits : d.output = i}
           OwnerOf(i) == Owner(actions[i], spends_ours, attributed, handed_out)
<1>1. /\ scanned.actions = actions
      /\ scanned.app_payments = {i \in Outputs(tx) : actions[i].payment # {}}
  <2> DEFINE refused == ~TRUE /\ \E i \in Outputs(tx) : Unaddressed(actions[i])
             deposits == {d \in [output : Outputs(tx), account : AccountIds] :
                            d.account \in actions[d.output].account}
             forced == {i \in Outputs(tx) : actions[i].forced}
             app_payments == {i \in Outputs(tx) : actions[i].payment # {}}
  <2>1. scanned = [refused |-> refused, actions |-> actions, deposits |-> deposits,
                   forced |-> forced, app_payments |-> app_payments]
    BY Zenon DEF Scan
  <2> HIDE DEF scanned, refused, actions, deposits, forced, app_payments
  <2>2. scanned.actions = actions /\ scanned.app_payments = app_payments
    BY <2>1
  <2>. QED
    BY <2>2 DEF app_payments
<1>2. DOMAIN actions = Outputs(tx) /\ \A i \in Outputs(tx) : actions[i] = ScannedAction(tx[i], {})
  BY Zenon
<1>3. \A i \in Outputs(tx) : tx[i] \in TxOutputs
  BY LenProperties, ElementOfSeq DEF Outputs
<1> HIDE DEF scanned, actions
<1>4. /\ result.refused = \E i \in Outputs(tx) :
                             Unclassified(actions[i], spends_ours, attributed, handed_out)
      /\ result.deposits = {d \in [output : Outputs(tx), account : Accounts] :
                              Considered(actions[d.output]) /\ d.account \in OwnerOf(d.output)}
  <2> DEFINE refused == \E i \in Outputs(tx) :
                          Unclassified(actions[i], spends_ours, attributed, handed_out)
             deposits == {d \in [output : Outputs(tx), account : Accounts] :
                            Considered(actions[d.output]) /\ d.account \in OwnerOf(d.output)}
  <2>1. result = [refused |-> refused, deposits |-> deposits]
    BY <1>1, <1>2, Zenon DEF Classify
  <2> HIDE DEF result, refused, deposits
  <2>2. result.refused = refused /\ result.deposits = deposits
    BY <2>1
  <2>. QED
    BY <2>2 DEF refused, deposits
<1> HIDE DEF result
<1> SUFFICES ASSUME ~result.refused, NEW i \in Outputs(tx), tx[i].ours
             PROVE  IF Evidence(tx[i]) \/ i \in scanned.app_payments THEN ByOutput(i) = {}
                    ELSE /\ ~HasAppPaymentTag(tx[i].memo)
                         /\ \/ Cardinality(ByOutput(i)) = 1
                            \/ /\ ByOutput(i) = {}
                               /\ \/ spends_ours /\ DecodedAccount(tx[i].memo) = {}
                                  \/ Nobody \in DecodedAccount(tx[i].memo) \cup attributed
                                       \cup {handed_out[x] : x \in DOMAIN handed_out \cap {tx[i].index}}
  BY Zenon DEF EveryNoteIsOneThing, scanned, result
<1> DEFINE a == actions[i]
           o == tx[i]
           handed == {handed_out[x] : x \in DOMAIN handed_out \cap {o.index}}
<1>5. a = ScannedAction(o, {}) /\ o \in TxOutputs /\ o.ours \in BOOLEAN
  BY <1>2, <1>3 DEF TxOutputs
<1>6. /\ a.ours = TRUE /\ a.anchor = Evidence(o) /\ a.reserved = HasAppPaymentTag(o.memo)
      /\ a.payment = IF HasAppPaymentTag(o.memo) THEN DecodedAppPayment(o.memo) ELSE {}
  <2> DEFINE claimed == o.ours /\ HasAppPaymentTag(o.memo)
             b == ScannedAction(o, {})
  <2>1. /\ b.ours = o.ours /\ b.anchor = (o.ours /\ Evidence(o)) /\ b.reserved = claimed
        /\ b.payment = IF claimed THEN DecodedAppPayment(o.memo) ELSE {}
    <3>1. Recorded(b, o, {})
      BY <1>5, ActionsAre, Zenon
    <3>. QED
      BY <3>1, Zenon DEF Recorded
  <2>2. o.ours = TRUE
    BY <1>5
  <2> HIDE DEF b
  <2>3. Evidence(o) \in BOOLEAN /\ HasAppPaymentTag(o.memo) \in BOOLEAN
    BY DEF Evidence, HasAppPaymentTag, IsAnchor, IsPublication, Strict
  <2> DEFINE p == Evidence(o)
             q == HasAppPaymentTag(o.memo)
  <2> HIDE DEF p, q, o, a
  <2>. QED
    BY <1>5, <2>1, <2>2, <2>3 DEF b, p, q
<1>7. Considered(a) <=> ~Evidence(o) /\ i \notin scanned.app_payments
  <2>1. i \in scanned.app_payments <=> a.payment # {}
    BY <1>1
  <2>. QED
    BY <1>6, <2>1, Zenon DEF Considered
<1>8. ByOutput(i) = {d \in [output : {i}, account : Accounts] :
                       Considered(a) /\ d.account \in OwnerOf(i)}
  <2> DEFINE given == {d \in [output : {i}, account : Accounts] :
                         Considered(a) /\ d.account \in OwnerOf(i)}
  <2>1. ASSUME NEW d \in ByOutput(i) PROVE d \in given
    <3>1. d \in [output : Outputs(tx), account : Accounts] /\ d.output = i
          /\ Considered(actions[d.output]) /\ d.account \in OwnerOf(d.output)
      BY <1>4, Zenon
    <3>2. d \in [output : {i}, account : Accounts]
      BY <3>1
    <3>. QED
      BY <3>1, <3>2, Zenon
  <2>2. ASSUME NEW d \in given PROVE d \in ByOutput(i)
    <3>1. d \in [output : {i}, account : Accounts] /\ Considered(a) /\ d.account \in OwnerOf(i)
      BY Zenon
    <3>2. d \in [output : Outputs(tx), account : Accounts] /\ d.output = i
      BY <3>1
    <3>. QED
      BY <1>4, <3>1, <3>2, Zenon
  <2> HIDE DEF ByOutput, given
  <2>3. ByOutput(i) = given
    BY <2>1, <2>2, Zenon
  <2>. QED
    BY <2>3 DEF given
<1>9. CASE Evidence(o) \/ i \in scanned.app_payments
  <2>1. ~Considered(a)
    BY <1>7, <1>9
  <2>2. ByOutput(i) = {}
    BY <1>8, <2>1
  <2>. QED
    BY <1>9, <2>2, Zenon
<1>10. CASE ~(Evidence(o) \/ i \in scanned.app_payments)
  <2>1. Considered(a) /\ ~Unclassified(a, spends_ours, attributed, handed_out)
    BY <1>4, <1>7, <1>10
  <2> DEFINE owner == OwnerOf(i)
  <2>2. ~a.reserved /\ (spends_ours \/ owner # {})
    BY <2>1, Zenon DEF Unclassified
  <2>3. ~HasAppPaymentTag(o.memo) /\ ~Evidence(o)
    BY <1>6, <1>10, <2>2
  <2>4. /\ owner \subseteq AccountIds /\ AtMostOne(owner)
        /\ owner \subseteq Accounts \cup DecodedAccount(o.memo) \cup attributed \cup handed
        /\ owner = {} /\ spends_ours => DecodedAccount(o.memo) = {}
    <3>1. o \in TxOutputs /\ o.ours /\ a = ScannedAction(o, {})
          /\ owner = Owner(a, spends_ours, attributed, handed_out)
          /\ handed = {handed_out[x] : x \in DOMAIN handed_out \cap {o.index}}
      BY <1>5, Zenon
    <3> HIDE DEF o, a, owner, handed
    <3>2. Owned(owner, o, spends_ours, attributed, handed)
      BY <2>3, <3>1, OwnersAre, Zenon
    <3>. QED
      BY <3>2, Zenon DEF Owned
  <2> DEFINE given == ByOutput(i)
  <2>5. given = {d \in [output : {i}, account : Accounts] : d.account \in owner}
    BY <1>8, <2>1
  <2> HIDE DEF given, owner, handed, a, ByOutput
  <2>6. CASE owner \cap Accounts # {}
    <3>1. PICK x \in Accounts : owner = {x}
      BY <2>4, <2>6 DEF AtMostOne
    <3>2. given = {[output |-> i, account |-> x]}
      BY <2>5, <3>1
    <3>3. Cardinality(given) = 1
      BY <3>2, FS_Singleton
    <3>. QED
      BY <1>10, <2>3, <3>3, Zenon DEF given, ByOutput
  <2>7. CASE owner \cap Accounts = {}
    <3>1. given = {}
      BY <2>5, <2>7
    <3>2. owner = {} \/ owner = {Nobody}
      BY <2>4, <2>7 DEF AccountIds
    <3>3. owner = {Nobody} => Nobody \in DecodedAccount(o.memo) \cup attributed \cup handed
      BY <2>4, AccountsAssumption
    <3>4. owner = {} => spends_ours /\ DecodedAccount(o.memo) = {}
      BY <2>2, <2>4
    <3>. QED
      BY <1>10, <2>3, <3>1, <3>2, <3>3, <3>4, Zenon DEF given, handed
  <2>. QED
    BY <2>6, <2>7
<1>. QED
  BY <1>9, <1>10, Zenon

(***************************************************************************)
(* What a scan that knows the attribution says of an output is what a      *)
(* classification without addresses and change says of it.                 *)
(***************************************************************************)
LEMMA ReadingsAgree ==
  ASSUME NEW o \in TxOutputs, NEW attributed, NEW a, NEW b,
         a = ScannedAction(o, attributed), b = ScannedAction(o, {})
  PROVE  /\ Unaddressed(a) <=> Unclassified(b, FALSE, attributed, << >>)
         /\ ~Unaddressed(a) =>
              a.account = IF Considered(b) THEN Owner(b, FALSE, attributed, << >>) ELSE {}
<1> DEFINE owner == Owner(b, FALSE, attributed, << >>)
           forced == ForcedSigner(o)
           decoded == DecodedAccount(o.memo)
           claimed == o.ours /\ HasAppPaymentTag(o.memo)
           payment == IF claimed THEN DecodedAppPayment(o.memo) ELSE {}
           money == o.ours /\ ~Evidence(o) /\ ~claimed
<1>1. Recorded(a, o, attributed) /\ Recorded(b, o, {})
  BY ActionsAre, Zenon
<1>2. \A other : NamedBy(o, other) = IF forced # {} THEN forced ELSE IF decoded # {} THEN decoded ELSE other
  <2> TAKE other
  <2> HIDE DEF forced, decoded
  <2>1. NamedBy(o, other) = CASE forced # {} -> forced
                              [] forced = {} /\ decoded # {} -> decoded
                              [] OTHER -> other
    BY Zenon DEF NamedBy, forced, decoded
  <2>. QED
    BY <2>1
<1>3. owner = IF b.account # {} THEN b.account ELSE attributed
  <2> DEFINE account == b.account
             memo == ByMemo(b, FALSE, attributed)
             address == ByAddress(b, << >>)
  <2>1. memo = CASE account # {} -> account
                 [] account = {} /\ FALSE -> {}
                 [] OTHER -> attributed
    BY Zenon DEF ByMemo
  <2>2. address = {}
    <3>1. DOMAIN << >> = {}
      OBVIOUS
    <3>2. address = IF b.index \in DOMAIN << >> \ {VaultIndex} THEN {<< >>[b.index]} ELSE {}
      BY Zenon DEF ByAddress
    <3> HIDE DEF address
    <3>. QED
      BY <3>1, <3>2
  <2>3. owner = IF address # {} THEN address ELSE memo
    BY Zenon DEF Owner
  <2> HIDE DEF account, memo, owner, address
  <2>. QED
    BY <2>1, <2>2, <2>3 DEF account
<1> HIDE DEF owner
<1>4. /\ a.ours = o.ours /\ b.ours = o.ours
      /\ a.anchor = (o.ours /\ Evidence(o)) /\ b.anchor = (o.ours /\ Evidence(o))
      /\ a.reserved = claimed /\ b.reserved = claimed
      /\ a.payment = payment /\ b.payment = payment
      /\ a.account = IF money THEN NamedBy(o, attributed) ELSE {}
      /\ b.account = IF money THEN NamedBy(o, {}) ELSE {}
  BY <1>1, Zenon DEF Recorded
<1>5. money => a.account = owner
  BY <1>2, <1>3, <1>4
<1>6. Considered(b) <=> o.ours /\ ~Evidence(o) /\ payment = {}
  BY <1>4, Zenon DEF Considered
<1>7. Unaddressed(a) <=> o.ours /\ ~Evidence(o) /\ payment = {} /\ (claimed \/ a.account = {})
  BY <1>4, Zenon DEF Unaddressed
<1>8. Unclassified(b, FALSE, attributed, << >>)
        <=> o.ours /\ ~Evidence(o) /\ payment = {} /\ (claimed \/ owner = {})
  BY <1>4, <1>6, Zenon DEF Unclassified, owner
<1>9. Unaddressed(a) <=> Unclassified(b, FALSE, attributed, << >>)
  BY <1>5, <1>7, <1>8, Zenon
<1>10. ASSUME ~Unaddressed(a)
       PROVE  a.account = IF Considered(b) THEN owner ELSE {}
  <2>1. CASE money
    <3>1. payment = {}
      BY <2>1, Zenon
    <3>. QED
      BY <1>5, <1>6, <2>1, <3>1, Zenon
  <2>2. CASE ~money
    <3>1. a.account = {}
      BY <1>4, <2>2, Zenon
    <3>2. ~Considered(b)
      BY <1>6, <1>7, <1>10, <2>2, <3>1, Zenon
    <3>. QED
      BY <3>1, <3>2, Zenon
  <2>. QED
    BY <2>1, <2>2, Zenon
<1>. QED
  BY <1>9, <1>10, Zenon DEF owner

(***************************************************************************)
(* The two readings of a transaction, the strict scan and a classification *)
(* without addresses or change, agree on whose money is in it (shielded.rs,*)
(* scan and classify), whoever it is attributed to.                        *)
(***************************************************************************)
THEOREM ReadingsOfTransactionsAgree ==
  ASSUME NEW tx \in Seq(TxOutputs), NEW attributed
  PROVE  ScansAgree(tx, attributed)
<1> DEFINE strict == Scan(tx, attributed, FALSE)
           scanned == Scan(tx, {}, TRUE)
           lenient == Classify(scanned.actions, FALSE, attributed, << >>)
           told == [i \in Outputs(tx) |-> ScannedAction(tx[i], attributed)]
           untold == [i \in Outputs(tx) |-> ScannedAction(tx[i], {})]
           OwnerOf(i) == Owner(untold[i], FALSE, attributed, << >>)
<1>1. \A i \in Outputs(tx) : tx[i] \in TxOutputs
  BY LenProperties, ElementOfSeq DEF Outputs
<1>2. \A i \in Outputs(tx) :
        /\ Unaddressed(told[i]) <=> Unclassified(untold[i], FALSE, attributed, << >>)
        /\ ~Unaddressed(told[i]) =>
             told[i].account = IF Considered(untold[i]) THEN OwnerOf(i) ELSE {}
  <2> TAKE i \in Outputs(tx)
  <2>1. told[i] = ScannedAction(tx[i], attributed) /\ untold[i] = ScannedAction(tx[i], {})
    BY Zenon
  <2> HIDE DEF told, untold
  <2>. QED
    BY <1>1, <2>1, ReadingsAgree, Zenon
<1>3. /\ strict.refused = \E i \in Outputs(tx) : Unaddressed(told[i])
      /\ strict.deposits = {d \in [output : Outputs(tx), account : AccountIds] :
                              d.account \in told[d.output].account}
  <2> DEFINE refused == ~FALSE /\ \E i \in Outputs(tx) : Unaddressed(told[i])
             deposits == {d \in [output : Outputs(tx), account : AccountIds] :
                            d.account \in told[d.output].account}
             forced == {i \in Outputs(tx) : told[i].forced}
             app_payments == {i \in Outputs(tx) : told[i].payment # {}}
  <2>1. strict = [refused |-> refused, actions |-> told, deposits |-> deposits,
                  forced |-> forced, app_payments |-> app_payments]
    BY Zenon DEF Scan
  <2>2. refused = \E i \in Outputs(tx) : Unaddressed(told[i])
    BY Zenon
  <2> HIDE DEF strict, refused, told, deposits, forced, app_payments
  <2>3. strict.refused = refused /\ strict.deposits = deposits
    BY <2>1
  <2>. QED
    BY <2>2, <2>3 DEF deposits
<1>4. scanned.actions = untold /\ DOMAIN untold = Outputs(tx)
  <2> DEFINE refused == ~TRUE /\ \E i \in Outputs(tx) : Unaddressed(untold[i])
             deposits == {d \in [output : Outputs(tx), account : AccountIds] :
                            d.account \in untold[d.output].account}
             forced == {i \in Outputs(tx) : untold[i].forced}
             app_payments == {i \in Outputs(tx) : untold[i].payment # {}}
  <2>1. scanned = [refused |-> refused, actions |-> untold, deposits |-> deposits,
                   forced |-> forced, app_payments |-> app_payments]
    BY Zenon DEF Scan
  <2>2. DOMAIN untold = Outputs(tx)
    BY Zenon
  <2> HIDE DEF scanned, refused, untold, deposits, forced, app_payments
  <2>. QED
    BY <2>1, <2>2
<1> HIDE DEF strict, scanned, told, untold
<1>5. /\ lenient.refused = \E i \in Outputs(tx) :
                             Unclassified(untold[i], FALSE, attributed, << >>)
      /\ lenient.deposits = {d \in [output : Outputs(tx), account : Accounts] :
                               Considered(untold[d.output]) /\ d.account \in OwnerOf(d.output)}
  <2> DEFINE refused == \E i \in Outputs(tx) : Unclassified(untold[i], FALSE, attributed, << >>)
             deposits == {d \in [output : Outputs(tx), account : Accounts] :
                            Considered(untold[d.output]) /\ d.account \in OwnerOf(d.output)}
  <2>1. lenient = [refused |-> refused, deposits |-> deposits]
    BY <1>4, Zenon DEF Classify
  <2> HIDE DEF lenient, refused, deposits
  <2>2. lenient.refused = refused /\ lenient.deposits = deposits
    BY <2>1
  <2>. QED
    BY <2>2 DEF refused, deposits
<1> HIDE DEF lenient
<1>6. strict.refused = lenient.refused
  BY <1>2, <1>3, <1>5, Zenon
<1>7. ASSUME ~strict.refused
      PROVE  {d \in strict.deposits : d.account # Nobody} = lenient.deposits
  <2>1. \A i \in Outputs(tx) :
          told[i].account = IF Considered(untold[i]) THEN OwnerOf(i) ELSE {}
    BY <1>2, <1>3, <1>7, Zenon
  <2>2. Accounts = AccountIds \ {Nobody}
    BY AccountsAssumption DEF AccountIds
  <2>3. ASSUME NEW d, d \in strict.deposits, d.account # Nobody
        PROVE  d \in lenient.deposits
    <3>1. d \in [output : Outputs(tx), account : AccountIds] /\ d.account \in told[d.output].account
      BY <1>3, <2>3, Zenon
    <3>2. d \in [output : Outputs(tx), account : Accounts] /\ d.output \in Outputs(tx)
      BY <2>2, <2>3, <3>1
    <3>3. Considered(untold[d.output]) /\ d.account \in OwnerOf(d.output)
      BY <2>1, <3>1, <3>2, Zenon
    <3>. QED
      BY <1>5, <3>2, <3>3, Zenon
  <2>4. ASSUME NEW d, d \in lenient.deposits
        PROVE  d \in strict.deposits /\ d.account # Nobody
    <3>1. d \in [output : Outputs(tx), account : Accounts]
          /\ Considered(untold[d.output]) /\ d.account \in OwnerOf(d.output)
      BY <1>5, <2>4, Zenon
    <3>2. d \in [output : Outputs(tx), account : AccountIds] /\ d.output \in Outputs(tx)
          /\ d.account # Nobody
      BY <2>2, <3>1
    <3>3. d.account \in told[d.output].account
      BY <2>1, <3>1, <3>2, Zenon
    <3>. QED
      BY <1>3, <3>2, <3>3, Zenon
  <2>. QED
    BY <2>3, <2>4
<1>. QED
  BY <1>6, <1>7, Zenon DEF ScansAgree, strict, lenient, scanned

-----------------------------------------------------------------------------
(***************************************************************************)
(* The readers.                                                            *)
(***************************************************************************)

Sightings == [height : Nat, tx : Nat, output : Nat]

\* x is before y in the order of the chain.
Comes(x, y) == \/ x.height < y.height
               \/ x.height = y.height /\ x.tx < y.tx
               \/ x.height = y.height /\ x.tx = y.tx /\ x.output < y.output

InOrder == {p \in Sightings \X Sightings : Comes(p[1], p[2])}

Kinds == {"forced", "app_payments", "anchors"}

\* What a reader of a kind looks for.
Shows(kind, o) ==
  /\ o.ours
  /\ CASE kind = "forced" -> ForcedSigner(o) # {}
       [] kind = "app_payments" -> DecodedAppPayment(o.memo) # {}
       [] kind = "anchors" -> Evidence(o)

(***************************************************************************)
(* What is found in a scan is what shows in the transaction.               *)
(***************************************************************************)
LEMMA FoundAre ==
  ASSUME NEW kind \in Kinds, NEW tx
  PROVE  Found(kind, Scan(tx, {}, TRUE)) = {i \in DOMAIN tx : Shows(kind, tx[i])}
<1> DEFINE actions == [i \in DOMAIN tx |-> ScannedAction(tx[i], {})]
           scanned == Scan(tx, {}, TRUE)
<1>1. \A i \in DOMAIN tx :
        /\ actions[i].forced <=> tx[i].ours /\ ForcedSigner(tx[i]) # {}
        /\ actions[i].anchor <=> tx[i].ours /\ Evidence(tx[i])
        /\ actions[i].payment
             = IF tx[i].ours /\ HasAppPaymentTag(tx[i].memo) THEN DecodedAppPayment(tx[i].memo) ELSE {}
  BY DEF ScannedAction
<1>2. \A i \in DOMAIN tx : DecodedAppPayment(tx[i].memo) # {} => HasAppPaymentTag(tx[i].memo)
  BY DEF DecodedAppPayment
<1>3. /\ scanned.actions = actions
      /\ scanned.forced = {i \in DOMAIN tx : actions[i].forced}
      /\ scanned.app_payments = {i \in DOMAIN tx : actions[i].payment # {}}
  BY DEF Scan, Outputs
<1>4. DOMAIN actions = DOMAIN tx
  OBVIOUS
<1> HIDE DEF actions, scanned
<1>5. CASE kind = "forced"
  <2>1. Found(kind, scanned) = {i \in DOMAIN tx : actions[i].forced}
    BY <1>3, <1>5 DEF Found
  <2>. QED
    BY <1>1, <1>5, <2>1 DEF Shows, scanned
<1>6. CASE kind = "app_payments"
  <2>1. Found(kind, scanned) = {i \in DOMAIN tx : actions[i].payment # {}}
    BY <1>3, <1>6 DEF Found
  <2>2. \A i \in DOMAIN tx :
          actions[i].payment # {} <=> tx[i].ours /\ DecodedAppPayment(tx[i].memo) # {}
    BY <1>1, <1>2
  <2>. QED
    BY <1>6, <2>1, <2>2 DEF Shows, scanned
<1>7. CASE kind = "anchors"
  <2>1. Found(kind, scanned) = {i \in DOMAIN tx : actions[i].anchor}
    BY <1>3, <1>4, <1>7 DEF Found
  <2>. QED
    BY <1>1, <1>7, <2>1 DEF Shows, scanned
<1>. QED
  BY <1>5, <1>6, <1>7 DEF Kinds

\* The sightings of what is found of a transaction.
SightingsOf(height, t, tx, found) ==
  LET outputs == [i \in Outputs(tx) |-> [height |-> height, tx |-> t, output |-> i]]
  IN Select(outputs, {s \in ToSet(outputs) : s.output \in found})

(***************************************************************************)
(* They are in order.                                                      *)
(***************************************************************************)
LEMMA SightingsAre ==
  ASSUME NEW O, NEW height \in Nat, NEW t \in Nat, NEW tx \in Seq(O), NEW found
  PROVE  /\ SightingsOf(height, t, tx, found) \in Seq(Sightings)
         /\ ToSet(SightingsOf(height, t, tx, found))
              = {s \in Sightings : /\ s.height = height /\ s.tx = t
                                   /\ s.output \in found /\ s.output \in DOMAIN tx}
         /\ Ordered(SightingsOf(height, t, tx, found), InOrder)
<1> DEFINE n == Len(tx)
           outputs == [i \in Outputs(tx) |-> [height |-> height, tx |-> t, output |-> i]]
           T == {s \in ToSet(outputs) : s.output \in found}
           Sighting(i) == [height |-> height, tx |-> t, output |-> i]
<1>1. n \in Nat /\ DOMAIN tx = 1 .. n
  BY LenProperties
<1>2. outputs \in Seq(Sightings) /\ Len(outputs) = n
  <2>1. outputs \in [1 .. n -> Sightings]
    BY <1>1 DEF Outputs, Sightings
  <2> HIDE DEF outputs, n
  <2>. QED
    BY <1>1, <2>1, FunctionIsSequence
<1>3. \A i \in 1 .. n : outputs[i] = Sighting(i) /\ Sighting(i) \in Sightings
  BY <1>1 DEF Outputs, Sightings
<1>4. DOMAIN outputs = 1 .. n
  BY <1>1 DEF Outputs
<1> HIDE DEF outputs
<1>5. ToSet(outputs) = {Sighting(i) : i \in 1 .. n}
  <2> HIDE DEF n, Sighting
  <2>. QED
    BY <1>3, <1>4 DEF ToSet
<1>6. Select(outputs, T) \in Seq(Sightings) /\ ToSet(Select(outputs, T)) = ToSet(outputs) \cap T
  <2> HIDE DEF T
  <2>. QED
    BY <1>2, SelectType, SelectEntries
<1>7. ToSet(outputs) \cap T
        = {s \in Sightings : s.height = height /\ s.tx = t /\ s.output \in found /\ s.output \in DOMAIN tx}
  <2>1. ASSUME NEW s \in Sightings, s.height = height, s.tx = t, s.output \in DOMAIN tx
        PROVE  s \in ToSet(outputs)
    <3>1. s = Sighting(s.output)
      BY <2>1 DEF Sightings
    <3>. QED
      BY <1>1, <1>5, <2>1, <3>1
  <2>2. ASSUME NEW s \in ToSet(outputs)
        PROVE  s \in Sightings /\ s.height = height /\ s.tx = t /\ s.output \in DOMAIN tx
    BY <1>1, <1>3, <1>5
  <2> HIDE DEF n, Sighting
  <2>. QED
    BY <2>1, <2>2
<1>8. Ordered(outputs, InOrder)
  <2> SUFFICES ASSUME NEW a \in 1 .. Len(outputs), NEW b \in 1 .. Len(outputs), a < b
               PROVE  <<outputs[a], outputs[b]>> \in InOrder
    BY DEF Ordered
  <2>1. outputs[a] = Sighting(a) /\ outputs[b] = Sighting(b) /\ Sighting(a) \in Sightings /\ Sighting(b) \in Sightings
    BY <1>2, <1>3
  <2>2. Comes(Sighting(a), Sighting(b))
    BY DEF Comes
  <2> HIDE DEF Sighting
  <2>. QED
    BY <2>1, <2>2 DEF InOrder
<1>9. Ordered(Select(outputs, T), InOrder)
  <2> HIDE DEF T
  <2>. QED
    BY <1>2, <1>8, OrderedSelect
<1> HIDE DEF T
<1>10. SightingsOf(height, t, tx, found) = Select(outputs, T)
  BY DEF SightingsOf, outputs, T
<1>. QED
  BY <1>6, <1>7, <1>9, <1>10

(***************************************************************************)
(* The sightings of a block are what shows in it, in order.                *)
(***************************************************************************)
LEMMA BlocksSightings ==
  ASSUME NEW O, NEW kind \in Kinds, NEW height \in Nat, NEW block \in Seq(Seq(O))
  PROVE  /\ InBlock(kind, height, block) \in Seq(Sightings)
         /\ ToSet(InBlock(kind, height, block))
              = {s \in Sightings : /\ s.height = height /\ s.tx \in DOMAIN block
                                   /\ s.output \in DOMAIN block[s.tx]
                                   /\ Shows(kind, block[s.tx][s.output])}
         /\ Ordered(InBlock(kind, height, block), InOrder)
<1> DEFINE n == Len(block)
           found(t) == Found(kind, Scan(block[t], {}, TRUE))
           parts == [t \in DOMAIN block |-> SightingsOf(height, t, block[t], found(t))]
           Shown(t) == {s \in Sightings : /\ s.height = height /\ s.tx = t
                                        /\ s.output \in found(t) /\ s.output \in DOMAIN block[t]}
<1>1. n \in Nat /\ DOMAIN block = 1 .. n /\ \A t \in 1 .. n : block[t] \in Seq(O) /\ t \in Nat
  BY LenProperties, ElementOfSeq
<1>2. \A t \in 1 .. n : parts[t] = SightingsOf(height, t, block[t], found(t))
  BY <1>1
<1> HIDE DEF found
<1>3. ASSUME NEW t \in 1 .. n
      PROVE  /\ parts[t] \in Seq(Sightings) /\ ToSet(parts[t]) = Shown(t)
             /\ Ordered(parts[t], InOrder)
  <2>1. block[t] \in Seq(O) /\ t \in Nat /\ parts[t] = SightingsOf(height, t, block[t], found(t))
    BY <1>1, <1>2
  <2> HIDE DEF parts, n
  <2>2. /\ SightingsOf(height, t, block[t], found(t)) \in Seq(Sightings)
        /\ ToSet(SightingsOf(height, t, block[t], found(t))) = Shown(t)
        /\ Ordered(SightingsOf(height, t, block[t], found(t)), InOrder)
    BY <2>1, SightingsAre
  <2>. QED
    BY <2>1, <2>2
<1>4. parts \in Seq(Seq(Sightings)) /\ Len(parts) = n /\ DOMAIN parts = 1 .. n
  <2>1. parts \in [1 .. n -> Seq(Sightings)]
    BY <1>1, <1>3
  <2> HIDE DEF parts, n
  <2>. QED
    BY <1>1, <2>1, FunctionIsSequence
<1> HIDE DEF parts
<1>5. InBlock(kind, height, block) = FlattenSeq(parts)
  BY DEF InBlock, parts, SightingsOf, found
<1>6. Staggered(parts, InOrder)
  <2> SUFFICES ASSUME NEW i \in 1 .. n, NEW j \in 1 .. n, i < j,
                      NEW x \in ToSet(parts[i]), NEW y \in ToSet(parts[j])
               PROVE  <<x, y>> \in InOrder
    BY <1>4 DEF Staggered
  <2>1. x \in Shown(i) /\ y \in Shown(j)
    BY <1>3
  <2>2. x \in Sightings /\ y \in Sightings /\ x.height = y.height /\ x.tx < y.tx
    BY <2>1
  <2>. QED
    BY <2>2 DEF InOrder, Comes
<1>7. FlattenSeq(parts) \in Seq(Sightings) /\ Ordered(FlattenSeq(parts), InOrder)
  BY <1>3, <1>4, <1>6, FlattenType, OrderedFlatten
<1>8. ToSet(FlattenSeq(parts)) = UNION {Shown(t) : t \in 1 .. n}
  <2>1. ToSet(FlattenSeq(parts)) = UNION {ToSet(p) : p \in ToSet(parts)}
    BY <1>4, FlattenEntries
  <2>2. ToSet(parts) = {parts[t] : t \in 1 .. n}
    BY <1>4 DEF ToSet
  <2> HIDE DEF Shown, n
  <2>3. \A s : s \in ToSet(FlattenSeq(parts)) <=> \E t \in 1 .. n : s \in ToSet(parts[t])
    BY <2>1, <2>2
  <2>. QED
    BY <1>3, <2>3
<1>9. \A t \in 1 .. n : found(t) = {i \in DOMAIN block[t] : Shows(kind, block[t][i])}
  BY FoundAre DEF found
<1>10. UNION {Shown(t) : t \in 1 .. n}
         = {s \in Sightings : /\ s.height = height /\ s.tx \in DOMAIN block
                              /\ s.output \in DOMAIN block[s.tx]
                              /\ Shows(kind, block[s.tx][s.output])}
  <2>1. \A s \in Sightings : \A t \in 1 .. n :
          s \in Shown(t) <=> /\ s.height = height /\ s.tx = t
                             /\ s.output \in DOMAIN block[t] /\ Shows(kind, block[t][s.output])
    BY <1>9
  <2>2. \A t \in 1 .. n : Shown(t) \subseteq Sightings
    OBVIOUS
  <2> HIDE DEF Shown
  <2>. QED
    BY <1>1, <2>1, <2>2
<1>. QED
  BY <1>5, <1>7, <1>8, <1>10
-----------------------------------------------------------------------------
\* What the blocks from first through last have, one after the other.
Through(blocks, first, last) ==
  FlattenSeq([k \in 1 .. last - first + 1 |-> blocks[first + k - 1]])

\* Each of n blocks has a log.
AreLogs(blocks, n, S) == n \in Nat /\ blocks \in [1 .. n -> Seq(S)]

(***************************************************************************)
(* Some blocks and those that follow are all of them.                      *)
(***************************************************************************)
LEMMA ThroughJoins ==
  ASSUME NEW S, NEW n, NEW blocks, AreLogs(blocks, n, S)
  PROVE  \A first, mid, last \in Int :
           1 <= first /\ first - 1 <= mid /\ mid <= last /\ last <= n =>
             Through(blocks, first, last)
               = Through(blocks, first, mid) \o Through(blocks, mid + 1, last)
<1> SUFFICES ASSUME NEW first \in Int, NEW mid \in Int, NEW last \in Int,
                    1 <= first, first - 1 <= mid, mid <= last, last <= n
             PROVE  Through(blocks, first, last)
                      = Through(blocks, first, mid) \o Through(blocks, mid + 1, last)
  OBVIOUS
<1>0. n \in Nat /\ blocks \in [1 .. n -> Seq(S)]
  BY DEF AreLogs
<1> DEFINE a == mid - first + 1
           b == last - mid
           f == [k \in 1 .. a + b |-> blocks[first + k - 1]]
           g == [k \in 1 .. a |-> f[k]]
           h == [k \in 1 .. b |-> f[a + k]]
<1>1. a \in Nat /\ b \in Nat /\ a + b = last - first + 1 /\ b = last - (mid + 1) + 1
  OBVIOUS
<1>2. f \in [1 .. a + b -> Seq(S)]
  <2>1. \A k \in 1 .. a + b : first + k - 1 \in 1 .. n
    BY <1>0
  <2>. QED
    BY <1>0, <2>1
<1>3. FlattenSeq(f) = FlattenSeq(g) \o FlattenSeq(h)
  <2>1. a \in Nat /\ b \in Nat
    BY <1>1
  <2> HIDE DEF a, b, f
  <2>2. \A x \in [1 .. a + b -> Seq(S)] :
          FlattenSeq(x) = FlattenSeq([i \in 1 .. a |-> x[i]]) \o FlattenSeq([i \in 1 .. b |-> x[a + i]])
    BY <2>1, FlattenSplit
  <2>. QED
    BY <1>2, <2>2, Zenon
<1>4. g = [k \in 1 .. mid - first + 1 |-> blocks[first + k - 1]]
  <2>1. \A k \in 1 .. a : k \in 1 .. a + b
    BY <1>1
  <2>. QED
    BY <2>1
<1>5. h = [k \in 1 .. last - (mid + 1) + 1 |-> blocks[(mid + 1) + k - 1]]
  <2>1. \A k \in 1 .. b : a + k \in 1 .. a + b /\ first + (a + k) - 1 = (mid + 1) + k - 1
    BY <1>1
  <2>2. \A k \in 1 .. b : f[a + k] = blocks[(mid + 1) + k - 1]
    BY <2>1
  <2> HIDE DEF f, a, b
  <2>3. h = [k \in 1 .. b |-> blocks[(mid + 1) + k - 1]]
    BY <2>2
  <2>. QED
    BY <1>1, <2>3
<1>6. f = [k \in 1 .. last - first + 1 |-> blocks[first + k - 1]]
  BY <1>1
<1> HIDE DEF f, g, h
<1>. QED
  BY <1>3, <1>4, <1>5, <1>6 DEF Through

(***************************************************************************)
(* There is nothing in no blocks.                                          *)
(***************************************************************************)
LEMMA ThroughNone ==
  ASSUME NEW blocks, NEW first \in Int, NEW last \in Int, last < first
  PROVE  Through(blocks, first, last) = << >>
<1>1. 1 .. last - first + 1 = {}
  OBVIOUS
<1>2. [k \in 1 .. last - first + 1 |-> blocks[first + k - 1]] = << >>
  BY <1>1
<1>. QED
  BY <1>2, FlattenEmpty DEF Through

\* The sightings of each block of a chain.
SightingsIn(kind, chain) == [h \in DOMAIN chain |-> InBlock(kind, h, chain[h])]

(***************************************************************************)
(* The sightings of some blocks are what shows in them, in order.          *)
(***************************************************************************)
LEMMA ThroughSightings ==
  ASSUME NEW O, NEW kind \in Kinds, NEW n \in Nat, NEW chain \in [1 .. n -> Seq(Seq(O))],
         NEW first \in Int, NEW last \in Int, 1 <= first, last <= n
  PROVE  /\ Through(SightingsIn(kind, chain), first, last) \in Seq(Sightings)
         /\ ToSet(Through(SightingsIn(kind, chain), first, last))
              = {s \in Sightings : /\ s.height \in first .. last /\ s.tx \in DOMAIN chain[s.height]
                                   /\ s.output \in DOMAIN chain[s.height][s.tx]
                                   /\ Shows(kind, chain[s.height][s.tx][s.output])}
         /\ Ordered(Through(SightingsIn(kind, chain), first, last), InOrder)
<1> DEFINE m == IF first <= last THEN last - first + 1 ELSE 0
           blocks == SightingsIn(kind, chain)
           parts == [k \in 1 .. last - first + 1 |-> blocks[first + k - 1]]
           ShownIn(h) == {s \in Sightings : /\ s.height = h /\ s.tx \in DOMAIN chain[h]
                                            /\ s.output \in DOMAIN chain[h][s.tx]
                                            /\ Shows(kind, chain[h][s.tx][s.output])}
<1>1. /\ m \in Nat /\ 1 .. m = 1 .. last - first + 1
      /\ \A k \in 1 .. m : first + k - 1 \in 1 .. n /\ first + k - 1 \in first .. last
      /\ \A h \in first .. last : h - first + 1 \in 1 .. m /\ first + (h - first + 1) - 1 = h
  OBVIOUS
<1> HIDE DEF m
<1>2. ASSUME NEW h \in 1 .. n
      PROVE  /\ blocks[h] \in Seq(Sightings) /\ ToSet(blocks[h]) = ShownIn(h)
             /\ Ordered(blocks[h], InOrder)
  <2>1. chain[h] \in Seq(Seq(O)) /\ h \in Nat /\ blocks[h] = InBlock(kind, h, chain[h])
    BY DEF SightingsIn
  <2>. QED
    BY <2>1, BlocksSightings
<1> HIDE DEF blocks
<1>3. \A k \in 1 .. m : parts[k] = blocks[first + k - 1]
  BY <1>1
<1>4. parts \in Seq(Seq(Sightings)) /\ Len(parts) = m /\ DOMAIN parts = 1 .. m
  <2>1. parts \in [1 .. m -> Seq(Sightings)]
    BY <1>1, <1>2
  <2> HIDE DEF parts
  <2>. QED
    BY <1>1, <2>1, FunctionIsSequence
<1> HIDE DEF parts
<1>5. \A k \in 1 .. m : Ordered(parts[k], InOrder) /\ ToSet(parts[k]) = ShownIn(first + k - 1)
  BY <1>1, <1>2, <1>3
<1>6. Staggered(parts, InOrder)
  <2> SUFFICES ASSUME NEW i \in 1 .. m, NEW j \in 1 .. m, i < j,
                      NEW x \in ToSet(parts[i]), NEW y \in ToSet(parts[j])
               PROVE  <<x, y>> \in InOrder
    BY <1>4 DEF Staggered
  <2>1. x \in ShownIn(first + i - 1) /\ y \in ShownIn(first + j - 1)
    BY <1>5
  <2>2. x \in Sightings /\ y \in Sightings /\ x.height < y.height
    BY <2>1, <1>1
  <2>. QED
    BY <2>2 DEF InOrder, Comes
<1>7. FlattenSeq(parts) \in Seq(Sightings) /\ Ordered(FlattenSeq(parts), InOrder)
  BY <1>4, <1>5, <1>6, FlattenType, OrderedFlatten
<1>8. ToSet(FlattenSeq(parts)) = {s \in Sightings : s.height \in first .. last /\ s \in ShownIn(s.height)}
  <2>1. ToSet(FlattenSeq(parts)) = UNION {ToSet(p) : p \in ToSet(parts)}
    BY <1>4, FlattenEntries
  <2>2. ToSet(parts) = {parts[t] : t \in 1 .. m}
    BY <1>4 DEF ToSet
  <2>3. \A h : \A s \in ShownIn(h) : s \in Sightings /\ s.height = h
    OBVIOUS
  <2> HIDE DEF ShownIn
  <2>4. \A s : s \in ToSet(FlattenSeq(parts)) <=> \E k \in 1 .. m : s \in ShownIn(first + k - 1)
    BY <1>5, <2>1, <2>2
  <2>5. ASSUME NEW s \in ToSet(FlattenSeq(parts))
        PROVE  s \in Sightings /\ s.height \in first .. last /\ s \in ShownIn(s.height)
    BY <1>1, <2>3, <2>4
  <2>6. ASSUME NEW s \in Sightings, s.height \in first .. last, s \in ShownIn(s.height)
        PROVE  s \in ToSet(FlattenSeq(parts))
    <3>1. s.height - first + 1 \in 1 .. m /\ first + (s.height - first + 1) - 1 = s.height
      BY <1>1, <2>6
    <3>. QED
      BY <2>4, <2>6, <3>1
  <2>. QED
    BY <2>5, <2>6
<1>9. Through(blocks, first, last) = FlattenSeq(parts)
  BY DEF Through, parts
<1>. QED
  BY <1>7, <1>8, <1>9 DEF blocks
-----------------------------------------------------------------------------
\* One who reads the sightings of chain on from a height to another, through some height.
Reads(kind, chain, from_height, max_blocks, to, n) ==
  /\ kind \in Kinds
  /\ n \in Nat /\ \E O : chain \in [1 .. n -> Seq(Seq(O))]
  /\ from_height \in Nat /\ max_blocks \in Nat
  /\ to \in Nat /\ to <= n

(***************************************************************************)
(* A page gets on, and has the sightings up to where it ends.              *)
(***************************************************************************)
LEMMA PageIs ==
  ASSUME NEW kind, NEW chain, NEW from_height, NEW max_blocks, NEW to, NEW n,
         Reads(kind, chain, from_height, max_blocks, to, n), NEW from \in 1 .. to
  PROVE  LET page == Page(kind, chain, from_height, max_blocks, from, to)
         IN /\ page.end \in from .. to
            /\ page.found = Through(SightingsIn(kind, chain), Most(from, from_height), page.end)
            /\ page.found \in Seq(Sightings)
<1> DEFINE start == Most(from, from_height)
           ahead == Most(max_blocks, 1)
           end == Least(to, start + ahead - 1)
           page == Page(kind, chain, from_height, max_blocks, from, to)
           blocks == SightingsIn(kind, chain)
           read == FlattenSeq([k \in 1 .. end - start + 1 |->
                                 InBlock(kind, start + k - 1, chain[start + k - 1])])
<1>0. /\ kind \in Kinds
      /\ n \in Nat /\ \E O : chain \in [1 .. n -> Seq(Seq(O))]
      /\ from_height \in Nat /\ max_blocks \in Nat
      /\ to \in Nat /\ to <= n
  BY DEF Reads
<1>1. PICK O : chain \in [1 .. n -> Seq(Seq(O))]
  BY <1>0
<1>2. start \in Nat /\ start >= from /\ start >= 1 /\ ahead \in Nat /\ ahead >= 1
  BY <1>0 DEF Most
<1>3. page = IF end < start THEN [end |-> Least(to, end), found |-> << >>]
             ELSE [end |-> end, found |-> read]
  BY DEF Page
<1> HIDE DEF start, ahead, read
<1>4. end \in Int /\ end <= to /\ (end < start => end = to) /\ (end >= start => end \in from .. to)
  BY <1>0, <1>2 DEF Least
<1> HIDE DEF end
<1>5. CASE end < start
  <2>1. Least(to, end) = to /\ end = to
    BY <1>0, <1>4, <1>5 DEF Least
  <2>2. page = [end |-> to, found |-> << >>]
    BY <1>3, <1>5, <2>1
  <2>3. Through(blocks, start, to) = << >>
    BY <1>0, <1>2, <1>5, <2>1, ThroughNone
  <2> HIDE DEF page, blocks
  <2>4. to \in from .. to /\ << >> \in Seq(Sightings)
    BY <1>0
  <2>. QED
    BY <2>2, <2>3, <2>4 DEF page, blocks, start
<1>6. CASE ~ (end < start)
  <2>1. page = [end |-> end, found |-> read]
    BY <1>3, <1>6
  <2>2. end >= start /\ end \in from .. to /\ end <= n
    <3>1. end >= start
      BY <1>2, <1>4, <1>6
    <3>. QED
      BY <1>0, <1>4, <3>1
  <2>3. \A k \in 1 .. end - start + 1 :
          blocks[start + k - 1] = InBlock(kind, start + k - 1, chain[start + k - 1])
    <3> SUFFICES ASSUME NEW k \in 1 .. end - start + 1
                 PROVE  blocks[start + k - 1] = InBlock(kind, start + k - 1, chain[start + k - 1])
      OBVIOUS
    <3>1. start + k - 1 \in 1 .. n
      BY <1>0, <1>2, <1>4, <2>2
    <3>2. DOMAIN chain = 1 .. n
      BY <1>1
    <3>. QED
      BY <3>1, <3>2 DEF SightingsIn
  <2>4. read = Through(blocks, start, end)
    <3> HIDE DEF blocks
    <3>. QED
      BY <2>3 DEF read, Through
  <2>5. read \in Seq(Sightings)
    <3> DEFINE through == Through(SightingsIn(kind, chain), start, end)
    <3>1. /\ through \in Seq(Sightings)
          /\ ToSet(through)
               = {s \in Sightings : /\ s.height \in start .. end /\ s.tx \in DOMAIN chain[s.height]
                                    /\ s.output \in DOMAIN chain[s.height][s.tx]
                                    /\ Shows(kind, chain[s.height][s.tx][s.output])}
          /\ Ordered(through, InOrder)
      <4>1. start \in Int /\ end \in Int /\ 1 <= start /\ end <= n
        BY <1>2, <1>4, <2>2
      <4>. QED
        BY <1>0, <1>1, <4>1, ThroughSightings
    <3>. QED
      BY <2>4, <3>1 DEF blocks
  <2> HIDE DEF page, blocks
  <2>6. page.end = end /\ page.found = read
    BY <2>1
  <2>. QED
    BY <2>2, <2>4, <2>5, <2>6 DEF page, blocks, start
<1>. QED
  BY <1>5, <1>6

(***************************************************************************)
(* What was read of some blocks and what is read next is of all of them.   *)
(***************************************************************************)
LEMMA ReadsJoin ==
  ASSUME NEW kind, NEW chain, NEW from_height, NEW max_blocks, NEW to, NEW n,
         Reads(kind, chain, from_height, max_blocks, to, n)
  PROVE  LET blocks == SightingsIn(kind, chain)
         IN \A a, b, c \in Int :
              1 <= a /\ a - 1 <= b /\ b <= c /\ c <= n =>
                Through(blocks, a, c) = Through(blocks, a, b) \o Through(blocks, b + 1, c)
<1> DEFINE blocks == SightingsIn(kind, chain)
<1>1. PICK O : chain \in [1 .. n -> Seq(Seq(O))]
  BY DEF Reads
<1>2. n \in Nat /\ kind \in Kinds
  BY DEF Reads
<1>3. blocks \in [1 .. n -> Seq(Sightings)]
  <2>1. DOMAIN chain = 1 .. n /\ \A h \in 1 .. n : chain[h] \in Seq(Seq(O)) /\ h \in Nat
    BY <1>1, <1>2
  <2>2. \A h \in 1 .. n : InBlock(kind, h, chain[h]) \in Seq(Sightings)
    BY <1>2, <2>1, BlocksSightings
  <2>. QED
    BY <2>1, <2>2 DEF SightingsIn
<1> HIDE DEF blocks
<1>4. AreLogs(blocks, n, Sightings)
  BY <1>2, <1>3 DEF AreLogs
<1>5. \A a, b, c \in Int :
        1 <= a /\ a - 1 <= b /\ b <= c /\ c <= n =>
          Through(blocks, a, c) = Through(blocks, a, b) \o Through(blocks, b + 1, c)
  BY <1>4, ThroughJoins
<1>. QED
  BY <1>5 DEF blocks

(***************************************************************************)
(* Page by page the reader gets to the end, and has all the sightings.     *)
(***************************************************************************)
LEMMA PagedIs ==
  ASSUME NEW kind, NEW chain, NEW from_height, NEW max_blocks, NEW to, NEW n,
         Reads(kind, chain, from_height, max_blocks, to, n), NEW from \in 1 .. to
  PROVE  LET paged == Paged(kind, chain, from_height, max_blocks, from, to)
         IN /\ paged.end = to
            /\ paged.found = Through(SightingsIn(kind, chain), Most(from, from_height), to)
<1> DEFINE blocks == SightingsIn(kind, chain)
           first == Most(from, from_height)
           page(e) == Page(kind, chain, from_height, max_blocks, e + 1, to)
           On(x) == IF x.end >= to THEN x
                    ELSE [end |-> page(x.end).end, found |-> x.found \o page(x.end).found]
           S == [end : from - 1 .. to, found : Seq(Sightings)]
           base == [end |-> from - 1, found |-> << >>]
           m == to + 1
           step == [i \in 1 .. m |-> [x \in S |-> On(x)]]
           read == CHOOSE f : f = [i \in 0 .. m |-> IF i = 0 THEN base ELSE On(f[i - 1])]
<1>0. /\ kind \in Kinds
      /\ n \in Nat /\ \E O : chain \in [1 .. n -> Seq(Seq(O))]
      /\ from_height \in Nat /\ max_blocks \in Nat
      /\ to \in Nat /\ to <= n
  BY DEF Reads
<1>1. PICK O : chain \in [1 .. n -> Seq(Seq(O))]
  BY <1>0
<1>2. Paged(kind, chain, from_height, max_blocks, from, to) = read[m]
  BY Zenon DEF Paged
<1>3. \A e \in from - 1 .. to - 1 :
        /\ page(e).end \in e + 1 .. to
        /\ page(e).found = Through(blocks, Most(e + 1, from_height), page(e).end)
        /\ page(e).found \in Seq(Sightings)
  <2> SUFFICES ASSUME NEW e \in from - 1 .. to - 1
               PROVE  /\ page(e).end \in e + 1 .. to
                      /\ page(e).found = Through(blocks, Most(e + 1, from_height), page(e).end)
                      /\ page(e).found \in Seq(Sightings)
    OBVIOUS
  <2>1. e + 1 \in 1 .. to
    BY <1>0
  <2>. QED
    BY <2>1, PageIs
<1> HIDE DEF page, blocks
<1>4. \A x \in S : On(x) \in S
  <2> SUFFICES ASSUME NEW x \in S PROVE On(x) \in S
    OBVIOUS
  <2>1. CASE x.end >= to
    BY <2>1
  <2>2. CASE ~ (x.end >= to)
    <3>1. x.end \in from - 1 .. to - 1 /\ x.found \in Seq(Sightings)
      BY <1>0, <2>2
    <3>2. page(x.end).end \in from - 1 .. to
      BY <1>0, <1>3, <3>1
    <3>3. x.found \o page(x.end).found \in Seq(Sightings)
      BY <1>3, <3>1, ConcatProperties
    <3>4. On(x) = [end |-> page(x.end).end, found |-> x.found \o page(x.end).found]
      BY <2>2
    <3> HIDE DEF On
    <3>. QED
      BY <3>2, <3>3, <3>4
  <2>. QED
    BY <2>1, <2>2
<1>5. base \in S
  BY <1>0
<1> HIDE DEF On, S, base
<1>6. \A i \in 1 .. m : \A x \in S : step[i][x] = On(x)
  OBVIOUS
<1>7. m \in Nat
  BY <1>0
<1> HIDE DEF step, m
<1>8. PICK f : Iterates(f, m, base, step)
  BY <1>7, IterationExists
<1>9. \A i \in 0 .. m : f[i] \in S
  BY <1>4, <1>5, <1>6, <1>7, <1>8, IterationType
<1>10. f = [i \in 0 .. m |-> IF i = 0 THEN base ELSE On(f[i - 1])]
  <2>1. f = [i \in 0 .. m |-> IF i = 0 THEN base ELSE step[i][f[i - 1]]]
    BY <1>8, Zenon DEF Iterates
  <2>2. \A i \in 0 .. m : i # 0 => step[i][f[i - 1]] = On(f[i - 1])
    <3> SUFFICES ASSUME NEW i \in 0 .. m, i # 0 PROVE step[i][f[i - 1]] = On(f[i - 1])
      OBVIOUS
    <3>1. i \in 1 .. m /\ i - 1 \in 0 .. m
      BY <1>7
    <3>. QED
      BY <1>6, <1>9, <3>1
  <2>. QED
    BY <2>1, <2>2
<1>11. read = [i \in 0 .. m |-> IF i = 0 THEN base ELSE On(read[i - 1])]
  BY <1>10, Zenon
<1> HIDE DEF read
<1>12. read[0] = base /\ \A i \in 1 .. m : read[i] = On(read[i - 1])
  <2>1. \A i \in 0 .. m : read[i] = IF i = 0 THEN base ELSE On(read[i - 1])
    BY <1>11, Zenon
  <2>2. 0 \in 0 .. m /\ \A i \in 1 .. m : i \in 0 .. m /\ i # 0
    BY <1>7
  <2>. QED
    BY <2>1, <2>2, Zenon
<1> DEFINE Holds(i, x) == /\ x \in S
                          /\ x.end = to \/ x.end >= from - 1 + i
                          /\ x.found = Through(blocks, first, x.end)
           T == {i \in Nat : i \in 0 .. m => Holds(i, read[i])}
<1>13. first \in Nat /\ first >= 1 /\ first >= from /\ first >= from_height
  BY <1>0 DEF Most
<1>14. first = IF from >= from_height THEN from ELSE from_height
  BY DEF Most
<1> HIDE DEF first
<1>15. 0 \in T
  <2>1. base.end = from - 1 /\ base.found = << >>
    BY DEF base
  <2>2. Through(blocks, first, from - 1) = << >>
    BY <1>13, ThroughNone
  <2>. QED
    BY <1>5, <1>12, <2>1, <2>2
<1>16. ASSUME NEW x \in S, x.found = Through(blocks, first, x.end), ~ (x.end >= to)
       PROVE  On(x).end > x.end /\ On(x).found = Through(blocks, first, On(x).end)
  <2> DEFINE e == x.end
             p == page(e)
             next == Most(e + 1, from_height)
  <2>1. e \in from - 1 .. to - 1
    BY <1>0, <1>16 DEF S
  <2>2. p.end \in e + 1 .. to /\ p.found = Through(blocks, next, p.end) /\ p.found \in Seq(Sightings)
    BY <1>3, <2>1
  <2>3. On(x) = [end |-> p.end, found |-> x.found \o p.found]
    BY <1>16 DEF On
  <2>4. x.found \o p.found = Through(blocks, first, p.end)
    <3>1. CASE e + 1 >= from_height
      <4>1. next = e + 1
        BY <3>1 DEF Most
      <4>2. first - 1 <= e /\ e <= p.end /\ p.end <= n /\ p.end \in Int /\ e \in Int
        BY <1>0, <1>14, <2>1, <2>2, <3>1
      <4> DEFINE last == p.end
      <4> HIDE DEF e, p, next, last
      <4>3. Through(blocks, first, last)
              = Through(blocks, first, e) \o Through(blocks, e + 1, last)
        <5>1. /\ first \in Int /\ e \in Int /\ last \in Int
              /\ 1 <= first /\ first - 1 <= e /\ e <= last /\ last <= n
          BY <1>13, <4>2 DEF last
        <5>2. \A a, b, c \in Int :
                1 <= a /\ a - 1 <= b /\ b <= c /\ c <= n =>
                  Through(blocks, a, c) = Through(blocks, a, b) \o Through(blocks, b + 1, c)
          BY ReadsJoin DEF blocks
        <5>. QED
          BY <5>1, <5>2, Zenon
      <4>4. x.found = Through(blocks, first, e)
        BY <1>16 DEF e
      <4>. QED
        BY <2>2, <4>1, <4>3, <4>4 DEF last
    <3>2. CASE ~ (e + 1 >= from_height)
      <4>1. next = from_height /\ first = from_height /\ e < first /\ e \in Int
        BY <1>0, <1>14, <2>1, <3>2 DEF Most
      <4> HIDE DEF e, p, next
      <4>2. Through(blocks, first, e) = << >>
        BY <1>13, <4>1, ThroughNone
      <4>3. x.found = << >>
        BY <1>16, <4>2 DEF e
      <4>4. << >> \o p.found = p.found
        BY <2>2, ConcatEmptySeq
      <4>. QED
        BY <2>2, <4>1, <4>3, <4>4
    <3>. QED
      BY <3>1, <3>2
  <2> HIDE DEF p
  <2>5. On(x).end = p.end /\ On(x).found = x.found \o p.found
    <3> DEFINE end == p.end
               more == x.found \o p.found
    <3>1. On(x) = [end |-> end, found |-> more]
      BY <2>3
    <3> HIDE DEF end, more, On
    <3>2. On(x).end = end /\ On(x).found = more
      BY <3>1
    <3>. QED
      BY <3>2 DEF end, more
  <2>6. p.end > x.end
    BY <2>1, <2>2
  <2>. QED
    BY <2>4, <2>5, <2>6
<1>17. ASSUME NEW i \in Nat, i \in T PROVE i + 1 \in T
  <2> SUFFICES ASSUME i + 1 \in 0 .. m PROVE Holds(i + 1, read[i + 1])
    OBVIOUS
  <2> DEFINE x == read[i]
             y == read[i + 1]
  <2>1. i \in 0 .. m /\ i + 1 \in 1 .. m /\ (i + 1) - 1 = i
    BY <1>7
  <2>2. Holds(i, x)
    BY <1>17, <2>1
  <2>3. y = On(x)
    BY <1>12, <2>1
  <2> HIDE DEF x, y
  <2>4. y \in S /\ x.end \in Int /\ y.end \in Int /\ x.end <= to /\ y.end <= to
    <3>1. x \in S /\ y \in S
      BY <1>4, <2>2, <2>3
    <3>. QED
      BY <1>0, <3>1 DEF S
  <2>5. CASE x.end >= to
    <3>1. On(x) = x
      BY <2>5 DEF On
    <3>2. y = x /\ x.end = to
      BY <1>0, <2>3, <2>4, <2>5, <3>1
    <3>. QED
      BY <2>2, <3>2 DEF y
  <2>6. CASE ~ (x.end >= to)
    <3>1. y.end > x.end /\ y.found = Through(blocks, first, y.end)
      BY <1>16, <2>2, <2>3, <2>6
    <3>2. y.end >= from - 1 + (i + 1)
      BY <2>2, <2>4, <2>6, <3>1
    <3>. QED
      BY <2>4, <3>1, <3>2 DEF y
  <2>. QED
    BY <2>5, <2>6
<1> HIDE DEF T
<1>18. m \in T
  BY <1>7, <1>15, <1>17, NaturalInduction
<1>19. Holds(m, read[m])
  BY <1>7, <1>18 DEF T
<1>20. read[m].end = to
  <2>1. read[m].end \in from - 1 .. to /\ (read[m].end = to \/ read[m].end >= from - 1 + m)
    BY <1>19 DEF S
  <2>. QED
    BY <1>0, <2>1 DEF m
<1>. QED
  BY <1>2, <1>19, <1>20 DEF blocks, first

(***************************************************************************)
(* Page by page a reader sees every sighting of the heights asked for      *)
(* once, in the order of the chain (shielded.rs, forced, app_payments and  *)
(* anchors), in chains of any length and with pages of any size.           *)
(***************************************************************************)
THEOREM ReadersReadOnce ==
  ASSUME NEW kind, NEW chain, NEW from_height, NEW max_blocks, NEW to, NEW n,
         Reads(kind, chain, from_height, max_blocks, to, n), NEW from \in Nat \ {0}
  PROVE  PagesReadOnce(kind, chain, from_height, max_blocks, from, to)
<1> DEFINE paged == Paged(kind, chain, from_height, max_blocks, from, to)
           first == Most(from, from_height)
           found == paged.found
<1>0. /\ kind \in Kinds
      /\ n \in Nat /\ \E O : chain \in [1 .. n -> Seq(Seq(O))]
      /\ from_height \in Nat /\ max_blocks \in Nat
      /\ to \in Nat /\ to <= n
  BY DEF Reads
<1> SUFFICES ASSUME from <= to
             PROVE  /\ paged.end = to
                    /\ \A h \in first .. to : \A t \in DOMAIN chain[h] :
                         \A i \in DOMAIN chain[h][t] :
                            Shows(kind, chain[h][t][i]) =>
                              [height |-> h, tx |-> t, output |-> i] \in ToSet(found)
                    /\ \A x \in ToSet(found) : Shows(kind, chain[x.height][x.tx][x.output])
                    /\ \A a, b \in DOMAIN found : a < b => Comes(found[a], found[b])
  BY DEF PagesReadOnce, Shows, Comes
<1>1. PICK O : chain \in [1 .. n -> Seq(Seq(O))]
  BY <1>0
<1>2. from \in 1 .. to
  BY <1>0
<1>3. paged.end = to /\ found = Through(SightingsIn(kind, chain), first, to)
  BY <1>2, PagedIs
<1>4. first \in Int /\ first >= 1
  BY <1>0 DEF Most
<1> HIDE DEF paged, first
<1>5. /\ found \in Seq(Sightings)
      /\ ToSet(found)
           = {s \in Sightings : /\ s.height \in first .. to /\ s.tx \in DOMAIN chain[s.height]
                                /\ s.output \in DOMAIN chain[s.height][s.tx]
                                /\ Shows(kind, chain[s.height][s.tx][s.output])}
      /\ Ordered(found, InOrder)
  <2> DEFINE through == Through(SightingsIn(kind, chain), first, to)
  <2>1. /\ through \in Seq(Sightings)
        /\ ToSet(through)
             = {s \in Sightings : /\ s.height \in first .. to /\ s.tx \in DOMAIN chain[s.height]
                                  /\ s.output \in DOMAIN chain[s.height][s.tx]
                                  /\ Shows(kind, chain[s.height][s.tx][s.output])}
        /\ Ordered(through, InOrder)
    <3>1. to \in Int
      BY <1>0
    <3>. QED
      BY <1>0, <1>1, <1>4, <3>1, ThroughSightings
  <2>. QED
    BY <1>3, <2>1
<1> HIDE DEF found
<1>6. ASSUME NEW h \in first .. to, NEW t \in DOMAIN chain[h], NEW i \in DOMAIN chain[h][t],
             Shows(kind, chain[h][t][i])
      PROVE  [height |-> h, tx |-> t, output |-> i] \in ToSet(found)
  <2>1. chain[h] \in Seq(Seq(O)) /\ h \in Nat
    BY <1>0, <1>1, <1>4
  <2>2. t \in Nat /\ chain[h][t] \in Seq(O)
    BY <2>1
  <2>3. i \in Nat
    BY <2>2
  <2>. QED
    BY <1>5, <1>6, <2>1, <2>2, <2>3 DEF Sightings
<1>7. \A a, b \in DOMAIN found : a < b => Comes(found[a], found[b])
  <2>1. DOMAIN found = 1 .. Len(found)
    BY <1>5, LenProperties
  <2>. QED
    BY <1>5, <2>1 DEF Ordered, InOrder
<1>. QED
  BY <1>3, <1>5, <1>6, <1>7
-----------------------------------------------------------------------------
Paid(addresses) == [zat : Nat \cup {NoInteger}, address : addresses]
Snapped(txs, holders) ==
  [tx : txs, account : holders, amount : Nat \cup {NoInteger}, height : Nat]

\* Chains in which a transaction has one block at most.
Chains(txs) ==
  {chain \in Seq(Seq(txs)) :
     \A j, k \in DOMAIN chain : Range(chain[j]) \cap Range(chain[k]) # {} => j = k}

\* Every call is answered from one of two chains.
Answered(calls, before, after, txs) ==
  /\ before \in Chains(txs) /\ after \in Chains(txs)
  /\ \A n \in Nat \ {0} : calls[n] \in {before, after}

(***************************************************************************)
(* What two chains have in common is the same in both.                     *)
(***************************************************************************)
LEMMA CommonIs ==
  ASSUME NEW S, NEW a \in Seq(S), NEW b \in Seq(S)
  PROVE  /\ Common(a, b) \in Nat /\ Common(a, b) <= Len(a) /\ Common(a, b) <= Len(b)
         /\ \A k \in 1 .. Common(a, b) : a[k] = b[k]
<1> DEFINE m == Min({Len(a), Len(b)})
           N == {n \in 0 .. m : SubSeq(a, 1, n) = SubSeq(b, 1, n)}
<1>1. Len(a) \in Nat /\ Len(b) \in Nat
  BY LenProperties
<1>2. m \in Nat /\ m <= Len(a) /\ m <= Len(b)
  BY <1>1, LesserOfTwo
<1> HIDE DEF m
<1>3. 0 \in N /\ \A n \in N : n \in Nat /\ n <= m
  BY <1>2
<1>4. Max(N) \in N
  <2> HIDE DEF N
  <2>. QED
    BY <1>2, <1>3, GreatestOf
<1>5. ASSUME NEW n \in N, NEW k \in 1 .. n PROVE a[k] = b[k]
  <2>1. n \in Nat /\ n <= Len(a) /\ n <= Len(b) /\ SubSeq(a, 1, n) = SubSeq(b, 1, n)
    BY <1>1, <1>2
  <2>2. SubSeq(a, 1, n)[k] = a[k] /\ SubSeq(b, 1, n)[k] = b[k]
    BY <1>1, <2>1
  <2>. QED
    BY <2>1, <2>2
<1>6. Common(a, b) = Max(N)
  BY DEF Common, m
<1> HIDE DEF N
<1>. QED
  BY <1>1, <1>2, <1>3, <1>4, <1>5, <1>6

\* What they have in common is there in every answer, at its height.
Throughout(calls, before, after, txs) ==
  /\ Common(before, after) \in Nat
  /\ \A n \in Nat \ {0} :
       /\ calls[n] \in Chains(txs) /\ calls[n] \in Seq(Seq(txs)) /\ Len(calls[n]) \in Nat
       /\ DOMAIN calls[n] = 1 .. Len(calls[n]) /\ Common(before, after) <= Len(calls[n])
       /\ \A h \in 1 .. Common(before, after) : h \in DOMAIN calls[n] /\ calls[n][h] = before[h]

(***************************************************************************)
(* The chains that answer have the blocks in common, at their heights.     *)
(***************************************************************************)
LEMMA CommonBlocks ==
  ASSUME NEW txs, NEW calls, NEW before, NEW after, Answered(calls, before, after, txs)
  PROVE  Throughout(calls, before, after, txs)
<1>1. before \in Seq(Seq(txs)) /\ after \in Seq(Seq(txs))
  BY DEF Answered, Chains
<1>2. /\ Common(before, after) \in Nat
      /\ Common(before, after) <= Len(before) /\ Common(before, after) <= Len(after)
      /\ \A k \in 1 .. Common(before, after) : before[k] = after[k]
  BY <1>1, CommonIs
<1>3. ASSUME NEW n \in Nat \ {0}
      PROVE  /\ calls[n] \in Chains(txs) /\ calls[n] \in Seq(Seq(txs)) /\ Len(calls[n]) \in Nat
             /\ DOMAIN calls[n] = 1 .. Len(calls[n]) /\ Common(before, after) <= Len(calls[n])
             /\ \A h \in 1 .. Common(before, after) : h \in DOMAIN calls[n] /\ calls[n][h] = before[h]
  <2>1. calls[n] \in {before, after} /\ calls[n] \in Chains(txs)
    BY DEF Answered
  <2>2. Len(calls[n]) \in Nat /\ DOMAIN calls[n] = 1 .. Len(calls[n])
    BY <1>1, <2>1, LenProperties
  <2>3. calls[n] \in Seq(Seq(txs)) /\ Common(before, after) <= Len(calls[n])
    BY <1>1, <1>2, <2>1
  <2>4. ASSUME NEW h \in 1 .. Common(before, after)
        PROVE  h \in DOMAIN calls[n] /\ calls[n][h] = before[h]
    <3>1. h \in 1 .. Len(calls[n])
      BY <1>2, <2>2, <2>3
    <3>2. calls[n][h] = before[h]
      BY <1>2, <2>1
    <3>. QED
      BY <2>2, <3>1, <3>2
  <2>. QED
    BY <2>1, <2>2, <2>3, <2>4
<1>. QED
  BY <1>2, <1>3 DEF Throughout

(***************************************************************************)
(* A node's height of a transaction is that of its block.                  *)
(***************************************************************************)
LEMMA HeightsAre ==
  ASSUME NEW txs, NEW chain \in Chains(txs), NEW tx, NEW dropped
  PROVE  /\ \A h \in RawHeight(chain, tx, dropped) :
              h \in Nat /\ (h # 0 => h \in DOMAIN chain /\ tx \in Range(chain[h]))
         /\ \A h \in DOMAIN chain :
              tx \in Range(chain[h]) => RawHeight(chain, tx, dropped) = {h}
<1> DEFINE mined == {h \in DOMAIN chain : tx \in Range(chain[h])}
<1>1. RawHeight(chain, tx, dropped) = IF mined = {} /\ ~dropped THEN {0} ELSE mined
  BY DEF RawHeight
<1>2. DOMAIN chain = 1 .. Len(chain) /\ Len(chain) \in Nat
  BY LenProperties DEF Chains
<1>3. ASSUME NEW h \in DOMAIN chain, tx \in Range(chain[h]) PROVE mined = {h}
  <2>1. ASSUME NEW j \in mined PROVE j = h
    <3>1. tx \in Range(chain[j]) \cap Range(chain[h]) /\ j \in DOMAIN chain
      BY <1>3
    <3>. QED
      BY <3>1 DEF Chains
  <2>. QED
    BY <1>3, <2>1
<1>. QED
  BY <1>1, <1>2, <1>3

(***************************************************************************)
(* A depth is that of a transaction's block in a chain the node had, and   *)
(* one that kept its block has the depth of the later chain if the block   *)
(* count was what told (zebra.rs), whatever the chains.                    *)
(***************************************************************************)
THEOREM DepthsAreOfChains ==
  ASSUME NEW txs, NEW calls, NEW before, NEW after, Answered(calls, before, after, txs),
         NEW tx, NEW reported \in BOOLEAN, NEW dropped \in BOOLEAN
  PROVE  DepthIsOfAChain(calls, before, after, tx, reported, dropped)
<1> DEFINE Depth(h) == IF h = 0 THEN 0
                       ELSE IF reported THEN Len(calls[1]) - h + 1
                       ELSE Max({Len(calls[2]) - h, 0}) + 1
<1>1. SUFFICES ASSUME NEW g \in RawHeight(calls[1], tx, dropped)
               PROVE  /\ Depth(g) > 0 => \E chain \in {before, after} :
                                           \E h \in DOMAIN chain : tx \in Range(chain[h])
                      /\ \A h \in 1 .. Common(before, after) :
                           tx \in Range(before[h]) =>
                             Depth(g) = Len(IF reported THEN calls[1] ELSE calls[2]) - h + 1
  BY DEF DepthIsOfAChain, Confirmations
<1>2. /\ Common(before, after) \in Nat
      /\ calls[1] \in {before, after} /\ calls[1] \in Chains(txs)
      /\ Len(calls[1]) \in Nat /\ Len(calls[2]) \in Nat /\ Common(before, after) <= Len(calls[2])
      /\ \A h \in 1 .. Common(before, after) : h \in DOMAIN calls[1] /\ calls[1][h] = before[h]
  <2>1. 1 \in Nat \ {0} /\ 2 \in Nat \ {0}
    OBVIOUS
  <2>2. calls[1] \in {before, after}
    BY <2>1, Zenon DEF Answered
  <2>3. Throughout(calls, before, after, txs)
    BY CommonBlocks
  <2>. QED
    BY <2>1, <2>2, <2>3, Zenon DEF Throughout
<1>3. /\ g \in Nat /\ (g # 0 => g \in DOMAIN calls[1] /\ tx \in Range(calls[1][g]))
      /\ \A h \in DOMAIN calls[1] : tx \in Range(calls[1][h]) => RawHeight(calls[1], tx, dropped) = {h}
  BY <1>2, HeightsAre
<1>4. Depth(g) > 0 => \E chain \in {before, after} : \E h \in DOMAIN chain : tx \in Range(chain[h])
  <2>1. Depth(g) > 0 => g # 0
    OBVIOUS
  <2>. QED
    BY <1>2, <1>3, <2>1, Zenon
<1>5. ASSUME NEW h \in 1 .. Common(before, after), tx \in Range(before[h])
      PROVE  Depth(g) = Len(IF reported THEN calls[1] ELSE calls[2]) - h + 1
  <2>1. g = h
    BY <1>2, <1>3, <1>5
  <2>2. h \in Nat /\ h # 0 /\ h <= Len(calls[2]) /\ Len(calls[2]) - h \in Int /\ Len(calls[2]) - h >= 0
    BY <1>2
  <2>3. Max({Len(calls[2]) - h, 0}) = Len(calls[2]) - h
    BY <2>2, GreaterOfTwo
  <2>. QED
    BY <2>1, <2>2, <2>3
<1>. QED
  BY <1>4, <1>5
-----------------------------------------------------------------------------
PaysNobody(outputs, accounts) ==
  \A i \in DOMAIN outputs : outputs[i].address \notin DOMAIN accounts

(***************************************************************************)
(* The deposits of a transaction have its height and readable amounts, and *)
(* there are none of one that pays nobody watched.                         *)
(***************************************************************************)
LEMMA DepositsAre ==
  ASSUME NEW txs, NEW tx \in txs, NEW addresses, NEW outputs \in Seq(Paid(addresses)),
         NEW holders, NEW accounts, accounts \in [DOMAIN accounts -> holders], NEW h \in Nat
  PROVE  /\ DepositsOf(tx, outputs, accounts, h) \in Seq(Snapped(txs, holders))
         /\ \A d \in ToSet(DepositsOf(tx, outputs, accounts, h)) :
              d.height = h /\ (Readable(outputs) => d.amount \in Nat)
         /\ PaysNobody(outputs, accounts) =>
              DepositsOf(tx, outputs, accounts, h) = << >>
<1> DEFINE watched == {o \in ToSet(outputs) : o.address \in DOMAIN accounts}
           ours == Select(outputs, watched)
           D == Snapped(txs, holders)
           Entry(o) == [tx |-> tx, account |-> accounts[o.address], amount |-> o.zat, height |-> h]
           deposits == [i \in DOMAIN ours |-> Entry(ours[i])]
<1>1. ours \in Seq(Paid(addresses)) /\ ToSet(ours) = ToSet(outputs) \cap watched
  BY SelectType, SelectEntries
<1> HIDE DEF ours
<1>2. Len(ours) \in Nat /\ DOMAIN ours = 1 .. Len(ours)
  BY <1>1, LenProperties
<1>3. \A i \in DOMAIN ours : ours[i] \in watched /\ ours[i] \in Paid(addresses)
  <2>1. \A i \in DOMAIN ours : ours[i] \in ToSet(ours)
    BY DEF ToSet
  <2>2. \A i \in DOMAIN ours : ours[i] \in Paid(addresses)
    BY <1>1, <1>2, ElementOfSeq
  <2>. QED
    BY <1>1, <2>1, <2>2
<1>4. \A i \in DOMAIN ours : Entry(ours[i]) \in D
  <2>1. \A i \in DOMAIN ours : accounts[ours[i].address] \in holders
    BY <1>3
  <2>. QED
    BY <1>3, <2>1 DEF Paid, Snapped
<1> HIDE DEF D
<1>5. deposits \in Seq(D)
  <2>1. deposits \in [1 .. Len(ours) -> D]
    BY <1>2, <1>4
  <2> HIDE DEF deposits
  <2>. QED
    BY <1>2, <2>1, FunctionIsSequence
<1>6. ASSUME NEW d \in ToSet(deposits)
      PROVE  d.height = h /\ (Readable(outputs) => d.amount \in Nat)
  <2>1. PICK i \in DOMAIN ours : d = Entry(ours[i])
    BY DEF ToSet
  <2>2. Readable(outputs) => ours[i].zat \in Nat
    <3>1. PICK j \in DOMAIN outputs : ours[i] = outputs[j]
      BY <1>3 DEF ToSet
    <3>. QED
      BY <1>3, <3>1 DEF Readable, Paid
  <2>. QED
    BY <2>1, <2>2
<1>7. ASSUME PaysNobody(outputs, accounts)
      PROVE  deposits = << >>
  <2>1. DOMAIN ours = {}
    BY <1>3, <1>7 DEF ToSet, PaysNobody
  <2>2. Len(ours) = 0
    BY <1>2, <2>1
  <2>. QED
    BY <1>2, <2>2
<1>8. DepositsOf(tx, outputs, accounts, h) = deposits
  BY DEF DepositsOf, ours
<1> HIDE DEF deposits
<1>. QED
  BY <1>5, <1>6, <1>7, <1>8 DEF D

\* What a node is asked for, of what, and what answers.
Asking(calls, before, after, contents, accounts, txs, addresses, holders) ==
  /\ Answered(calls, before, after, txs)
  /\ contents \in [txs -> Seq(Paid(addresses))]
  /\ accounts \in [DOMAIN accounts -> holders]

\* g is a height from the first one read, first, up to which nothing changes.
Within(calls, before, after, from, first, g) ==
  /\ from \in Nat /\ first \in Nat /\ first = Max({from, 1})
  /\ g \in Nat /\ first <= g /\ g <= Len(calls[1]) /\ g <= Common(before, after)

\* The n blocks from first on, g among them, are what is listed.
Listing(calls, contents, accounts, from, first, g, n) ==
  /\ g < first + n /\ first + n - 1 <= Len(calls[2])
  /\ Listed(calls, contents, accounts, from)
       = FlattenSeq([k \in 1 .. n |->
           Select(calls[2][first + k - 1], Paying(contents, DOMAIN accounts))])

(***************************************************************************)
(* What is listed is what pays, block by block, from the first block asked *)
(* for through the last that both the tip and the list have.               *)
(***************************************************************************)
LEMMA ListedIs ==
  ASSUME NEW txs, NEW addresses, NEW holders, NEW calls, NEW before, NEW after,
         NEW contents, NEW accounts,
         Asking(calls, before, after, contents, accounts, txs, addresses, holders),
         NEW from, NEW first, NEW g, Within(calls, before, after, from, first, g),
         DOMAIN accounts # {}
  PROVE  \E n \in Nat : Listing(calls, contents, accounts, from, first, g, n)
<1>0. /\ from \in Nat /\ first \in Nat /\ first = Max({from, 1})
      /\ g \in Nat /\ first <= g /\ g <= Len(calls[1]) /\ g <= Common(before, after)
  BY DEF Within
<1>1. Answered(calls, before, after, txs)
  BY DEF Asking
<1>2. /\ Len(calls[1]) \in Nat /\ Len(calls[2]) \in Nat
      /\ Common(before, after) \in Nat /\ Common(before, after) <= Len(calls[2])
  <2>1. 1 \in Nat \ {0} /\ 2 \in Nat \ {0}
    OBVIOUS
  <2>2. /\ Common(before, after) \in Nat
        /\ \A n \in Nat \ {0} : Len(calls[n]) \in Nat /\ Common(before, after) <= Len(calls[n])
    BY <1>1, CommonBlocks DEF Throughout
  <2>. QED
    BY <2>1, <2>2
<1> DEFINE last == Min({Len(calls[1]), Len(calls[2])})
           n == last - first + 1
<1>3. /\ last \in Nat /\ last <= Len(calls[1]) /\ last <= Len(calls[2])
      /\ g <= last
  <2>1. last = IF Len(calls[1]) <= Len(calls[2]) THEN Len(calls[1]) ELSE Len(calls[2])
    <3>1. Len(calls[1]) \in Int /\ Len(calls[2]) \in Int
      BY <1>2
    <3>. QED
      BY <3>1, LesserOfTwo, Zenon
  <2>. QED
    BY <1>0, <1>2, <2>1
<1>4. from <= first /\ from <= Len(calls[1])
  <2>1. first = IF from >= 1 THEN from ELSE 1
    BY <1>0, GreaterOfTwo
  <2>. QED
    BY <1>0, <1>2, <2>1
<1>5. Listed(calls, contents, accounts, from)
        = FlattenSeq([k \in 1 .. n |->
            Select(calls[2][first + k - 1], Paying(contents, DOMAIN accounts))])
  BY <1>0, <1>4 DEF Listed, AddressTxids
<1> HIDE DEF last
<1>6. n \in Nat /\ g < first + n /\ first + n - 1 <= Len(calls[2])
  BY <1>0, <1>2, <1>3
<1> HIDE DEF n
<1>. QED
  BY <1>5, <1>6, Zenon DEF Listing

(***************************************************************************)
(* What is listed is of the transactions, and whoever has a block in common*)
(* has one from the first that was asked for.                              *)
(***************************************************************************)
LEMMA ListedAre ==
  ASSUME NEW txs, NEW addresses, NEW holders, NEW calls, NEW before, NEW after,
         NEW contents, NEW accounts,
         Asking(calls, before, after, contents, accounts, txs, addresses, holders),
         NEW from, NEW first, NEW g, Within(calls, before, after, from, first, g),
         DOMAIN accounts # {}
  PROVE  /\ Listed(calls, contents, accounts, from) \in Seq(txs)
         /\ \A tx \in ToSet(Listed(calls, contents, accounts, from)) :
              \E k \in DOMAIN calls[2] : first <= k /\ tx \in Range(calls[2][k])
         /\ \A holder, image :
              /\ Maps(image, txs, Seq(holder))
              /\ \A tx \in txs \ Paying(contents, DOMAIN accounts) : image[tx] = << >>
              /\ \A tx \in txs \ Range(before[g]) : image[tx] = << >>
              => Images(image, Listed(calls, contents, accounts, from)) = Images(image, before[g])
<1> DEFINE P == Paying(contents, DOMAIN accounts)
           chain == calls[2]
           listed == Listed(calls, contents, accounts, from)
<1>0. /\ from \in Nat /\ first \in Nat /\ first = Max({from, 1})
      /\ g \in Nat /\ first <= g /\ g <= Len(calls[1]) /\ g <= Common(before, after)
  BY DEF Within
<1>1. /\ chain \in Chains(txs) /\ chain \in Seq(Seq(txs)) /\ Len(chain) \in Nat
      /\ DOMAIN chain = 1 .. Len(chain)
      /\ g \in 1 .. Len(chain) /\ chain[g] = before[g]
  <2>1. Answered(calls, before, after, txs) /\ 2 \in Nat \ {0}
    BY DEF Asking
  <2>2. Throughout(calls, before, after, txs)
    BY <2>1, CommonBlocks
  <2>3. g >= 1
    <3>1. first = IF from >= 1 THEN from ELSE 1
      BY <1>0, GreaterOfTwo
    <3>. QED
      BY <1>0, <3>1
  <2>4. g \in 1 .. Common(before, after)
    BY <1>0, <2>2, <2>3 DEF Throughout
  <2>. QED
    BY <2>1, <2>2, <2>4 DEF Throughout
<1>2. PICK n \in Nat :
        /\ g < first + n /\ first + n - 1 <= Len(chain)
        /\ listed = FlattenSeq([k \in 1 .. n |-> Select(chain[first + k - 1], P)])
  <2>1. \E n \in Nat : Listing(calls, contents, accounts, from, first, g, n)
    BY ListedIs, Zenon
  <2>. QED
    BY <2>1, Zenon DEF Listing
<1> DEFINE parts == [k \in 1 .. n |-> Select(chain[first + k - 1], P)]
<1>3. first >= 1
  <2>1. first = IF from >= 1 THEN from ELSE 1
    BY <1>0, GreaterOfTwo
  <2>. QED
    BY <1>0, <2>1
<1> HIDE DEF chain, listed, P
<1>4. ASSUME NEW k \in 1 .. n
      PROVE  /\ first + k - 1 \in DOMAIN chain /\ first <= first + k - 1
             /\ chain[first + k - 1] \in Seq(txs)
             /\ Select(chain[first + k - 1], P) \in Seq(txs)
             /\ ToSet(Select(chain[first + k - 1], P)) \subseteq ToSet(chain[first + k - 1])
  <2>1. first + k - 1 \in 1 .. Len(chain) /\ first <= first + k - 1
    <3>1. first + n - 1 <= Len(chain) /\ Len(chain) \in Nat
      BY <1>1, <1>2
    <3>. QED
      BY <1>0, <1>3, <3>1
  <2>2. chain[first + k - 1] \in Seq(txs)
    BY <1>1, <2>1, ElementOfSeq
  <2>. QED
    BY <1>1, <2>1, <2>2, SelectType, SelectEntries
<1>5. parts \in Seq(Seq(txs)) /\ Len(parts) = n
  <2>1. parts \in [1 .. n -> Seq(txs)]
    BY <1>4
  <2> HIDE DEF parts
  <2>. QED
    BY <2>1, FunctionIsSequence
<1>6. listed = FlattenSeq(parts) /\ listed \in Seq(txs)
  BY <1>2, <1>5, FlattenType
<1>7. ASSUME NEW tx \in ToSet(listed)
      PROVE  \E k \in DOMAIN chain : first <= k /\ tx \in Range(chain[k])
  <2>1. PICK k \in 1 .. n : tx \in ToSet(parts[k])
    <3> HIDE DEF parts
    <3>1. PICK p \in ToSet(parts) : tx \in ToSet(p)
      BY <1>5, <1>6, FlattenEntries
    <3>2. DOMAIN parts = 1 .. n
      BY <1>5, LenProperties
    <3>. QED
      BY <3>1, <3>2 DEF ToSet
  <2>2. tx \in ToSet(chain[first + k - 1])
    BY <1>4, <2>1
  <2>. QED
    BY <1>4, <2>2 DEF ToSet, Range
<1>8. ASSUME NEW holder, NEW image, Maps(image, txs, Seq(holder)),
             \A tx \in txs \ P : image[tx] = << >>,
             \A tx \in txs \ Range(before[g]) : image[tx] = << >>
      PROVE  Images(image, listed) = Images(image, before[g])
  <2> DEFINE images == [k \in 1 .. n |-> Images(image, parts[k])]
             j == g - first + 1
  <2>1. Images(image, listed) = FlattenSeq(images)
    <3>1. Images(image, FlattenSeq(parts))
            = FlattenSeq([k \in 1 .. Len(parts) |-> Images(image, parts[k])])
      <4> HIDE DEF parts
      <4>. QED
        BY <1>5, <1>8, ImagesFlatten
    <3>. QED
      BY <1>5, <1>6, <3>1
  <2>2. ASSUME NEW k \in 1 .. n
        PROVE  images[k] = Images(image, chain[first + k - 1])
    <3>1. \A s \in Seq(txs) : Images(image, Select(s, P)) = Images(image, s)
      BY <1>8, ImagesSelect
    <3>2. parts[k] = Select(chain[first + k - 1], P) /\ images[k] = Images(image, parts[k])
      OBVIOUS
    <3>. QED
      BY <1>4, <3>1, <3>2
  <2>3. images \in Seq(Seq(holder)) /\ Len(images) = n
    <3>1. \A k \in 1 .. n : Images(image, parts[k]) \in Seq(holder)
      BY <1>4, <1>8, ImagesAre
    <3>2. images \in [1 .. n -> Seq(holder)]
      BY <3>1
    <3> HIDE DEF images
    <3>. QED
      BY <3>2, FunctionIsSequence
  <2>4. ASSUME NEW k \in 1 .. n, k # j PROVE images[k] = << >>
    <3>1. ASSUME NEW tx \in ToSet(chain[first + k - 1]) PROVE image[tx] = << >>
      <4>1. tx \in txs /\ tx \in Range(chain[first + k - 1])
        BY <1>4, EntriesAre DEF ToSet, Range
      <4>2. first + k - 1 # g
        BY <1>0, <2>4
      <4>3. tx \notin Range(chain[g])
        <5>1. g \in DOMAIN chain
          BY <1>1
        <5>. QED
          BY <1>1, <1>4, <4>1, <4>2, <5>1 DEF Chains
      <4>. QED
        BY <1>1, <1>8, <4>1, <4>3
    <3>2. Images(image, chain[first + k - 1]) = << >>
      BY <1>4, <1>8, <3>1, ImagesNone
    <3>. QED
      BY <2>2, <3>2
  <2>5. j \in 1 .. n /\ first + j - 1 = g
    <3>1. g < first + n /\ n \in Nat
      BY <1>2
    <3>. QED
      BY <1>0, <3>1
  <2> HIDE DEF images, j
  <2>6. FlattenSeq(images) = images[j]
    BY <2>3, <2>4, <2>5, FlattenOne
  <2>7. images[j] = Images(image, chain[g])
    BY <2>2, <2>5
  <2>. QED
    BY <1>1, <2>1, <2>6, <2>7
<1>. QED
  BY <1>6, <1>7, <1>8 DEF listed, chain, P
-----------------------------------------------------------------------------
\* What a block's transactions pay, one by one, and all of them.
PaidIn(before, contents, accounts, txs, g) ==
  [tx \in txs |-> IF tx \in Range(before[g]) THEN DepositsOf(tx, contents[tx], accounts, g) ELSE << >>]

PaidInBlock(before, contents, accounts, k) ==
  FlattenSeq([i \in DOMAIN before[k] |->
    DepositsOf(before[k][i], contents[before[k][i]], accounts, k)])

ReadableIn(txs, holders) == {d \in Snapped(txs, holders) : d.amount \in Nat}

(***************************************************************************)
(* What a block pays is what its transactions do.                          *)
(***************************************************************************)
LEMMA PaidInIs ==
  ASSUME NEW txs, NEW addresses, NEW holders, NEW calls, NEW before, NEW after,
         NEW contents, NEW accounts,
         Asking(calls, before, after, contents, accounts, txs, addresses, holders),
         NEW g \in Nat, before[g] \in Seq(txs)
  PROVE  /\ Maps(PaidIn(before, contents, accounts, txs, g), txs, Seq(Snapped(txs, holders)))
         /\ \A tx \in txs \ Paying(contents, DOMAIN accounts) :
              PaidIn(before, contents, accounts, txs, g)[tx] = << >>
         /\ \A tx \in txs \ Range(before[g]) : PaidIn(before, contents, accounts, txs, g)[tx] = << >>
         /\ PaidInBlock(before, contents, accounts, g)
              = Images(PaidIn(before, contents, accounts, txs, g), before[g])
<1> DEFINE image == PaidIn(before, contents, accounts, txs, g)
           D == Snapped(txs, holders)
           block == before[g]
<1>1. \A tx \in txs : image[tx] = IF tx \in Range(block)
                                    THEN DepositsOf(tx, contents[tx], accounts, g) ELSE << >>
  BY DEF PaidIn
<1>2. contents \in [txs -> Seq(Paid(addresses))] /\ accounts \in [DOMAIN accounts -> holders]
  BY DEF Asking
<1>3. ASSUME NEW tx \in txs
      PROVE  /\ DepositsOf(tx, contents[tx], accounts, g) \in Seq(D)
             /\ tx \notin Paying(contents, DOMAIN accounts) =>
                  DepositsOf(tx, contents[tx], accounts, g) = << >>
  <2>1. contents[tx] \in Seq(Paid(addresses))
    BY <1>2
  <2>2. tx \notin Paying(contents, DOMAIN accounts) => PaysNobody(contents[tx], accounts)
    BY <1>2 DEF Paying, PaysNobody
  <2>3. /\ DepositsOf(tx, contents[tx], accounts, g) \in Seq(Snapped(txs, holders))
        /\ PaysNobody(contents[tx], accounts) =>
             DepositsOf(tx, contents[tx], accounts, g) = << >>
    <3> DEFINE outputs == contents[tx]
    <3>1. accounts \in [DOMAIN accounts -> holders] /\ outputs \in Seq(Paid(addresses))
      BY <1>2, <2>1
    <3> HIDE DEF outputs, image, D
    <3>2. /\ DepositsOf(tx, outputs, accounts, g) \in Seq(Snapped(txs, holders))
          /\ \A d \in ToSet(DepositsOf(tx, outputs, accounts, g)) :
               d.height = g /\ (Readable(outputs) => d.amount \in Nat)
          /\ PaysNobody(outputs, accounts) => DepositsOf(tx, outputs, accounts, g) = << >>
      BY <3>1, DepositsAre
    <3>. QED
      BY <3>2 DEF outputs
  <2>. QED
    BY <2>2, <2>3
<1> HIDE DEF image, D
<1>4. << >> \in Seq(D)
  BY EmptySeq
<1>5. Maps(image, txs, Seq(D))
  BY <1>1, <1>3, <1>4 DEF Maps
<1>6. PaidInBlock(before, contents, accounts, g) = Images(image, block)
  <2>1. Len(block) \in Nat /\ DOMAIN block = 1 .. Len(block)
    BY LenProperties
  <2>2. ASSUME NEW i \in 1 .. Len(block)
        PROVE  image[block[i]] = DepositsOf(block[i], contents[block[i]], accounts, g)
    <3>1. block[i] \in txs /\ block[i] \in Range(block)
      BY <2>1, ElementOfSeq DEF Range
    <3>. QED
      BY <1>1, <3>1
  <2>3. Mapped(image, block)
          = [i \in DOMAIN block |-> DepositsOf(block[i], contents[block[i]], accounts, g)]
    BY <2>1, <2>2 DEF Mapped
  <2>. QED
    BY <2>3 DEF PaidInBlock, Images
<1>. QED
  BY <1>1, <1>3, <1>5, <1>6 DEF image, D

\* What is made of a list: the deposits of each transaction, at a height a call gave.
Snaps(calls, contents, accounts, dropped, listed, heights, deposits) ==
  /\ heights \in [1 .. Len(listed) -> Nat]
  /\ \A i \in 1 .. Len(listed) :
       /\ heights[i] \in RawHeight(calls[2 + i], listed[i], dropped)
       /\ Readable(contents[listed[i]])
  /\ deposits = FlattenSeq([i \in 1 .. Len(listed) |->
                  DepositsOf(listed[i], contents[listed[i]], accounts, heights[i])])

(***************************************************************************)
(* A snapshot has the tip of the first call and the deposits of its list.  *)
(***************************************************************************)
LEMMA ObservedIs ==
  ASSUME NEW txs, NEW addresses, NEW holders, NEW calls, NEW before, NEW after,
         NEW contents, NEW accounts,
         Asking(calls, before, after, contents, accounts, txs, addresses, holders),
         NEW from, NEW dropped, NEW network, NEW listed \in Seq(txs),
         listed = Listed(calls, contents, accounts, from),
         NEW s \in Observe(network, calls, contents, accounts, from, dropped)
  PROVE  /\ s.tip = Len(calls[1])
         /\ \E heights : Snaps(calls, contents, accounts, dropped, listed, heights, s.deposits)
<1> DEFINE height == [i \in DOMAIN listed |-> RawHeight(calls[2 + i], listed[i], dropped)]
           Entries(i) == DepositsOf(listed[i], contents[listed[i]], accounts,
                                    CHOOSE h \in height[i] : TRUE)
           deposits == FlattenSeq([i \in DOMAIN listed |-> Entries(i)])
           heights == [i \in 1 .. Len(listed) |-> CHOOSE h \in height[i] : TRUE]
<1>1. Len(listed) \in Nat /\ DOMAIN listed = 1 .. Len(listed)
  BY LenProperties
<1>2. Observe(network, calls, contents, accounts, from, dropped)
        = IF \/ network = "mainnet"
             \/ \E i \in DOMAIN listed : height[i] = {} \/ ~Readable(contents[listed[i]])
            THEN {} ELSE {[tip |-> Len(calls[1]), deposits |-> deposits]}
  BY DEF Observe
<1> HIDE DEF deposits, height
<1>3. /\ s.tip = Len(calls[1]) /\ s.deposits = deposits
      /\ \A i \in DOMAIN listed : height[i] # {} /\ Readable(contents[listed[i]])
  BY <1>2
<1>4. ASSUME NEW i \in 1 .. Len(listed)
      PROVE  /\ heights[i] \in Nat
             /\ heights[i] \in RawHeight(calls[2 + i], listed[i], dropped)
             /\ heights[i] = CHOOSE h \in height[i] : TRUE
  <2>1. heights[i] \in height[i] /\ heights[i] = CHOOSE h \in height[i] : TRUE
    BY <1>1, <1>3
  <2>2. height[i] = RawHeight(calls[2 + i], listed[i], dropped)
    BY <1>1 DEF height
  <2>3. calls[2 + i] \in Chains(txs)
    <3>1. 2 + i \in Nat \ {0}
      BY <1>1
    <3>. QED
      BY <3>1 DEF Asking, Answered
  <2> HIDE DEF heights
  <2>4. heights[i] \in Nat
    BY <2>1, <2>2, <2>3, HeightsAre
  <2>. QED
    BY <2>1, <2>2, <2>4
<1>5. heights \in [1 .. Len(listed) -> Nat]
  BY <1>4
<1>6. deposits = FlattenSeq([i \in 1 .. Len(listed) |->
                   DepositsOf(listed[i], contents[listed[i]], accounts, heights[i])])
  <2> HIDE DEF heights
  <2>1. \A i \in 1 .. Len(listed) :
          Entries(i) = DepositsOf(listed[i], contents[listed[i]], accounts, heights[i])
    BY <1>4
  <2> HIDE DEF Entries
  <2>2. [i \in DOMAIN listed |-> Entries(i)]
          = [i \in 1 .. Len(listed) |->
               DepositsOf(listed[i], contents[listed[i]], accounts, heights[i])]
    BY <1>1, <2>1
  <2>. QED
    BY <2>2 DEF deposits
<1> HIDE DEF heights
<1>7. Snaps(calls, contents, accounts, dropped, listed, heights, s.deposits)
  BY <1>1, <1>3, <1>4, <1>5, <1>6 DEF Snaps
<1>. QED
  BY <1>3, <1>7

\* The deposits of a list's i-th transaction.
Part(contents, accounts, listed, heights, i) ==
  DepositsOf(listed[i], contents[listed[i]], accounts, heights[i])

ReadableParts(contents, accounts, listed, heights, deposits, txs, holders) ==
  /\ \A i \in 1 .. Len(listed) :
       /\ Part(contents, accounts, listed, heights, i) \in Seq(ReadableIn(txs, holders))
       /\ \A d \in ToSet(Part(contents, accounts, listed, heights, i)) : d.height = heights[i]
  /\ deposits \in Seq(ReadableIn(txs, holders))
  /\ \A d \in ToSet(deposits) : \E i \in 1 .. Len(listed) : d.height = heights[i]

(***************************************************************************)
(* A snapshot's deposits are readable, and each has the height that its    *)
(* transaction was found at.                                               *)
(***************************************************************************)
LEMMA PartsAre ==
  ASSUME NEW txs, NEW addresses, NEW holders, NEW calls, NEW before, NEW after,
         NEW contents, NEW accounts,
         Asking(calls, before, after, contents, accounts, txs, addresses, holders),
         NEW dropped, NEW listed \in Seq(txs), NEW heights, NEW deposits,
         Snaps(calls, contents, accounts, dropped, listed, heights, deposits)
  PROVE  ReadableParts(contents, accounts, listed, heights, deposits, txs, holders)
<1> DEFINE D == Snapped(txs, holders)
           R == ReadableIn(txs, holders)
           PartOf(i) == Part(contents, accounts, listed, heights, i)
           n == Len(listed)
           parts == [i \in 1 .. n |-> PartOf(i)]
<1>1. n \in Nat /\ heights \in [1 .. n -> Nat] /\ deposits = FlattenSeq(parts)
  BY LenProperties DEF Snaps, Part
<1>2. ASSUME NEW i \in 1 .. n
      PROVE  PartOf(i) \in Seq(R) /\ \A d \in ToSet(PartOf(i)) : d.height = heights[i]
  <2>1. listed[i] \in txs /\ contents[listed[i]] \in Seq(Paid(addresses))
    BY <1>1, ElementOfSeq DEF Asking
  <2>2. Readable(contents[listed[i]]) /\ heights[i] \in Nat
        /\ accounts \in [DOMAIN accounts -> holders]
    BY <1>1 DEF Snaps, Asking
  <2>3. /\ PartOf(i) \in Seq(D)
        /\ \A d \in ToSet(PartOf(i)) : d.height = heights[i] /\ d.amount \in Nat
    <3>1. /\ DepositsOf(listed[i], contents[listed[i]], accounts, heights[i]) \in Seq(D)
          /\ \A d \in ToSet(DepositsOf(listed[i], contents[listed[i]], accounts, heights[i])) :
               /\ d.height = heights[i]
               /\ Readable(contents[listed[i]]) => d.amount \in Nat
      BY <2>1, <2>2, DepositsAre
    <3>. QED
      BY <2>2, <3>1 DEF Part
  <2> HIDE DEF PartOf, D, n
  <2>4. \A d \in ToSet(PartOf(i)) : d \in R
    BY <2>3, EntriesAre DEF R, D, ReadableIn
  <2>5. PartOf(i) \in Seq(R)
    <3>1. Len(PartOf(i)) \in Nat /\ PartOf(i) \in [1 .. Len(PartOf(i)) -> D]
      BY <2>3, LenProperties
    <3>2. PartOf(i) \in [1 .. Len(PartOf(i)) -> R]
      BY <2>4, <3>1 DEF ToSet
    <3>. QED
      BY <3>1, <3>2, FunctionIsSequence
  <2>. QED
    BY <2>3, <2>5
<1> HIDE DEF PartOf, R, n
<1>3. parts \in Seq(Seq(R)) /\ Len(parts) = n
  <2>1. parts \in [1 .. n -> Seq(R)]
    BY <1>2
  <2> HIDE DEF parts
  <2>. QED
    BY <1>1, <2>1, FunctionIsSequence
<1>4. deposits \in Seq(R)
  BY <1>1, <1>3, FlattenType
<1>5. ASSUME NEW d \in ToSet(deposits) PROVE \E i \in 1 .. n : d.height = heights[i]
  <2>1. PICK i \in 1 .. n : d \in ToSet(parts[i])
    <3> HIDE DEF parts
    <3>1. PICK p \in ToSet(parts) : d \in ToSet(p)
      BY <1>1, <1>3, FlattenEntries
    <3>2. DOMAIN parts = 1 .. n
      BY <1>3, LenProperties
    <3>. QED
      BY <3>1, <3>2 DEF ToSet
  <2>. QED
    BY <1>2, <2>1
<1>. QED
  BY <1>2, <1>4, <1>5 DEF PartOf, R, n, ReadableParts

(***************************************************************************)
(* A snapshot has the tip of the first call.                               *)
(***************************************************************************)
LEMMA ObservedTip ==
  ASSUME NEW calls, NEW contents, NEW accounts, NEW from, NEW dropped, NEW network,
         NEW s \in Observe(network, calls, contents, accounts, from, dropped)
  PROVE  s.tip = Len(calls[1])
BY DEF Observe
-----------------------------------------------------------------------------
\* The block at g is there in every answer.
BlockIs(calls, before, txs, g) ==
  /\ g \in Nat /\ g # 0
  /\ \A m \in Nat \ {0} :
       calls[m] \in Chains(txs) /\ g \in DOMAIN calls[m] /\ calls[m][g] = before[g]
  /\ before[g] \in Seq(txs)

(***************************************************************************)
(* A block that two chains have in common is there whatever call is asked. *)
(***************************************************************************)
LEMMA WithinIs ==
  ASSUME NEW txs, NEW addresses, NEW holders, NEW calls, NEW before, NEW after,
         NEW contents, NEW accounts,
         Asking(calls, before, after, contents, accounts, txs, addresses, holders),
         NEW from, NEW first, NEW g, Within(calls, before, after, from, first, g)
  PROVE  BlockIs(calls, before, txs, g)
<1>1. Answered(calls, before, after, txs)
  BY DEF Asking
<1>2. Throughout(calls, before, after, txs)
  BY <1>1, CommonBlocks
<1>3. g \in Nat /\ g >= 1 /\ g <= Common(before, after)
  <2>1. from \in Nat /\ first = Max({from, 1}) /\ first \in Nat
        /\ g \in Nat /\ first <= g /\ g <= Common(before, after)
    BY DEF Within
  <2>2. first = IF from >= 1 THEN from ELSE 1
    BY <2>1, GreaterOfTwo
  <2>. QED
    BY <2>1, <2>2
<1>4. g \in 1 .. Common(before, after)
  BY <1>2, <1>3 DEF Throughout
<1>5. 1 \in Nat \ {0}
  OBVIOUS
<1>6. before[g] \in Seq(txs)
  <2>1. calls[1] \in Seq(Seq(txs)) /\ g \in 1 .. Len(calls[1]) /\ calls[1][g] = before[g]
    BY <1>2, <1>4, <1>5 DEF Throughout
  <2>. QED
    BY <2>1, ElementOfSeq
<1>7. ASSUME NEW m \in Nat \ {0}
      PROVE  calls[m] \in Chains(txs) /\ g \in DOMAIN calls[m] /\ calls[m][g] = before[g]
  BY <1>2, <1>4 DEF Throughout
<1>. QED
  BY <1>3, <1>6, <1>7 DEF BlockIs

(***************************************************************************)
(* A snapshot has the deposits of a block that was there throughout.       *)
(***************************************************************************)
LEMMA BlocksAgree ==
  ASSUME NEW txs, NEW addresses, NEW holders, NEW calls, NEW before, NEW after,
         NEW contents, NEW accounts,
         Asking(calls, before, after, contents, accounts, txs, addresses, holders),
         NEW from, NEW first, NEW g, Within(calls, before, after, from, first, g),
         DOMAIN accounts # {}, NEW dropped, NEW listed, NEW heights, NEW deposits,
         listed = Listed(calls, contents, accounts, from),
         Snaps(calls, contents, accounts, dropped, listed, heights, deposits)
  PROVE  Select(deposits, {d \in ReadableIn(txs, holders) : d.height = g})
           = PaidInBlock(before, contents, accounts, g)
<1> DEFINE R == ReadableIn(txs, holders)
           D == Snapped(txs, holders)
           U == {d \in R : d.height = g}
           image == PaidIn(before, contents, accounts, txs, g)
           PartOf(i) == Part(contents, accounts, listed, heights, i)
           n == Len(listed)
           parts == [i \in 1 .. n |-> PartOf(i)]
           kept == [i \in 1 .. n |-> Select(PartOf(i), U)]
<1>1. /\ listed \in Seq(txs) /\ n \in Nat
      /\ \A holder, f :
           /\ Maps(f, txs, Seq(holder))
           /\ \A tx \in txs \ Paying(contents, DOMAIN accounts) : f[tx] = << >>
           /\ \A tx \in txs \ Range(before[g]) : f[tx] = << >>
           => Images(f, listed) = Images(f, before[g])
  <2>1. /\ listed \in Seq(txs)
        /\ \A holder, f :
             /\ Maps(f, txs, Seq(holder))
             /\ \A tx \in txs \ Paying(contents, DOMAIN accounts) : f[tx] = << >>
             /\ \A tx \in txs \ Range(before[g]) : f[tx] = << >>
             => Images(f, listed) = Images(f, before[g])
    BY ListedAre
  <2>. QED
    BY <2>1, LenProperties
<1>2. BlockIs(calls, before, txs, g)
  BY WithinIs
<1>3. /\ \A i \in 1 .. n : PartOf(i) \in Seq(R) /\ \A d \in ToSet(PartOf(i)) : d.height = heights[i]
      /\ deposits \in Seq(R)
  <2>1. ReadableParts(contents, accounts, listed, heights, deposits, txs, holders)
    BY <1>1, PartsAre
  <2>. QED
    BY <2>1 DEF ReadableParts
<1>4. /\ Maps(image, txs, Seq(D))
      /\ \A tx \in txs \ Paying(contents, DOMAIN accounts) : image[tx] = << >>
      /\ \A tx \in txs \ Range(before[g]) : image[tx] = << >>
      /\ PaidInBlock(before, contents, accounts, g) = Images(image, before[g])
  BY <1>2, PaidInIs DEF BlockIs
<1>5. deposits = FlattenSeq(parts)
  BY DEF Snaps, Part
<1>6. Images(image, listed) = PaidInBlock(before, contents, accounts, g)
  <2> HIDE DEF image, D
  <2>. QED
    BY <1>1, <1>4
<1>7. ASSUME NEW i \in 1 .. n PROVE Select(PartOf(i), U) = image[listed[i]]
  <2> DEFINE tx == listed[i]
  <2>1. /\ tx \in txs /\ heights[i] \in RawHeight(calls[2 + i], tx, dropped)
        /\ 2 + i \in Nat \ {0}
    BY <1>1, ElementOfSeq DEF Snaps
  <2>2. calls[2 + i] \in Chains(txs) /\ g \in DOMAIN calls[2 + i] /\ calls[2 + i][g] = before[g]
    BY <1>2, <2>1 DEF BlockIs
  <2>3. /\ heights[i] # 0 => tx \in Range(calls[2 + i][heights[i]])
        /\ tx \in Range(before[g]) => RawHeight(calls[2 + i], tx, dropped) = {g}
    <3> DEFINE call == calls[2 + i]
    <3> HIDE DEF call, tx
    <3>1. call \in Chains(txs) /\ g \in DOMAIN call /\ call[g] = before[g]
          /\ heights[i] \in RawHeight(call, tx, dropped)
      BY <2>1, <2>2 DEF call
    <3>2. /\ \A h \in RawHeight(call, tx, dropped) :
               h \in Nat /\ (h # 0 => h \in DOMAIN call /\ tx \in Range(call[h]))
          /\ \A h \in DOMAIN call : tx \in Range(call[h]) => RawHeight(call, tx, dropped) = {h}
      BY <3>1, HeightsAre
    <3>. QED
      BY <3>1, <3>2 DEF call
  <2>4. PartOf(i) \in Seq(R) /\ \A d \in ToSet(PartOf(i)) : d.height = heights[i] /\ d \in R
    BY <1>3, EntriesAre
  <2>5. image[tx] = IF tx \in Range(before[g]) THEN DepositsOf(tx, contents[tx], accounts, g)
                    ELSE << >>
    BY <2>1 DEF PaidIn
  <2>6. CASE heights[i] = g
    <3>1. tx \in Range(before[g])
      BY <1>2, <2>2, <2>3, <2>6 DEF BlockIs
    <3>2. ToSet(PartOf(i)) \subseteq U
      BY <2>4, <2>6
    <3>3. Select(PartOf(i), U) = PartOf(i)
      <4> HIDE DEF U, PartOf, R
      <4>. QED
        BY <2>4, <3>2, SelectAll
    <3>4. PartOf(i) = DepositsOf(tx, contents[tx], accounts, g)
      BY <2>6 DEF Part
    <3>. QED
      BY <2>5, <3>1, <3>3, <3>4
  <2>7. CASE heights[i] # g
    <3>1. tx \notin Range(before[g])
      BY <2>1, <2>3, <2>7
    <3>2. ToSet(PartOf(i)) \cap U = {}
      BY <2>4, <2>7
    <3>3. Select(PartOf(i), U) = << >>
      <4> HIDE DEF U, PartOf, R
      <4>. QED
        BY <2>4, <3>2, SelectNone
    <3>. QED
      BY <2>5, <3>1, <3>3
  <2>. QED
    BY <2>6, <2>7
<1> HIDE DEF R, U, image, PartOf, n
<1>8. parts \in Seq(Seq(R)) /\ Len(parts) = n
  <2>1. parts \in [1 .. n -> Seq(R)]
    BY <1>3
  <2> HIDE DEF parts
  <2>. QED
    BY <1>1, <2>1, FunctionIsSequence
<1>9. Select(deposits, U) = FlattenSeq(kept)
  <2>1. Select(FlattenSeq(parts), U)
          = FlattenSeq([i \in 1 .. Len(parts) |-> Select(parts[i], U)])
    <3> HIDE DEF parts
    <3>. QED
      BY <1>8, SelectFlatten
  <2>2. [i \in 1 .. Len(parts) |-> Select(parts[i], U)] = kept
    BY <1>8
  <2>. QED
    BY <1>5, <2>1, <2>2
<1>10. kept = Mapped(image, listed)
  BY <1>7 DEF Mapped, n
<1>. QED
  BY <1>6, <1>9, <1>10 DEF Images, U, R

(***************************************************************************)
(* It has none of an earlier block than the first that was asked for.      *)
(***************************************************************************)
LEMMA NoneEarlier ==
  ASSUME NEW txs, NEW addresses, NEW holders, NEW calls, NEW before, NEW after,
         NEW contents, NEW accounts,
         Asking(calls, before, after, contents, accounts, txs, addresses, holders),
         NEW from, NEW first, NEW g, Within(calls, before, after, from, first, g),
         DOMAIN accounts # {}, NEW dropped, NEW listed, NEW heights, NEW deposits,
         listed = Listed(calls, contents, accounts, from),
         Snaps(calls, contents, accounts, dropped, listed, heights, deposits)
  PROVE  \A d \in ToSet(deposits) : d.height = 0 \/ first <= d.height
<1>1. /\ listed \in Seq(txs)
      /\ \A tx \in ToSet(listed) : \E k \in DOMAIN calls[2] : first <= k /\ tx \in Range(calls[2][k])
  BY ListedAre
<1>2. \A d \in ToSet(deposits) : \E i \in 1 .. Len(listed) : d.height = heights[i]
  <2>1. ReadableParts(contents, accounts, listed, heights, deposits, txs, holders)
    BY <1>1, PartsAre
  <2>. QED
    BY <2>1 DEF ReadableParts
<1>3. SUFFICES ASSUME NEW i \in 1 .. Len(listed), heights[i] # 0, ~ (first <= heights[i])
               PROVE  FALSE
  BY <1>2
<1> DEFINE tx == listed[i]
           j == heights[i]
<1>4. /\ first \in Nat /\ g \in Nat /\ first <= g /\ g <= Common(before, after)
      /\ Len(listed) \in Nat
  BY <1>1, LenProperties DEF Within
<1>5. /\ tx \in ToSet(listed) /\ j \in Nat
      /\ j \in RawHeight(calls[2 + i], tx, dropped) /\ 2 + i \in Nat \ {0}
  BY <1>1, LenProperties DEF Snaps, ToSet
<1>6. Throughout(calls, before, after, txs)
  <2>1. Answered(calls, before, after, txs)
    BY DEF Asking
  <2>. QED
    BY <2>1, CommonBlocks
<1> HIDE DEF tx, j
<1>7. tx \in Range(calls[2 + i][j])
  <2>1. calls[2 + i] \in Chains(txs)
    BY <1>5, <1>6 DEF Throughout
  <2>2. \A h \in RawHeight(calls[2 + i], tx, dropped) :
          h \in Nat /\ (h # 0 => h \in DOMAIN calls[2 + i] /\ tx \in Range(calls[2 + i][h]))
    BY <2>1, HeightsAre
  <2>. QED
    BY <1>3, <1>5, <2>2 DEF j
<1>8. j \in 1 .. Common(before, after) /\ j < first
  BY <1>3, <1>4, <1>5, <1>6 DEF j, Throughout
<1>9. j \in DOMAIN calls[2] /\ tx \in Range(calls[2][j]) /\ calls[2] \in Chains(txs)
  <2>1. 2 \in Nat \ {0}
    OBVIOUS
  <2>2. calls[2 + i][j] = before[j]
    BY <1>5, <1>6, <1>8 DEF Throughout
  <2>3. j \in DOMAIN calls[2] /\ calls[2][j] = before[j] /\ calls[2] \in Chains(txs)
    BY <1>6, <1>8, <2>1 DEF Throughout
  <2>. QED
    BY <1>7, <2>2, <2>3
<1>10. PICK k \in DOMAIN calls[2] : first <= k /\ tx \in Range(calls[2][k])
  BY <1>1, <1>5
<1>11. j = k
  BY <1>9, <1>10 DEF Chains
<1>. QED
  BY <1>4, <1>5, <1>8, <1>10, <1>11
-----------------------------------------------------------------------------
\* The deposits are those of the blocks from first through h, and others at 0 or above h.
Made(S, deposits, first, h, blocks) ==
  /\ \A e \in S : e.amount \in Nat /\ e.height \in Nat
  /\ deposits \in Seq(S)
  /\ first \in Nat /\ h \in Nat /\ first >= 1 /\ first <= h
  /\ blocks \in [first .. h -> Seq(S)]
  /\ \A k \in first .. h : Select(deposits, {d \in S : d.height = k}) = blocks[k]
  /\ \A d \in ToSet(deposits) : d.height = 0 \/ first <= d.height

(***************************************************************************)
(* If the deposits at each height are those of a block, and none is at an  *)
(* earlier height than the first block's but 0, then a balance is what the *)
(* blocks add up to and what is at 0.                                      *)
(***************************************************************************)
LEMMA BalanceOfBlocks ==
  ASSUME NEW S, NEW deposits, NEW first, NEW h, NEW blocks, Made(S, deposits, first, h, blocks)
  PROVE  Total(Select(deposits, {d \in S : d.height <= h}))
           = Total(FlattenSeq([k \in 1 .. h - first + 1 |-> blocks[first + k - 1]]))
               + Total(Select(deposits, {d \in S : d.height = 0}))
<1>0. /\ \A e \in S : e.amount \in Nat /\ e.height \in Nat
      /\ deposits \in Seq(S)
      /\ first \in Nat /\ h \in Nat /\ first >= 1 /\ first <= h
      /\ blocks \in [first .. h -> Seq(S)]
      /\ \A k \in first .. h : Select(deposits, {d \in S : d.height = k}) = blocks[k]
      /\ \A d \in ToSet(deposits) : d.height = 0 \/ first <= d.height
  BY DEF Made
<1> USE <1>0
<1> DEFINE n == h - first + 1
           Zero == {d \in S : d.height = 0}
           AtHeight(k) == {d \in S : d.height = k}
           Upto(m) == {d \in S : d.height = 0 \/ (first <= d.height /\ d.height < first + m)}
           First(m) == [k \in 1 .. m |-> blocks[first + k - 1]]
           rest == Total(Select(deposits, Zero))
           V == {m \in Nat : m <= n =>
                   /\ First(m) \in Seq(Seq(S)) /\ Len(First(m)) = m
                   /\ Total(Select(deposits, Upto(m))) = Total(FlattenSeq(First(m))) + rest}
<1>1. \A T : Select(deposits, T) \in Seq(S)
  BY SelectType
<1>2. \A s \in Seq(S) : Total(s) \in Nat
  BY TotalNat
<1>3. 0 \in V
  <2>1. Upto(0) = Zero
    OBVIOUS
  <2>2. First(0) = << >>
    OBVIOUS
  <2>3. rest \in Nat
    BY <1>1, <1>2
  <2>4. << >> \in Seq(Seq(S)) /\ Len(<< >>) = 0 /\ Total(FlattenSeq(<< >>)) = 0
    BY EmptySeq, FlattenEmpty, TotalEmpty
  <2> HIDE DEF Upto, First, n
  <2>5. Total(Select(deposits, Upto(0))) = Total(FlattenSeq(First(0))) + rest
    <3>1. Total(Select(deposits, Upto(0))) = rest
      BY <2>1
    <3> HIDE DEF rest
    <3>. QED
      BY <2>2, <2>3, <2>4, <3>1
  <2> HIDE DEF rest
  <2>. QED
    BY <2>2, <2>4, <2>5
<1>4. ASSUME NEW m \in Nat, m \in V PROVE m + 1 \in V
  <2> SUFFICES ASSUME m + 1 <= n
               PROVE  /\ First(m + 1) \in Seq(Seq(S)) /\ Len(First(m + 1)) = m + 1
                      /\ Total(Select(deposits, Upto(m + 1)))
                           = Total(FlattenSeq(First(m + 1))) + rest
    OBVIOUS
  <2> DEFINE k == first + m
             A == First(m)
             B == First(m + 1)
  <2>1. /\ A \in Seq(Seq(S)) /\ Len(A) = m
        /\ Total(Select(deposits, Upto(m))) = Total(FlattenSeq(A)) + rest
    BY <1>4
  <2>2. k \in first .. h /\ \A i \in 1 .. m + 1 : first + i - 1 \in first .. h
    OBVIOUS
  <2>3. blocks[k] \in Seq(S) /\ Select(deposits, AtHeight(k)) = blocks[k]
    BY <2>2
  <2>4. B \in [1 .. m + 1 -> Seq(S)] /\ B[m + 1] = blocks[k] /\ \A i \in 1 .. m : B[i] = A[i]
    BY <2>2
  <2>5. B = Append(A, blocks[k]) /\ B \in Seq(Seq(S)) /\ Len(B) = m + 1
    <3> DEFINE P == Seq(S)
               e == blocks[k]
    <3>1. A \in Seq(P) /\ e \in P /\ B \in [1 .. m + 1 -> P] /\ B[m + 1] = e /\ m + 1 \in Nat
      BY <2>1, <2>3, <2>4
    <3> HIDE DEF A, B, P, e
    <3>2. B \in Seq(P) /\ Len(B) = m + 1
      BY <3>1, FunctionIsSequence
    <3>3. /\ Append(A, e) \in Seq(P) /\ Len(Append(A, e)) = m + 1
          /\ \A i \in 1 .. m : Append(A, e)[i] = A[i]
          /\ Append(A, e)[m + 1] = e
      BY <2>1, <3>1, AppendProperties
    <3>4. \A i \in 1 .. m + 1 : B[i] = Append(A, e)[i]
      <4>1. \A i \in 1 .. m + 1 : i \in 1 .. m \/ i = m + 1
        OBVIOUS
      <4>. QED
        BY <2>4, <3>1, <3>3, <4>1
    <3>5. B = Append(A, e)
      BY <3>2, <3>3, <3>4, SeqEqual
    <3>. QED
      BY <3>2, <3>5 DEF P, e
  <2>6. Upto(m + 1) = Upto(m) \cup AtHeight(k) /\ Upto(m) \cap AtHeight(k) = {}
    <3>1. k \in Nat /\ first <= k /\ first + (m + 1) = k + 1 /\ first + m = k
      OBVIOUS
    <3> HIDE DEF k
    <3>2. ASSUME NEW d \in S
          PROVE  /\ d \in Upto(m + 1) <=> d \in Upto(m) \/ d \in AtHeight(k)
                 /\ ~ (d \in Upto(m) /\ d \in AtHeight(k))
      <4>1. d.height \in Nat
        OBVIOUS
      <4>. QED
        BY <3>1, <4>1
    <3>3. Upto(m + 1) \subseteq S /\ Upto(m) \subseteq S /\ AtHeight(k) \subseteq S
      OBVIOUS
    <3> HIDE DEF Upto, AtHeight
    <3>. QED
      BY <3>2, <3>3
  <2> HIDE DEF Upto, AtHeight, V, k, A, B, First, n, rest
  <2>7. Total(Select(deposits, Upto(m + 1)))
          = Total(Select(deposits, Upto(m))) + Total(blocks[k])
    <3>1. \A e \in S : e.amount \in Nat
      OBVIOUS
    <3>2. \A s \in Seq(S) : Total(Select(s, Upto(m) \cup AtHeight(k)))
                             = Total(Select(s, Upto(m))) + Total(Select(s, AtHeight(k)))
      BY <2>6, <3>1, TotalUnion
    <3>. QED
      BY <2>3, <2>6, <3>2
  <2>8. Total(FlattenSeq(B)) = Total(FlattenSeq(A)) + Total(blocks[k])
    <3>1. FlattenSeq(Append(A, blocks[k])) = FlattenSeq(A) \o blocks[k] /\ FlattenSeq(A) \in Seq(S)
      BY <2>1, <2>3, FlattenAppend, FlattenType
    <3>. QED
      BY <2>3, <2>5, <3>1, TotalConcat
  <2>9. Total(FlattenSeq(A)) \in Nat /\ Total(blocks[k]) \in Nat /\ rest \in Nat
    BY <1>1, <1>2, <2>1, <2>3, FlattenType DEF rest
  <2>10. Total(Select(deposits, Upto(m + 1))) = Total(FlattenSeq(B)) + rest
    BY <2>1, <2>7, <2>8, <2>9
  <2>. QED
    BY <2>5, <2>10 DEF B
<1>5. n \in Nat
  OBVIOUS
<1> HIDE DEF V, n
<1>6. n \in V
  BY <1>3, <1>4, <1>5, NaturalInduction
<1>7. Select(deposits, {d \in S : d.height <= h}) = Select(deposits, Upto(n))
  <2>1. ToSet(deposits) \cap {d \in S : d.height <= h} = ToSet(deposits) \cap Upto(n)
    BY DEF n
  <2> HIDE DEF Upto
  <2>. QED
    BY <2>1, SelectSame
<1>. QED
  BY <1>5, <1>6, <1>7 DEF V, n

(***************************************************************************)
(* A snapshot's deposits are readable, are those of each block that was    *)
(* there throughout, and are of no earlier block than was asked for.       *)
(***************************************************************************)
LEMMA SnapshotsAre ==
  ASSUME NEW txs, NEW addresses, NEW holders, NEW calls, NEW before, NEW after,
         NEW contents, NEW accounts,
         Asking(calls, before, after, contents, accounts, txs, addresses, holders),
         NEW network, NEW from, NEW dropped,
         NEW s \in Observe(network, calls, contents, accounts, from, dropped),
         NEW first, NEW h, Within(calls, before, after, from, first, h)
  PROVE  /\ s.deposits \in Seq(ReadableIn(txs, holders))
         /\ \A g \in first .. h :
              Select(s.deposits, {d \in ReadableIn(txs, holders) : d.height = g})
                = PaidInBlock(before, contents, accounts, g)
         /\ \A d \in ToSet(s.deposits) : d.height = 0 \/ first <= d.height
<1> DEFINE R == ReadableIn(txs, holders)
           listed == Listed(calls, contents, accounts, from)
           deposits == s.deposits
<1>1. ASSUME NEW g \in first .. h PROVE Within(calls, before, after, from, first, g)
  <2>1. /\ first \in Nat /\ h \in Nat /\ h <= Len(calls[1]) /\ h <= Common(before, after)
        /\ Len(calls[1]) \in Nat /\ Common(before, after) \in Nat
    <3>1. Throughout(calls, before, after, txs) /\ 1 \in Nat \ {0}
      BY CommonBlocks DEF Asking
    <3>. QED
      BY <3>1 DEF Throughout, Within
  <2>2. g \in Nat /\ first <= g /\ g <= Len(calls[1]) /\ g <= Common(before, after)
    BY <2>1
  <2>. QED
    BY <2>2 DEF Within
<1>2. ASSUME DOMAIN accounts # {}
      PROVE  /\ deposits \in Seq(R)
             /\ \A g \in first .. h : Select(deposits, {d \in R : d.height = g})
                                      = PaidInBlock(before, contents, accounts, g)
             /\ \A d \in ToSet(deposits) : d.height = 0 \/ first <= d.height
  <2>1. listed \in Seq(txs)
    BY <1>2, ListedAre
  <2> HIDE DEF listed
  <2>2. PICK heights : Snaps(calls, contents, accounts, dropped, listed, heights, deposits)
    BY <2>1, ObservedIs DEF listed
  <2> HIDE DEF deposits, R
  <2>3. deposits \in Seq(R)
    <3>1. ReadableParts(contents, accounts, listed, heights, deposits, txs, holders)
      BY <2>1, <2>2, PartsAre
    <3>. QED
      BY <3>1 DEF ReadableParts, R
  <2>4. ASSUME NEW g \in first .. h
        PROVE  Select(deposits, {d \in R : d.height = g}) = PaidInBlock(before, contents, accounts, g)
    <3>1. Within(calls, before, after, from, first, g)
      BY <1>1
    <3>. QED
      BY <1>2, <2>2, <3>1, BlocksAgree DEF listed, R
  <2>5. \A d \in ToSet(deposits) : d.height = 0 \/ first <= d.height
    BY <1>2, <2>2, NoneEarlier DEF listed
  <2>. QED
    BY <2>3, <2>4, <2>5
<1>3. ASSUME DOMAIN accounts = {}
      PROVE  /\ deposits \in Seq(R)
             /\ \A g \in first .. h : Select(deposits, {d \in R : d.height = g})
                                      = PaidInBlock(before, contents, accounts, g)
             /\ \A d \in ToSet(deposits) : d.height = 0 \/ first <= d.height
  <2>1. listed = << >> /\ listed \in Seq(txs)
    BY <1>3, EmptySeq DEF Listed
  <2> HIDE DEF listed
  <2>2. PICK heights : Snaps(calls, contents, accounts, dropped, listed, heights, deposits)
    BY <2>1, ObservedIs DEF listed
  <2> HIDE DEF deposits, R
  <2>3. deposits = << >>
    <3> DEFINE none == [i \in 1 .. Len(listed) |->
                         DepositsOf(listed[i], contents[listed[i]], accounts, heights[i])]
    <3>1. deposits = FlattenSeq(none)
      BY <2>2 DEF Snaps
    <3>2. none = << >>
      BY <2>1
    <3> HIDE DEF none
    <3>. QED
      BY <3>1, <3>2, FlattenEmpty
  <2>4. ASSUME NEW g \in first .. h PROVE PaidInBlock(before, contents, accounts, g) = << >>
    <3> DEFINE image == PaidIn(before, contents, accounts, txs, g)
    <3>1. g \in Nat /\ before[g] \in Seq(txs)
      <4>1. Within(calls, before, after, from, first, g)
        BY <1>1
      <4>2. BlockIs(calls, before, txs, g)
        BY <4>1, WithinIs
      <4>. QED
        BY <4>2 DEF BlockIs
    <3>2. /\ Maps(image, txs, Seq(Snapped(txs, holders)))
          /\ \A tx \in txs \ Paying(contents, DOMAIN accounts) : image[tx] = << >>
          /\ PaidInBlock(before, contents, accounts, g) = Images(image, before[g])
      BY <3>1, PaidInIs
    <3>3. Paying(contents, DOMAIN accounts) = {}
      BY <1>3 DEF Paying
    <3> HIDE DEF image
    <3>4. \A tx \in ToSet(before[g]) : image[tx] = << >>
      BY <3>1, <3>2, <3>3, EntriesAre
    <3>5. Images(image, before[g]) = << >>
      BY <3>1, <3>2, <3>4, ImagesNone
    <3>. QED
      BY <3>2, <3>5
  <2>. QED
    BY <2>3, <2>4, SelectEmpty, EmptySeq, EntriesOfNone
<1>. QED
  BY <1>2, <1>3

(***************************************************************************)
(* Whatever the chain does while a node is asked, and however long it is,  *)
(* a snapshot has the deposits of every block that was there throughout,   *)
(* and its balances are theirs and that of what lost its block (zebra.rs). *)
(***************************************************************************)
THEOREM SnapshotsAreOfTheChain ==
  ASSUME NEW txs, NEW addresses, NEW holders, NEW calls, NEW before, NEW after,
         NEW contents, NEW accounts,
         Asking(calls, before, after, contents, accounts, txs, addresses, holders),
         NEW network, NEW from \in Nat, NEW dropped
  PROVE  SnapshotIsOfTheChain(network, calls, before, after, contents, accounts, from, dropped)
<1> DEFINE first == Max({from, 1})
           top == Min({Len(calls[1]), Common(before, after)})
           R == ReadableIn(txs, holders)
           PaidBy(k) == PaidInBlock(before, contents, accounts, k)
<1>1. Throughout(calls, before, after, txs)
  BY CommonBlocks DEF Asking
<1>2. first \in Nat /\ first >= 1
  <2>1. first = IF from >= 1 THEN from ELSE 1
    BY GreaterOfTwo
  <2>. QED
    BY <2>1
<1>3. /\ top \in Nat /\ top <= Len(calls[1]) /\ top <= Common(before, after)
      /\ Common(before, after) \in Nat /\ Len(calls[1]) \in Nat
  <2>1. Len(calls[1]) \in Nat /\ Common(before, after) \in Nat
    BY <1>1 DEF Throughout
  <2>2. top = IF Len(calls[1]) <= Common(before, after) THEN Len(calls[1]) ELSE Common(before, after)
    <3>1. Len(calls[1]) \in Int /\ Common(before, after) \in Int
      BY <2>1
    <3>. QED
      BY <3>1, LesserOfTwo, Zenon
  <2>. QED
    BY <2>1, <2>2
<1>4. ASSUME NEW s \in Observe(network, calls, contents, accounts, from, dropped),
             NEW h \in first .. Min({s.tip, Common(before, after)})
      PROVE  /\ DepositsAt(s, h) = PaidBy(h)
             /\ BalanceAt(s, h)
                  = {Total(FlattenSeq([k \in 1 .. h - first + 1 |-> PaidBy(first + k - 1)]))
                       + Total(DepositsAt(s, 0))}
  <2> DEFINE deposits == s.deposits
             Block(k) == PaidInBlock(before, contents, accounts, k)
             blocks == [k \in first .. h |-> Block(k)]
  <2>1. s.tip = Len(calls[1])
    BY ObservedTip
  <2>2. h \in Nat /\ first <= h /\ h <= s.tip /\ Within(calls, before, after, from, first, h)
    <3>1. h \in first .. top
      BY <2>1
    <3> HIDE DEF first, top
    <3>2. h \in Nat /\ first <= h /\ h <= Len(calls[1]) /\ h <= Common(before, after)
      BY <1>2, <1>3, <3>1
    <3>. QED
      BY <1>2, <2>1, <3>2 DEF Within, first
  <2> HIDE DEF first, R
  <2>3. /\ deposits \in Seq(R)
        /\ \A g \in first .. h : Select(deposits, {d \in R : d.height = g}) = Block(g)
        /\ \A d \in ToSet(deposits) : d.height = 0 \/ first <= d.height
    BY <2>2, SnapshotsAre DEF R
  <2> HIDE DEF deposits, Block
  <2>4. ToSet(deposits) \subseteq R /\ \A d \in R : d.amount \in Nat /\ d.height \in Nat
    BY <2>3, EntriesAre DEF R, ReadableIn, Snapped
  <2>5. ASSUME NEW g
        PROVE  DepositsAt(s, g) = Select(deposits, {d \in R : d.height = g})
    <3>1. ToSet(deposits) \cap {d \in ToSet(deposits) : d.height = g}
            = ToSet(deposits) \cap {d \in R : d.height = g}
      BY <2>4
    <3>. QED
      BY <2>3, <3>1, SelectSame DEF DepositsAt, deposits
  <2>6. BalanceAt(s, h) = {Total(Select(deposits, {d \in R : d.height <= h}))}
    <3>1. ToSet(deposits) \cap {d \in ToSet(deposits) : d.height <= h}
            = ToSet(deposits) \cap {d \in R : d.height <= h}
      BY <2>4
    <3>2. Select(deposits, {d \in ToSet(deposits) : d.height <= h})
            = Select(deposits, {d \in R : d.height <= h})
      BY <2>3, <3>1, SelectSame
    <3>3. ~ (h > s.tip)
      BY <1>3, <2>1, <2>2
    <3>. QED
      BY <3>2, <3>3 DEF BalanceAt, deposits
  <2>7. ASSUME NEW k \in first .. h PROVE Block(k) \in Seq(R)
    BY <2>3, SelectType
  <2>8. blocks \in [first .. h -> Seq(R)] /\ \A k \in first .. h : blocks[k] = Block(k)
    BY <2>7
  <2>9. [k \in 1 .. h - first + 1 |-> blocks[first + k - 1]]
          = [k \in 1 .. h - first + 1 |-> Block(first + k - 1)]
    <3>1. \A k \in 1 .. h - first + 1 : first + k - 1 \in first .. h
      BY <1>2, <2>2 DEF first
    <3>. QED
      BY <2>8, <3>1
  <2> HIDE DEF blocks
  <2>10. Total(Select(deposits, {d \in R : d.height <= h}))
           = Total(FlattenSeq([k \in 1 .. h - first + 1 |-> blocks[first + k - 1]]))
               + Total(Select(deposits, {d \in R : d.height = 0}))
    <3>1. first \in Nat /\ first >= 1
      BY <1>2 DEF first
    <3>2. \A k \in first .. h : Select(deposits, {d \in R : d.height = k}) = blocks[k]
      BY <2>3, <2>8
    <3>3. Made(R, deposits, first, h, blocks)
      BY <2>2, <2>3, <2>4, <2>8, <3>1, <3>2 DEF Made
    <3>. QED
      BY <3>3, BalanceOfBlocks
  <2>11. h \in first .. h
    BY <1>2, <2>2 DEF first
  <2>12. DepositsAt(s, h) = Block(h)
    BY <2>3, <2>5, <2>11
  <2>13. BalanceAt(s, h)
           = {Total(FlattenSeq([k \in 1 .. h - first + 1 |-> Block(first + k - 1)]))
                + Total(DepositsAt(s, 0))}
    BY <2>5, <2>6, <2>9, <2>10
  <2>. QED
    BY <2>12, <2>13 DEF Block
<1>. QED
  BY <1>4 DEF SnapshotIsOfTheChain, PaidInBlock
-----------------------------------------------------------------------------
(***************************************************************************)
(* Messages.  What bytes hold after the first `at` of their fields; the    *)
(* fields of values V, their counts numbers; and where the first i of      *)
(* several parts end when they are put together.                           *)
(***************************************************************************)
Holds(bytes, at, part) ==
  /\ at \in Nat /\ Len(bytes) \in Nat /\ Len(part) \in Nat
  /\ at + Len(part) <= Len(bytes)
  /\ \A j \in 1 .. Len(part) : bytes[at + j] = part[j]

FieldKinds == {"op", "u8", "u32", "u64", "b32", "string16", "string32", "magic", "output"}
FieldsOf(V) == {f \in [kind : FieldKinds, v : V] : f.kind = "u32" => f.v \in Nat}

Ends(parts, i) == Len(FlattenSeq([k \in 1 .. i |-> parts[k]]))

(***************************************************************************)
(* A string holds itself.                                                  *)
(***************************************************************************)
LEMMA HoldsItself ==
  ASSUME NEW S, NEW s \in Seq(S)
  PROVE  Holds(s, 0, s)
BY LenProperties DEF Holds

(***************************************************************************)
(* What holds two parts in a row holds each.                               *)
(***************************************************************************)
LEMMA HoldsParts ==
  ASSUME NEW S, NEW s \in Seq(S), NEW t \in Seq(S), NEW bytes, NEW at, Holds(bytes, at, s \o t)
  PROVE  Holds(bytes, at, s) /\ Holds(bytes, at + Len(s), t)
<1>1. /\ Len(s) \in Nat /\ Len(t) \in Nat /\ Len(s \o t) = Len(s) + Len(t)
      /\ \A i \in 1 .. Len(s) + Len(t) :
           (s \o t)[i] = IF i <= Len(s) THEN s[i] ELSE t[i - Len(s)]
  BY ConcatProperties, LenProperties
<1>2. /\ at \in Nat /\ Len(bytes) \in Nat /\ at + (Len(s) + Len(t)) <= Len(bytes)
      /\ \A j \in 1 .. Len(s) + Len(t) : bytes[at + j] = (s \o t)[j]
  BY <1>1 DEF Holds
<1>3. ASSUME NEW j \in 1 .. Len(s) PROVE bytes[at + j] = s[j]
  BY <1>1, <1>2
<1>4. ASSUME NEW j \in 1 .. Len(t) PROVE bytes[(at + Len(s)) + j] = t[j]
  <2>1. /\ Len(s) + j \in 1 .. Len(s) + Len(t) /\ ~(Len(s) + j <= Len(s))
        /\ (Len(s) + j) - Len(s) = j /\ at + (Len(s) + j) = (at + Len(s)) + j
    BY <1>1, <1>2
  <2>. QED
    BY <1>1, <1>2, <2>1
<1>. QED
  BY <1>1, <1>2, <1>3, <1>4 DEF Holds

(***************************************************************************)
(* Where parts end: the first where the flattening begins, each where the  *)
(* one before it did and its own length on, the last with the flattening.  *)
(***************************************************************************)
LEMMA EndsAre ==
  ASSUME NEW S, NEW parts \in Seq(Seq(S))
  PROVE  /\ Ends(parts, 0) = 0
         /\ Ends(parts, Len(parts)) = Len(FlattenSeq(parts))
         /\ \A i \in 0 .. Len(parts) : Ends(parts, i) \in Nat
         /\ \A i \in 1 .. Len(parts) : Ends(parts, i) = Ends(parts, i - 1) + Len(parts[i])
<1> DEFINE P == Seq(S)
           first(i) == [k \in 1 .. i |-> parts[k]]
<1>1. /\ Len(parts) \in Nat /\ parts = [k \in 1 .. Len(parts) |-> parts[k]]
      /\ \A k \in 1 .. Len(parts) : parts[k] \in P
  BY LenProperties, ElementOfSeq
<1>2. \A i \in 0 .. Len(parts) :
        first(i) \in [1 .. i -> P] /\ \A k \in 1 .. i : first(i)[k] = parts[k]
  BY <1>1
<1>3. first(0) = << >> /\ first(Len(parts)) = parts
  BY <1>1
<1>4. \A i : Ends(parts, i) = Len(FlattenSeq(first(i)))
  BY Zenon DEF Ends
<1> HIDE DEF P, first
<1>5. \A i \in 0 .. Len(parts) : first(i) \in Seq(P) /\ Len(first(i)) = i
  BY <1>1, <1>2, FunctionIsSequence
<1>6. ASSUME NEW i \in 1 .. Len(parts) PROVE first(i) = Append(first(i - 1), parts[i])
  <2>1. i - 1 \in 0 .. Len(parts) /\ i \in 0 .. Len(parts) /\ i \in Nat
    BY <1>1
  <2>2. /\ Append(first(i - 1), parts[i]) \in Seq(P)
        /\ Len(Append(first(i - 1), parts[i])) = (i - 1) + 1
        /\ \A k \in 1 .. i - 1 : Append(first(i - 1), parts[i])[k] = first(i - 1)[k]
        /\ Append(first(i - 1), parts[i])[(i - 1) + 1] = parts[i]
    BY <1>1, <1>5, <2>1, AppendProperties
  <2>3. ASSUME NEW k \in 1 .. i PROVE Append(first(i - 1), parts[i])[k] = first(i)[k]
    <3>1. k \in 1 .. i - 1 \/ k = (i - 1) + 1
      BY <2>1
    <3>. QED
      BY <1>2, <2>1, <2>2, <3>1
  <2>4. Len(first(i)) = i /\ first(i) \in Seq(P) /\ (i - 1) + 1 = i
    BY <1>5, <2>1
  <2>. QED
    BY <2>2, <2>3, <2>4, SeqEqual
<1>7. \A i \in 0 .. Len(parts) : FlattenSeq(first(i)) \in Seq(S)
  BY <1>5, FlattenType DEF P
<1>8. \A i \in 0 .. Len(parts) : Ends(parts, i) \in Nat
  BY <1>4, <1>7, LenProperties
<1>9. ASSUME NEW i \in 1 .. Len(parts)
      PROVE  Ends(parts, i) = Ends(parts, i - 1) + Len(parts[i])
  <2>1. i - 1 \in 0 .. Len(parts)
    BY <1>1
  <2>2. first(i - 1) \in Seq(Seq(S)) /\ parts[i] \in Seq(S)
    BY <1>1, <1>5, <2>1 DEF P
  <2>3. FlattenSeq(first(i)) = FlattenSeq(first(i - 1)) \o parts[i]
    BY <1>6, <2>2, FlattenAppend
  <2>4. Len(FlattenSeq(first(i - 1)) \o parts[i]) = Len(FlattenSeq(first(i - 1))) + Len(parts[i])
    BY <1>7, <2>1, <2>2, ConcatProperties
  <2>. QED
    BY <1>4, <2>3, <2>4, Zenon
<1>10. Ends(parts, 0) = 0
  <2>1. Len(<< >>) = 0
    BY EmptySeq
  <2>. QED
    BY <1>3, <1>4, <2>1, FlattenEmpty
<1>11. Ends(parts, Len(parts)) = Len(FlattenSeq(parts))
  BY <1>3, <1>4
<1>. QED
  BY <1>8, <1>9, <1>10, <1>11

(***************************************************************************)
(* What holds several parts put together holds each, where the one before  *)
(* it ends.                                                                *)
(***************************************************************************)
LEMMA HoldsEach ==
  ASSUME NEW S, NEW parts \in Seq(Seq(S)), NEW bytes, NEW at,
         Holds(bytes, at, FlattenSeq(parts)), NEW i \in 1 .. Len(parts)
  PROVE  Holds(bytes, at + Ends(parts, i - 1), parts[i])
<1> DEFINE P == Seq(S)
           n == Len(parts)
           m == n - (i - 1)
           before == [k \in 1 .. i - 1 |-> parts[k]]
           after == [k \in 1 .. m |-> parts[(i - 1) + k]]
           later == [k \in 1 .. m - 1 |-> parts[i + k]]
<1>1. /\ n \in Nat /\ m \in Nat /\ m >= 1 /\ i - 1 \in Nat /\ m - 1 \in Nat
      /\ (i - 1) + m = n /\ 1 + (m - 1) = m
      /\ parts \in [1 .. n -> P]
  BY LenProperties
<1>2. before \in [1 .. i - 1 -> P] /\ after \in [1 .. m -> P] /\ later \in [1 .. m - 1 -> P]
  BY <1>1
<1>3. before \in Seq(Seq(S)) /\ after \in Seq(Seq(S)) /\ later \in Seq(Seq(S))
  BY <1>1, <1>2, FunctionIsSequence
<1>4. FlattenSeq(parts) = FlattenSeq(before) \o FlattenSeq(after)
  <2> HIDE DEF m, n
  <2>1. parts \in [1 .. (i - 1) + m -> Seq(S)] /\ i - 1 \in Nat /\ m \in Nat
    BY <1>1
  <2> HIDE DEF before, after
  <2>2. \A a, b \in Nat : \A f \in [1 .. a + b -> Seq(S)] :
          FlattenSeq(f) = FlattenSeq([k \in 1 .. a |-> f[k]])
                            \o FlattenSeq([k \in 1 .. b |-> f[a + k]])
    BY FlattenSplit
  <2>. QED
    BY <2>1, <2>2, Zenon DEF before, after
<1>5. FlattenSeq(after) = parts[i] \o FlattenSeq(later)
  <2>0. /\ \A k \in 1 .. m - 1 : after[1 + k] = parts[i + k]
        /\ after[1] = parts[i]
    BY <1>1
  <2>1. /\ [k \in 1 .. m - 1 |-> after[1 + k]] = later
        /\ [k \in 1 .. 1 |-> after[k]] = <<parts[i]>>
    BY <2>0
  <2>2. FlattenSeq(<<parts[i]>>) = parts[i]
    BY FlattenSingle
  <2>3. after \in [1 .. 1 + (m - 1) -> Seq(S)]
    BY <1>1, <1>2
  <2> HIDE DEF after, later, m, n
  <2>4. FlattenSeq(after) = FlattenSeq([k \in 1 .. 1 |-> after[k]])
                              \o FlattenSeq([k \in 1 .. m - 1 |-> after[1 + k]])
    <3>1. \A a, b \in Nat : \A f \in [1 .. a + b -> Seq(S)] :
            FlattenSeq(f) = FlattenSeq([k \in 1 .. a |-> f[k]])
                              \o FlattenSeq([k \in 1 .. b |-> f[a + k]])
      BY FlattenSplit
    <3>2. 1 \in Nat /\ m - 1 \in Nat
      BY <1>1
    <3>. QED
      BY <2>3, <3>1, <3>2, Zenon
  <2>. QED
    BY <2>1, <2>2, <2>4
<1>6. /\ FlattenSeq(before) \in Seq(S) /\ FlattenSeq(after) \in Seq(S)
      /\ FlattenSeq(later) \in Seq(S) /\ parts[i] \in Seq(S)
  BY <1>3, FlattenType, ElementOfSeq
<1>7. Ends(parts, i - 1) = Len(FlattenSeq(before))
  BY Zenon DEF Ends
<1> HIDE DEF before, after, later, n, m
<1>8. Holds(bytes, at + Len(FlattenSeq(before)), FlattenSeq(after))
  BY <1>4, <1>6, HoldsParts
<1>. QED
  BY <1>5, <1>6, <1>7, <1>8, HoldsParts

(***************************************************************************)
(* Records of these kinds, in fields of S; values V that have numbers.     *)
(***************************************************************************)
Numbers(V) == Nat \subseteq V /\ "ZECCB1" \in V

AreRecords(records, kinds, S) ==
  /\ kinds \in Seq(FieldKinds) /\ records \in Seq(Seq(S))
  /\ \A i \in 1 .. Len(records) :
       /\ Len(records[i]) = Len(kinds)
       /\ \A j \in 1 .. Len(kinds) : records[i][j].kind = kinds[j]

(***************************************************************************)
(* Records of the same kinds end at multiples of their length.             *)
(***************************************************************************)
LEMMA RecordsEnd ==
  ASSUME NEW S, NEW kinds, NEW records, AreRecords(records, kinds, S)
  PROVE  \A i \in 0 .. Len(records) : Ends(records, i) = Len(kinds) * i
<1> DEFINE w == Len(kinds)
           n == Len(records)
           T == {i \in Nat : i <= n => Ends(records, i) = w * i}
<1>1. w \in Nat /\ n \in Nat /\ records \in Seq(Seq(S))
  BY LenProperties DEF AreRecords
<1>2. /\ Ends(records, 0) = 0
      /\ \A i \in 1 .. n : Ends(records, i) = Ends(records, i - 1) + Len(records[i])
  BY <1>1, EndsAre
<1>3. \A i \in 1 .. n : Len(records[i]) = w
  BY DEF AreRecords
<1> HIDE DEF w, n
<1>4. 0 \in T
  BY <1>1, <1>2
<1>5. ASSUME NEW i \in Nat, i \in T PROVE i + 1 \in T
  <2>1. CASE i + 1 <= n
    <3>1. i + 1 \in 1 .. n /\ (i + 1) - 1 = i /\ Ends(records, i) = w * i
      BY <1>1, <1>5, <2>1
    <3>2. Ends(records, i + 1) = w * i + w
      BY <1>2, <1>3, <3>1
    <3>3. w * i + w = w * (i + 1)
      BY <1>1
    <3>. QED
      BY <3>2, <3>3
  <2>2. CASE ~(i + 1 <= n)
    BY <2>2
  <2>. QED
    BY <2>1, <2>2
<1> HIDE DEF T
<1>6. \A i \in Nat : i \in T
  BY <1>4, <1>5, NaturalInduction
<1>. QED
  BY <1>1, <1>6 DEF T, w, n

(***************************************************************************)
(* The length of a count and its records, and what they are made of.       *)
(***************************************************************************)
LEMMA ManyAre ==
  ASSUME NEW V, Numbers(V), NEW kinds, NEW records, AreRecords(records, kinds, FieldsOf(V))
  PROVE  /\ <<Field("u32", Len(records))>> \in Seq(FieldsOf(V))
         /\ FlattenSeq(records) \in Seq(FieldsOf(V))
         /\ PutMany(records) \in Seq(FieldsOf(V))
         /\ Len(PutMany(records)) = 1 + Len(kinds) * Len(records)
<1> DEFINE S == FieldsOf(V)
<1>1. /\ records \in Seq(Seq(S)) /\ Len(records) \in Nat
      /\ Field("u32", Len(records)) \in S
  <2>1. records \in Seq(Seq(S)) /\ Len(records) \in Nat
    BY LenProperties DEF AreRecords
  <2>. QED
    BY <2>1 DEF FieldsOf, Field, FieldKinds, Numbers
<1> HIDE DEF S
<1>2. FlattenSeq(records) \in Seq(S) /\ Len(FlattenSeq(records)) = Len(kinds) * Len(records)
  <2>1. Ends(records, Len(records)) = Len(kinds) * Len(records)
    BY <1>1, RecordsEnd
  <2>2. Ends(records, Len(records)) = Len(FlattenSeq(records))
    BY <1>1, EndsAre
  <2>. QED
    BY <1>1, <2>1, <2>2, FlattenType
<1>3. <<Field("u32", Len(records))>> \in Seq(S) /\ Len(<<Field("u32", Len(records))>>) = 1
  BY <1>1
<1>4. /\ PutMany(records) \in Seq(S)
      /\ Len(PutMany(records)) = 1 + Len(FlattenSeq(records))
  BY <1>2, <1>3, ConcatProperties DEF PutMany
<1>. QED
  BY <1>2, <1>3, <1>4 DEF S

(***************************************************************************)
(* Bytes in which these records can be read after the first `at` fields.   *)
(***************************************************************************)
ReadsAs(bytes, at, kinds, records) ==
  /\ HasMany(bytes, at, kinds)
  /\ bytes[at + 1].v = Len(records)
  /\ PastMany(bytes, at, kinds) = at + Len(PutMany(records))
  /\ \A j \in 1 .. Len(kinds) :
       Column(bytes, at, kinds, j) = [i \in 1 .. Len(records) |-> records[i][j].v]

(***************************************************************************)
(* What holds a count and its records can be read as such, and each column *)
(* is read as it was written.                                              *)
(***************************************************************************)
LEMMA ManyArrive ==
  ASSUME NEW V, Numbers(V), NEW kinds, NEW records, AreRecords(records, kinds, FieldsOf(V)),
         NEW bytes, NEW at, Holds(bytes, at, PutMany(records))
  PROVE  ReadsAs(bytes, at, kinds, records)
<1> DEFINE S == FieldsOf(V)
           n == Len(records)
           w == Len(kinds)
<1>1. /\ records \in Seq(Seq(S)) /\ n \in Nat /\ w \in Nat /\ DOMAIN kinds = 1 .. w
      /\ \A i \in 1 .. n : Len(records[i]) = w /\ \A j \in 1 .. w : records[i][j].kind = kinds[j]
  BY LenProperties DEF AreRecords
<1>2. /\ <<Field("u32", n)>> \in Seq(S) /\ FlattenSeq(records) \in Seq(S)
      /\ Len(PutMany(records)) = 1 + w * n
  BY ManyAre
<1>3. PutMany(records) = <<Field("u32", n)>> \o FlattenSeq(records)
  BY DEF PutMany
<1>4. \A i \in 0 .. n : Ends(records, i) = w * i
  BY RecordsEnd
<1>5. at \in Nat /\ Len(bytes) \in Nat
  BY DEF Holds
<1> HIDE DEF S, n, w
<1>6. Holds(bytes, at, <<Field("u32", n)>>) /\ Holds(bytes, at + 1, FlattenSeq(records))
  <2>1. /\ Holds(bytes, at, <<Field("u32", n)>>)
        /\ Holds(bytes, at + Len(<<Field("u32", n)>>), FlattenSeq(records))
    BY <1>2, <1>3, HoldsParts
  <2>2. Len(<<Field("u32", n)>>) = 1
    OBVIOUS
  <2>. QED
    BY <2>1, <2>2
<1>7. Has(bytes, at, <<"u32">>) /\ bytes[at + 1].v = n
  <2>1. at + 1 <= Len(bytes) /\ bytes[at + 1] = Field("u32", n)
    BY <1>6 DEF Holds
  <2>. QED
    BY <2>1 DEF Has, Field
<1>8. \A i \in 1 .. n : Holds(bytes, (at + 1) + Ends(records, i - 1), records[i])
  BY <1>1, <1>6, HoldsEach DEF n
<1>9. ASSUME NEW i \in 1 .. n
      PROVE  /\ at + 1 + w * (i - 1) \in Nat
             /\ at + 1 + w * (i - 1) + w <= Len(bytes)
             /\ \A j \in 1 .. w : bytes[at + 1 + w * (i - 1) + j] = records[i][j]
  <2>1. Ends(records, i - 1) = w * (i - 1)
    BY <1>1, <1>4
  <2>2. Holds(bytes, at + 1 + w * (i - 1), records[i])
    BY <1>8, <2>1
  <2>3. Len(records[i]) = w
    BY <1>1
  <2>. QED
    BY <2>2, <2>3 DEF Holds
<1>10. HasMany(bytes, at, kinds)
  <2>1. ASSUME NEW i \in 1 .. n PROVE Has(bytes, at + 1 + w * (i - 1), kinds)
    <3>1. \A j \in 1 .. w : bytes[at + 1 + w * (i - 1) + j].kind = kinds[j]
      BY <1>1, <1>9
    <3>. QED
      BY <1>1, <1>9, <3>1 DEF Has, w
  <2>. QED
    BY <1>7, <2>1 DEF HasMany, w
<1>11. PastMany(bytes, at, kinds) = at + Len(PutMany(records))
  BY <1>1, <1>2, <1>5, <1>7 DEF PastMany, w
<1>12. ASSUME NEW j \in 1 .. w
       PROVE  Column(bytes, at, kinds, j) = [i \in 1 .. n |-> records[i][j].v]
  <2>1. \A i \in 1 .. n : bytes[at + 1 + w * (i - 1) + j].v = records[i][j].v
    BY <1>9
  <2>. QED
    BY <1>7, <2>1 DEF Column, w
<1>. QED
  BY <1>7, <1>10, <1>11, <1>12 DEF ReadsAs, n, w

(***************************************************************************)
(* A string of which the first m fields arrived, and a partial one at most *)
(* after them; a string whose counts are numbers.                          *)
(***************************************************************************)
Intact(c, bytes, m) ==
  /\ Len(c) \in Nat /\ Len(bytes) \in Nat /\ m \in Nat /\ m <= Len(c) /\ m <= Len(bytes)
  /\ \A i \in 1 .. m : c[i] = bytes[i]
  /\ \A i \in m + 1 .. Len(c) : c[i].kind = "partial"

Counts(bytes) == \A i \in 1 .. Len(bytes) : bytes[i].kind = "u32" => bytes[i].v \in Nat

(***************************************************************************)
(* What is left of a string that was cut.                                  *)
(***************************************************************************)
LEMMA CutsAre ==
  ASSUME NEW S, NEW bytes \in Seq(S), NEW c \in Cuts(bytes)
  PROVE  \E m \in 0 .. Len(bytes) - 1 :
           Intact(c, bytes, m) /\ (Len(c) = m \/ (Len(c) = m + 1 /\ c[m + 1] = Partial))
<1>1. PICK m \in 0 .. Len(bytes) - 1 :
        c = SubSeq(bytes, 1, m) \/ c = Append(SubSeq(bytes, 1, m), Partial)
  BY DEF Cuts
<1>2. Len(bytes) \in Nat /\ m \in Nat /\ m <= Len(bytes)
  BY LenProperties
<1> DEFINE s == SubSeq(bytes, 1, m)
           U == S \cup {Partial}
<1>3. s \in Seq(S) /\ Len(s) = m /\ \A i \in 1 .. m : s[i] = bytes[i]
  <2>1. \A i \in 1 .. m : bytes[i] \in S
    BY <1>2, ElementOfSeq
  <2>2. /\ s \in Seq(S) /\ Len(s) = (IF 1 <= m THEN m - 1 + 1 ELSE 0)
        /\ \A i \in 1 .. m - 1 + 1 : s[i] = bytes[1 + i - 1]
    BY <1>2, <2>1, SubSeqProperties
  <2> HIDE DEF s
  <2>. QED
    BY <1>2, <2>2
<1>4. s \in Seq(U) /\ Partial \in U
  <2>1. \A i \in 1 .. m : s[i] \in S
    BY <1>3, ElementOfSeq
  <2>2. s \in [1 .. m -> U]
    BY <1>3, <2>1, LenProperties
  <2>. QED
    BY <1>2, <2>2, FunctionIsSequence
<1> HIDE DEF s, U
<1>5. CASE c = s
  BY <1>2, <1>3, <1>5 DEF Intact
<1>6. CASE c = Append(s, Partial)
  <2>1. /\ Len(c) = m + 1 /\ c[m + 1] = Partial
        /\ \A i \in 1 .. m : c[i] = s[i]
    BY <1>3, <1>4, <1>6, AppendProperties
  <2>2. Partial.kind = "partial"
    BY DEF Partial, Field
  <2>3. Intact(c, bytes, m)
    BY <1>2, <1>3, <2>1, <2>2 DEF Intact
  <2>. QED
    BY <2>1, <2>3
<1>. QED
  BY <1>1, <1>5, <1>6 DEF s

(***************************************************************************)
(* What is read of such a string was written, and arrived.                 *)
(***************************************************************************)
LEMMA HasArrived ==
  ASSUME NEW c, NEW bytes, NEW m, Intact(c, bytes, m), NEW at \in Nat,
         NEW kinds \in Seq(FieldKinds), Len(kinds) > 0, Has(c, at, kinds)
  PROVE  /\ Has(bytes, at, kinds) /\ at + Len(kinds) <= m
         /\ \A i \in 1 .. Len(kinds) : c[at + i] = bytes[at + i]
<1>1. /\ Len(kinds) \in Nat /\ DOMAIN kinds = 1 .. Len(kinds)
      /\ \A i \in 1 .. Len(kinds) : kinds[i] # "partial"
  <2>1. \A i \in 1 .. Len(kinds) : kinds[i] \in FieldKinds
    BY ElementOfSeq
  <2>. QED
    BY <2>1, LenProperties DEF FieldKinds
<1>2. /\ at + Len(kinds) <= Len(c)
      /\ \A i \in 1 .. Len(kinds) : c[at + i].kind = kinds[i]
  BY <1>1 DEF Has
<1>3. /\ Len(c) \in Nat /\ Len(bytes) \in Nat /\ m \in Nat /\ m <= Len(c) /\ m <= Len(bytes)
      /\ \A i \in 1 .. m : c[i] = bytes[i]
      /\ \A i \in m + 1 .. Len(c) : c[i].kind = "partial"
  BY DEF Intact
<1>4. ASSUME NEW i \in 1 .. Len(kinds) PROVE at + i <= m
  <2>1. at + i \in 1 .. Len(c) /\ c[at + i].kind # "partial"
    BY <1>1, <1>2, <1>3
  <2>. QED
    BY <1>3, <2>1
<1>5. at + Len(kinds) <= m
  BY <1>1, <1>3, <1>4
<1>6. ASSUME NEW i \in 1 .. Len(kinds)
      PROVE  c[at + i] = bytes[at + i] /\ bytes[at + i].kind = kinds[i]
  <2>1. at + i \in 1 .. m
    BY <1>1, <1>3, <1>4
  <2>. QED
    BY <1>2, <1>3, <2>1
<1>. QED
  BY <1>1, <1>3, <1>5, <1>6 DEF Has

(***************************************************************************)
(* The same of a count and its records.                                    *)
(***************************************************************************)
LEMMA ManyArrived ==
  ASSUME NEW c, NEW bytes, NEW m, Intact(c, bytes, m), Counts(bytes), NEW at \in Nat,
         NEW kinds \in Seq(FieldKinds), Len(kinds) > 0, HasMany(c, at, kinds)
  PROVE  /\ PastMany(c, at, kinds) = PastMany(bytes, at, kinds)
         /\ PastMany(bytes, at, kinds) \in Nat /\ PastMany(bytes, at, kinds) <= m
<1>1. Has(c, at, <<"u32">>) /\ <<"u32">> \in Seq(FieldKinds)
  BY DEF HasMany, FieldKinds
<1>2. Has(bytes, at, <<"u32">>) /\ at + 1 <= m /\ c[at + 1] = bytes[at + 1]
  <2>1. /\ Has(bytes, at, <<"u32">>) /\ at + Len(<<"u32">>) <= m
        /\ \A i \in 1 .. Len(<<"u32">>) : c[at + i] = bytes[at + i]
    <3>1. Len(<<"u32">>) > 0
      OBVIOUS
    <3>. QED
      BY <1>1, <3>1, HasArrived
  <2>2. Len(<<"u32">>) = 1
    OBVIOUS
  <2>. QED
    BY <2>1, <2>2
<1> DEFINE n == bytes[at + 1].v
           w == Len(kinds)
<1>3. n \in Nat /\ w \in Nat /\ m \in Nat
  <2>1. bytes[at + 1].kind = "u32" /\ m \in Nat /\ m <= Len(bytes) /\ Len(bytes) \in Nat
    BY <1>2 DEF Has, Intact
  <2>. QED
    BY <1>2, <2>1, LenProperties DEF Counts
<1>4. PastMany(c, at, kinds) = at + 1 + w * n /\ PastMany(bytes, at, kinds) = at + 1 + w * n
  BY <1>2 DEF PastMany
<1>5. \A i \in 1 .. n : Has(c, at + 1 + w * (i - 1), kinds)
  BY <1>2 DEF HasMany
<1> HIDE DEF n, w
<1>6. w * n \in Nat
  BY <1>3
<1>7. at + 1 + w * n <= m
  <2>1. CASE n = 0
    <3>1. w * n = 0
      BY <1>3, <2>1
    <3>. QED
      BY <1>2, <3>1
  <2>2. CASE n # 0
    <3>1. n \in 1 .. n /\ w * (n - 1) \in Nat /\ w * (n - 1) + w = w * n
      BY <1>3, <2>2
    <3>2. Has(c, at + 1 + w * (n - 1), kinds) /\ at + 1 + w * (n - 1) \in Nat
      BY <1>5, <3>1
    <3>3. at + 1 + w * (n - 1) + Len(kinds) <= m
      BY <3>2, HasArrived
    <3>. QED
      BY <1>3, <3>1, <3>3 DEF w
  <2>. QED
    BY <2>1, <2>2
<1>. QED
  BY <1>4, <1>6, <1>7

(***************************************************************************)
(* A string is intact before it is cut, and its counts are numbers.        *)
(***************************************************************************)
LEMMA WholeIs ==
  ASSUME NEW V, NEW bytes \in Seq(FieldsOf(V))
  PROVE  Intact(bytes, bytes, Len(bytes)) /\ Counts(bytes)
<1>1. Len(bytes) \in Nat /\ \A i \in 1 .. Len(bytes) : bytes[i] \in FieldsOf(V)
  BY LenProperties, ElementOfSeq
<1>. QED
  BY <1>1 DEF Intact, Counts, FieldsOf

(***************************************************************************)
(* The counts of what arrived of a string are numbers.                     *)
(***************************************************************************)
LEMMA CountsArrived ==
  ASSUME NEW c, NEW bytes, NEW m, Intact(c, bytes, m), Counts(bytes)
  PROVE  Counts(c)
<1>1. ASSUME NEW i \in 1 .. Len(c), c[i].kind = "u32" PROVE c[i].v \in Nat
  <2>1. i \in 1 .. m
    BY <1>1 DEF Intact
  <2>2. i \in 1 .. Len(bytes) /\ c[i] = bytes[i]
    BY <2>1 DEF Intact
  <2>. QED
    BY <1>1, <2>2 DEF Counts
<1>. QED
  BY <1>1 DEF Counts

(***************************************************************************)
(* A list of values that are written as records of one field, of this kind.*)
(***************************************************************************)
Singles(kind, list) == [i \in DOMAIN list |-> <<Field(kind, list[i])>>]

(***************************************************************************)
(* Such a list is one of records, and holds the values.                    *)
(***************************************************************************)
LEMMA SinglesAre ==
  ASSUME NEW V, NEW kind \in FieldKinds \ {"u32"}, NEW kinds, kinds = <<kind>>,
         NEW list \in Seq(V)
  PROVE  /\ AreRecords(Singles(kind, list), kinds, FieldsOf(V))
         /\ Len(Singles(kind, list)) = Len(list) /\ Len(kinds) = 1
         /\ [i \in 1 .. Len(list) |-> Singles(kind, list)[i][1].v] = list
<1> DEFINE S == FieldsOf(V)
           P == Seq(S)
           recs == Singles(kind, list)
<1>1. /\ Len(list) \in Nat /\ DOMAIN list = 1 .. Len(list)
      /\ list = [i \in 1 .. Len(list) |-> list[i]]
      /\ \A i \in 1 .. Len(list) : list[i] \in V
  BY LenProperties, ElementOfSeq
<1>2. \A i \in 1 .. Len(list) : Field(kind, list[i]) \in S
  BY <1>1 DEF Field, FieldsOf
<1>3. \A i \in 1 .. Len(list) : recs[i] = <<Field(kind, list[i])>>
  BY <1>1 DEF Singles
<1> HIDE DEF S
<1>4. \A i \in 1 .. Len(list) : recs[i] \in P
  <2>1. \A f \in S : <<f>> \in P
    OBVIOUS
  <2> HIDE DEF P, recs
  <2>. QED
    BY <1>2, <1>3, <2>1
<1>5. recs \in [1 .. Len(list) -> P]
  BY <1>1, <1>3, <1>4 DEF Singles
<1> HIDE DEF P, recs
<1>6. recs \in Seq(P) /\ Len(recs) = Len(list)
  BY <1>1, <1>5, FunctionIsSequence
<1>7. kinds \in Seq(FieldKinds) /\ Len(kinds) = 1 /\ kinds[1] = kind
  OBVIOUS
<1>8. \A i \in 1 .. Len(list) : /\ Len(recs[i]) = 1 /\ recs[i][1].kind = kind
                                /\ recs[i][1].v = list[i]
  <2> TAKE i \in 1 .. Len(list)
  <2>1. recs[i] = <<Field(kind, list[i])>>
    BY <1>3
  <2>2. Field(kind, list[i]).kind = kind /\ Field(kind, list[i]).v = list[i]
    BY DEF Field
  <2>. QED
    BY <2>1, <2>2
<1>9. AreRecords(recs, kinds, S)
  <2>1. recs \in Seq(Seq(S))
    BY <1>6 DEF P
  <2>2. \A j \in 1 .. Len(kinds) : j = 1
    BY <1>7
  <2>3. \A i \in 1 .. Len(recs) :
          /\ Len(recs[i]) = Len(kinds)
          /\ \A j \in 1 .. Len(kinds) : recs[i][j].kind = kinds[j]
    BY <1>6, <1>7, <1>8, <2>2
  <2>. QED
    BY <1>7, <2>1, <2>3, Zenon DEF AreRecords
<1>10. [i \in 1 .. Len(list) |-> recs[i][1].v] = list
  BY <1>1, <1>8
<1>. QED
  BY <1>6, <1>7, <1>9, <1>10 DEF recs, S

(***************************************************************************)
(* What a list of records of one field is read as, and that what was       *)
(* written of it can be read so wherever it is held.                       *)
(***************************************************************************)
ReadsList(bytes, at, kinds, written, list) ==
  /\ HasMany(bytes, at, kinds)
  /\ PastMany(bytes, at, kinds) = at + Len(written)
  /\ Column(bytes, at, kinds, 1) = list

ListArrives(kinds, written, list, V) ==
  /\ written \in Seq(FieldsOf(V)) /\ Len(written) = 1 + Len(list)
  /\ \A bytes, at : Holds(bytes, at, written) => ReadsList(bytes, at, kinds, written, list)

(***************************************************************************)
(* What was written of such a list is read as it was written.              *)
(***************************************************************************)
LEMMA SinglesArrive ==
  ASSUME NEW V, Numbers(V), NEW kind \in FieldKinds \ {"u32"}, NEW kinds, kinds = <<kind>>,
         NEW list \in Seq(V), NEW written, written = PutMany(Singles(kind, list))
  PROVE  ListArrives(kinds, written, list, V)
<1>1. PICK recs : recs = Singles(kind, list)
  OBVIOUS
<1>2. /\ AreRecords(recs, kinds, FieldsOf(V))
      /\ Len(recs) = Len(list) /\ Len(kinds) = 1
      /\ [i \in 1 .. Len(list) |-> recs[i][1].v] = list
  BY <1>1, SinglesAre
<1>3. AreRecords(recs, kinds, FieldsOf(V)) /\ written = PutMany(recs)
  BY <1>1, <1>2
<1>4. /\ PutMany(recs) \in Seq(FieldsOf(V))
      /\ Len(PutMany(recs)) = 1 + Len(kinds) * Len(recs)
  <2>1. /\ <<Field("u32", Len(recs))>> \in Seq(FieldsOf(V))
        /\ FlattenSeq(recs) \in Seq(FieldsOf(V))
        /\ PutMany(recs) \in Seq(FieldsOf(V))
        /\ Len(PutMany(recs)) = 1 + Len(kinds) * Len(recs)
    BY <1>3, ManyAre, Zenon
  <2>. QED
    BY <2>1
<1>5. ASSUME NEW bytes, NEW at, Holds(bytes, at, PutMany(recs))
      PROVE  ReadsList(bytes, at, kinds, written, list)
  <2>1. ReadsAs(bytes, at, kinds, recs)
    BY <1>3, <1>5, ManyArrive, Zenon
  <2>2. Column(bytes, at, kinds, 1) = [i \in 1 .. Len(recs) |-> recs[i][1].v]
    BY <1>2, <2>1 DEF ReadsAs
  <2>. QED
    BY <1>2, <1>3, <2>1, <2>2 DEF ReadsAs, ReadsList
<1>6. Len(list) \in Nat
  BY LenProperties
<1>. QED
  BY <1>2, <1>3, <1>4, <1>5, <1>6 DEF ListArrives

(***************************************************************************)
(* So is a list of outputs.                                                *)
(***************************************************************************)
LEMMA OutputsArrive ==
  ASSUME NEW V, Numbers(V), NEW list \in Seq(V)
  PROVE  /\ PutOutputs(list) \in Seq(FieldsOf(V))
         /\ Len(PutOutputs(list)) = 1 + Len(list)
         /\ \A bytes, at : Holds(bytes, at, PutOutputs(list)) =>
              /\ HasMany(bytes, at, OutputFields)
              /\ PastMany(bytes, at, OutputFields) = at + Len(PutOutputs(list))
              /\ Column(bytes, at, OutputFields, 1) = list
<1>1. PutOutputs(list) = PutMany(Singles("output", list)) /\ OutputFields = <<"output">>
  BY DEF PutOutputs, Singles, OutputFields
<1>2. "output" \in FieldKinds \ {"u32"}
  BY DEF FieldKinds
<1>3. ListArrives(OutputFields, PutOutputs(list), list, V)
  BY <1>1, <1>2, SinglesArrive, Zenon
<1>. QED
  BY <1>3 DEF ListArrives, ReadsList

(***************************************************************************)
(* The transactions of compact blocks, and the blocks, of outputs V.       *)
(***************************************************************************)
CompactTxs(V) == [index : Nat, orchard : Seq(V), ironwood : Seq(V)]
CompactBlocks(V) == [height : Nat, txs : Seq(CompactTxs(V))]

(***************************************************************************)
(* A transaction is read as it was written.                                *)
(***************************************************************************)
LEMMA TxArrives ==
  ASSUME NEW V, Numbers(V), NEW t \in CompactTxs(V)
  PROVE  /\ PutTx(t) \in Seq(FieldsOf(V)) /\ Len(PutTx(t)) \in Nat
         /\ \A bytes, at : Holds(bytes, at, PutTx(t)) =>
              /\ HasTx(bytes, at) /\ TxOf(bytes, at) = t
              /\ PastMany(bytes, SecondList(bytes, at), OutputFields) = at + Len(PutTx(t))
<1> DEFINE S == FieldsOf(V)
           a == <<Field("u32", t.index)>>
           b == PutOutputs(t.orchard)
           c == PutOutputs(t.ironwood)
<1>1. /\ t.index \in Nat /\ t.orchard \in Seq(V) /\ t.ironwood \in Seq(V)
      /\ t = [index |-> t.index, orchard |-> t.orchard, ironwood |-> t.ironwood]
  BY DEF CompactTxs
<1>2. a \in Seq(S) /\ Len(a) = 1 /\ a[1] = Field("u32", t.index)
  <2>1. Field("u32", t.index) \in S
    BY <1>1 DEF Field, FieldsOf, FieldKinds, Numbers
  <2> HIDE DEF S
  <2>. QED
    BY <2>1
<1>3. b \in Seq(S) /\ c \in Seq(S)
  BY <1>1, OutputsArrive
<1>4. PutTx(t) = (a \o b) \o c
  BY DEF PutTx
<1> HIDE DEF S, a
<1>5. /\ a \o b \in Seq(S) /\ Len(a \o b) = 1 + Len(b) /\ Len(b) \in Nat /\ Len(c) \in Nat
      /\ (a \o b) \o c \in Seq(S) /\ Len((a \o b) \o c) = (1 + Len(b)) + Len(c)
  <2>1. a \o b \in Seq(S) /\ Len(a \o b) = 1 + Len(b)
    <3> HIDE DEF b
    <3>1. a \o b \in Seq(S) /\ Len(a \o b) = Len(a) + Len(b)
      BY <1>2, <1>3, ConcatProperties
    <3>. QED
      BY <1>2, <3>1
  <2>2. (a \o b) \o c \in Seq(S) /\ Len((a \o b) \o c) = Len(a \o b) + Len(c)
    BY <1>3, <2>1, ConcatProperties
  <2>. QED
    BY <1>3, <2>1, <2>2, LenProperties
<1>6. ASSUME NEW bytes, NEW at, Holds(bytes, at, PutTx(t))
      PROVE  /\ HasTx(bytes, at) /\ TxOf(bytes, at) = t
             /\ PastMany(bytes, SecondList(bytes, at), OutputFields) = at + Len(PutTx(t))
  <2>0. at \in Nat /\ Len(bytes) \in Nat
    BY <1>6 DEF Holds
  <2>1. Holds(bytes, at, a \o b) /\ Holds(bytes, at + Len(a \o b), c)
    BY <1>3, <1>4, <1>5, <1>6, HoldsParts
  <2>2. Holds(bytes, at, a) /\ Holds(bytes, at + 1, b)
    BY <1>2, <1>3, <2>1, HoldsParts
  <2>3. at + 1 <= Len(bytes) /\ bytes[at + 1] = Field("u32", t.index)
    BY <1>2, <2>2 DEF Holds
  <2>4. Has(bytes, at, <<"u32">>) /\ bytes[at + 1].v = t.index
    BY <2>3 DEF Has, Field
  <2>5. /\ HasMany(bytes, at + 1, OutputFields)
        /\ PastMany(bytes, at + 1, OutputFields) = (at + 1) + Len(b)
        /\ Column(bytes, at + 1, OutputFields, 1) = t.orchard
    BY <1>1, <2>2, OutputsArrive
  <2>6. SecondList(bytes, at) = at + Len(a \o b)
    BY <1>5, <2>0, <2>5 DEF SecondList
  <2>7. /\ HasMany(bytes, SecondList(bytes, at), OutputFields)
        /\ PastMany(bytes, SecondList(bytes, at), OutputFields) = (at + Len(a \o b)) + Len(c)
        /\ Column(bytes, SecondList(bytes, at), OutputFields, 1) = t.ironwood
    <3>1. Holds(bytes, SecondList(bytes, at), c)
      BY <2>1, <2>6
    <3>2. /\ HasMany(bytes, SecondList(bytes, at), OutputFields)
          /\ PastMany(bytes, SecondList(bytes, at), OutputFields) = SecondList(bytes, at) + Len(c)
          /\ Column(bytes, SecondList(bytes, at), OutputFields, 1) = t.ironwood
      BY <1>1, <3>1, OutputsArrive
    <3>. QED
      BY <2>6, <3>2
  <2>8. HasTx(bytes, at)
    BY <2>4, <2>5, <2>7 DEF HasTx
  <2>9. TxOf(bytes, at) = t
    BY <1>1, <2>4, <2>5, <2>7 DEF TxOf
  <2>10. (at + Len(a \o b)) + Len(c) = at + Len(PutTx(t))
    BY <1>4, <1>5, <2>0
  <2>. QED
    BY <2>7, <2>8, <2>9, <2>10
<1>. QED
  BY <1>4, <1>5, <1>6 DEF S

(***************************************************************************)
(* Where a transaction ends.                                               *)
(***************************************************************************)
TxEnd(bytes, at) == PastMany(bytes, SecondList(bytes, at), OutputFields)

(***************************************************************************)
(* What is read of a transaction in a string that was cut ends where it    *)
(* does in the whole string, within what arrived.                          *)
(***************************************************************************)
LEMMA TxArrived ==
  ASSUME NEW c, NEW bytes, NEW m, Intact(c, bytes, m), Counts(bytes), NEW at \in Nat,
         HasTx(c, at)
  PROVE  TxEnd(c, at) = TxEnd(bytes, at) /\ TxEnd(c, at) \in Nat /\ TxEnd(c, at) <= m
<1>1. OutputFields \in Seq(FieldKinds) /\ Len(OutputFields) > 0
  BY DEF OutputFields, FieldKinds
<1>2. HasMany(c, at + 1, OutputFields) /\ HasMany(c, SecondList(c, at), OutputFields)
  BY DEF HasTx
<1>3. at + 1 \in Nat
  OBVIOUS
<1>4. SecondList(c, at) = SecondList(bytes, at) /\ SecondList(c, at) \in Nat
  BY <1>1, <1>2, <1>3, ManyArrived DEF SecondList
<1>5. /\ PastMany(c, SecondList(c, at), OutputFields)
           = PastMany(bytes, SecondList(c, at), OutputFields)
      /\ PastMany(bytes, SecondList(c, at), OutputFields) \in Nat
      /\ PastMany(bytes, SecondList(c, at), OutputFields) <= m
  BY <1>1, <1>2, <1>4, ManyArrived
<1>. QED
  BY <1>4, <1>5 DEF TxEnd

(***************************************************************************)
(* Where the first n transactions of a block end, as DecodeBlock has it.   *)
(***************************************************************************)
Positions(bytes, n, at) ==
  at = [i \in 0 .. n |-> IF i = 0 THEN 3
                         ELSE IF HasTx(bytes, at[i - 1]) THEN TxEnd(bytes, at[i - 1])
                         ELSE Len(bytes) + 1]

(***************************************************************************)
(* There are such positions, if the counts are numbers.                    *)
(***************************************************************************)
LEMMA PositionsExist ==
  ASSUME NEW bytes, Len(bytes) \in Nat, Counts(bytes), NEW n \in Nat
  PROVE  \E at : Positions(bytes, n, at)
<1> DEFINE step == [i \in Nat |-> [p \in Nat |-> IF HasTx(bytes, p) THEN TxEnd(bytes, p)
                                                 ELSE Len(bytes) + 1]]
<1>1. \A i, p \in Nat : step[i][p] = IF HasTx(bytes, p) THEN TxEnd(bytes, p) ELSE Len(bytes) + 1
  OBVIOUS
<1>2. \A i, p \in Nat : step[i][p] \in Nat
  <2>1. Intact(bytes, bytes, Len(bytes))
    BY DEF Intact
  <2>2. \A p \in Nat : HasTx(bytes, p) => TxEnd(bytes, p) \in Nat
    BY <2>1, TxArrived
  <2> HIDE DEF step
  <2>. QED
    BY <1>1, <2>2
<1> HIDE DEF step
<1>3. PICK f : Iterates(f, n, 3, step)
  BY IterationExists
<1>4. f = [i \in 0 .. n |-> IF i = 0 THEN 3 ELSE step[i][f[i - 1]]]
  BY <1>3, Zenon DEF Iterates
<1> DEFINE T == {i \in Nat : i <= n => f[i] \in Nat}
<1>5. 0 \in T
  BY <1>4
<1>6. ASSUME NEW i \in Nat, i \in T PROVE i + 1 \in T
  <2>1. CASE i + 1 <= n
    <3>1. i + 1 \in 0 .. n /\ i + 1 # 0 /\ (i + 1) - 1 = i /\ f[i] \in Nat /\ i + 1 \in Nat
      BY <1>6, <2>1
    <3>2. f[i + 1] = step[i + 1][f[i]]
      BY <1>4, <3>1
    <3>. QED
      BY <1>2, <3>1, <3>2
  <2>2. CASE ~(i + 1 <= n)
    BY <2>2
  <2>. QED
    BY <2>1, <2>2
<1>7. \A i \in Nat : i \in T
  <2> HIDE DEF T
  <2>. QED
    BY <1>5, <1>6, NaturalInduction
<1>8. \A i \in 0 .. n : f[i] \in Nat
  BY <1>7
<1>9. ASSUME NEW i \in 0 .. n
      PROVE  (IF i = 0 THEN 3 ELSE step[i][f[i - 1]])
               = IF i = 0 THEN 3
                 ELSE IF HasTx(bytes, f[i - 1]) THEN TxEnd(bytes, f[i - 1]) ELSE Len(bytes) + 1
  <2>1. CASE i = 0
    BY <2>1
  <2>2. CASE i # 0
    <3>1. i \in Nat /\ f[i - 1] \in Nat
      BY <1>8, <2>2
    <3>. QED
      BY <1>1, <2>2, <3>1
  <2>. QED
    BY <2>1, <2>2
<1>10. Positions(bytes, n, f)
  <2>1. f = [i \in 0 .. n |-> IF i = 0 THEN 3
                              ELSE IF HasTx(bytes, f[i - 1]) THEN TxEnd(bytes, f[i - 1])
                              ELSE Len(bytes) + 1]
    BY <1>4, <1>9, Zenon
  <2>. QED
    BY <2>1, Zenon DEF Positions
<1>. QED
  BY <1>10

(***************************************************************************)
(* What DecodeBlock makes of a string, by those positions.                 *)
(***************************************************************************)
BlockOf(bytes, n, at) ==
  [height |-> bytes[2].v, txs |-> [i \in 1 .. n |-> TxOf(bytes, at[i - 1])]]

(***************************************************************************)
(* A block is decoded from the positions of its transactions.              *)
(***************************************************************************)
LEMMA DecodeIs ==
  ASSUME NEW bytes, Len(bytes) \in Nat, Counts(bytes)
  PROVE  /\ ~Has(bytes, 0, <<"magic", "u64", "u32">>) => DecodeBlock(bytes) = {}
         /\ Has(bytes, 0, <<"magic", "u64", "u32">>) =>
              \E at : /\ Positions(bytes, bytes[3].v, at)
                      /\ DecodeBlock(bytes) = Of(at[bytes[3].v] = Len(bytes),
                                                 BlockOf(bytes, bytes[3].v, at))
<1> DEFINE head == Has(bytes, 0, <<"magic", "u64", "u32">>)
           n == bytes[3].v
           at == CHOOSE at : Positions(bytes, n, at)
<1>1. DecodeBlock(bytes) = Of(head /\ at[n] = Len(bytes), BlockOf(bytes, n, at))
  BY Zenon DEF DecodeBlock, Positions, TxEnd, BlockOf
<1>2. CASE ~head
  BY <1>1, <1>2 DEF Of
<1>3. CASE head
  <2>1. n \in Nat
    <3>1. 3 <= Len(bytes) /\ bytes[3].kind = "u32"
      BY <1>3 DEF Has
    <3>. QED
      BY <3>1 DEF Counts
  <2>2. \E p : Positions(bytes, n, p)
    <3> HIDE DEF n
    <3>. QED
      BY <2>1, PositionsExist
  <2>3. Positions(bytes, n, at)
    BY <2>2, Zenon
  <2>4. DecodeBlock(bytes) = Of(at[n] = Len(bytes), BlockOf(bytes, n, at))
    BY <1>1, <1>3 DEF Of
  <2> HIDE DEF at
  <2>. QED
    BY <1>3, <2>3, <2>4
<1>. QED
  BY <1>2, <1>3

(***************************************************************************)
(* The transactions of a block, as they are written.                       *)
(***************************************************************************)
PutTxs(b) == [i \in DOMAIN b.txs |-> PutTx(b.txs[i])]

(***************************************************************************)
(* How a block is written: its head, then its transactions one by one.     *)
(***************************************************************************)
LEMMA EncodingIs ==
  ASSUME NEW V, Numbers(V), NEW b \in CompactBlocks(V)
  PROVE  /\ PutTxs(b) \in Seq(Seq(FieldsOf(V))) /\ Len(PutTxs(b)) = Len(b.txs)
         /\ \A i \in 1 .. Len(b.txs) : PutTxs(b)[i] = PutTx(b.txs[i])
         /\ EncodeBlock(b) \in Seq(FieldsOf(V))
         /\ Len(EncodeBlock(b)) = 3 + Len(FlattenSeq(PutTxs(b)))
         /\ EncodeBlock(b)[1].kind = "magic" /\ EncodeBlock(b)[2] = Field("u64", b.height)
         /\ EncodeBlock(b)[3] = Field("u32", Len(b.txs))
         /\ Holds(EncodeBlock(b), 3, FlattenSeq(PutTxs(b)))
<1> DEFINE S == FieldsOf(V)
           P == Seq(S)
           n == Len(b.txs)
           parts == PutTxs(b)
           flat == FlattenSeq(parts)
           a == <<Field("magic", "ZECCB1"), Field("u64", b.height)>>
           d == <<Field("u32", n)>>
<1>1. /\ b.height \in Nat /\ b.txs \in Seq(CompactTxs(V))
      /\ n \in Nat /\ DOMAIN b.txs = 1 .. n
      /\ \A i \in 1 .. n : b.txs[i] \in CompactTxs(V)
  <2>1. b.height \in Nat /\ b.txs \in Seq(CompactTxs(V))
    BY DEF CompactBlocks
  <2>. QED
    BY <2>1, LenProperties, ElementOfSeq
<1>2. \A i \in 1 .. n : PutTx(b.txs[i]) \in P
  BY <1>1, TxArrives
<1>3. \A i \in 1 .. n : parts[i] = PutTx(b.txs[i])
  BY <1>1 DEF PutTxs
<1>4. parts \in [1 .. n -> P]
  <2> HIDE DEF P, n
  <2>. QED
    BY <1>1, <1>2 DEF PutTxs
<1>5. /\ Field("magic", "ZECCB1") \in S /\ Field("u64", b.height) \in S /\ Field("u32", n) \in S
      /\ Field("magic", "ZECCB1").kind = "magic"
  <2> HIDE DEF n
  <2>. QED
    BY <1>1 DEF Field, FieldsOf, FieldKinds, Numbers
<1> HIDE DEF S, n, parts
<1>6. parts \in Seq(P) /\ Len(parts) = n
  <2> HIDE DEF P
  <2>. QED
    BY <1>1, <1>4, FunctionIsSequence
<1>7. flat \in Seq(S)
  BY <1>6, FlattenType
<1>8. /\ a \in Seq(S) /\ Len(a) = 2 /\ a[1] = Field("magic", "ZECCB1")
      /\ a[2] = Field("u64", b.height)
      /\ d \in Seq(S) /\ Len(d) = 1 /\ d[1] = Field("u32", n)
  BY <1>5
<1>9. EncodeBlock(b) = a \o (d \o flat)
  BY <1>6 DEF EncodeBlock, PutMany, PutTxs, parts
<1> HIDE DEF a, d, flat, P
<1>10. d \o flat \in Seq(S) /\ Len(d \o flat) = 1 + Len(flat) /\ Len(flat) \in Nat
       /\ (d \o flat)[1] = Field("u32", n)
  <2>1. /\ d \o flat \in Seq(S) /\ Len(d \o flat) = Len(d) + Len(flat) /\ Len(flat) \in Nat
        /\ \A i \in 1 .. Len(d) + Len(flat) :
             (d \o flat)[i] = IF i <= Len(d) THEN d[i] ELSE flat[i - Len(d)]
    BY <1>7, <1>8, ConcatProperties, LenProperties
  <2>2. 1 \in 1 .. Len(d) + Len(flat) /\ 1 <= Len(d)
    BY <1>8, <2>1
  <2>. QED
    BY <1>8, <2>1, <2>2
<1>11. /\ a \o (d \o flat) \in Seq(S) /\ Len(a \o (d \o flat)) = 3 + Len(flat)
       /\ \A i \in 1 .. 3 + Len(flat) :
            (a \o (d \o flat))[i] = IF i <= 2 THEN a[i] ELSE (d \o flat)[i - 2]
  <2>1. /\ a \o (d \o flat) \in Seq(S) /\ Len(a \o (d \o flat)) = Len(a) + Len(d \o flat)
        /\ \A i \in 1 .. Len(a) + Len(d \o flat) :
             (a \o (d \o flat))[i] = IF i <= Len(a) THEN a[i] ELSE (d \o flat)[i - Len(a)]
    BY <1>8, <1>10, ConcatProperties
  <2>2. Len(a) + Len(d \o flat) = 3 + Len(flat)
    BY <1>8, <1>10
  <2>. QED
    BY <1>8, <2>1, <2>2
<1>12. /\ EncodeBlock(b)[1] = Field("magic", "ZECCB1") /\ EncodeBlock(b)[2] = Field("u64", b.height)
       /\ EncodeBlock(b)[3] = Field("u32", n)
  <2>1. 1 \in 1 .. 3 + Len(flat) /\ 2 \in 1 .. 3 + Len(flat) /\ 3 \in 1 .. 3 + Len(flat)
    BY <1>10
  <2>. QED
    BY <1>8, <1>9, <1>10, <1>11, <2>1
<1>13. Holds(EncodeBlock(b), 3, flat)
  <2>1. Holds(EncodeBlock(b), 0, a \o (d \o flat))
    BY <1>9, <1>11, HoldsItself
  <2>2. Holds(EncodeBlock(b), 0 + Len(a), d \o flat)
    BY <1>8, <1>10, <2>1, HoldsParts
  <2>3. Holds(EncodeBlock(b), 2, d \o flat)
    BY <1>8, <2>2
  <2>4. Holds(EncodeBlock(b), 2 + Len(d), flat)
    BY <1>7, <1>8, <2>3, HoldsParts
  <2>. QED
    BY <1>8, <2>4
<1>. QED
  BY <1>3, <1>5, <1>6, <1>9, <1>11, <1>12, <1>13 DEF S, P, n, parts, flat

(***************************************************************************)
(* Each transaction of a block is where the one before it ends.            *)
(***************************************************************************)
LEMMA TxsHeld ==
  ASSUME NEW V, Numbers(V), NEW b \in CompactBlocks(V)
  PROVE  /\ Ends(PutTxs(b), 0) = 0
         /\ \A i \in 0 .. Len(b.txs) : Ends(PutTxs(b), i) \in Nat
         /\ Len(EncodeBlock(b)) = 3 + Ends(PutTxs(b), Len(b.txs))
         /\ \A i \in 1 .. Len(b.txs) :
              /\ HasTx(EncodeBlock(b), 3 + Ends(PutTxs(b), i - 1))
              /\ TxOf(EncodeBlock(b), 3 + Ends(PutTxs(b), i - 1)) = b.txs[i]
              /\ TxEnd(EncodeBlock(b), 3 + Ends(PutTxs(b), i - 1)) = 3 + Ends(PutTxs(b), i)
<1> DEFINE S == FieldsOf(V)
           n == Len(b.txs)
           parts == PutTxs(b)
           bytes == EncodeBlock(b)
<1>1. /\ parts \in Seq(Seq(S)) /\ Len(parts) = n
      /\ \A i \in 1 .. n : parts[i] = PutTx(b.txs[i])
      /\ Len(bytes) = 3 + Len(FlattenSeq(parts))
      /\ Holds(bytes, 3, FlattenSeq(parts))
  BY EncodingIs
<1>2. n \in Nat /\ \A i \in 1 .. n : b.txs[i] \in CompactTxs(V)
  <2>1. b.txs \in Seq(CompactTxs(V))
    BY DEF CompactBlocks
  <2>. QED
    BY <2>1, LenProperties, ElementOfSeq
<1> HIDE DEF S, n, parts, bytes
<1>3. /\ Ends(parts, 0) = 0 /\ Ends(parts, n) = Len(FlattenSeq(parts))
      /\ \A i \in 0 .. n : Ends(parts, i) \in Nat
      /\ \A i \in 1 .. n : Ends(parts, i) = Ends(parts, i - 1) + Len(parts[i])
  BY <1>1, EndsAre
<1>4. ASSUME NEW i \in 1 .. n
      PROVE  /\ HasTx(bytes, 3 + Ends(parts, i - 1))
             /\ TxOf(bytes, 3 + Ends(parts, i - 1)) = b.txs[i]
             /\ TxEnd(bytes, 3 + Ends(parts, i - 1)) = 3 + Ends(parts, i)
  <2> DEFINE p == 3 + Ends(parts, i - 1)
  <2>1. Holds(bytes, p, parts[i])
    BY <1>1, HoldsEach
  <2>2. Holds(bytes, p, PutTx(b.txs[i])) /\ b.txs[i] \in CompactTxs(V)
    BY <1>1, <1>2, <2>1
  <2> HIDE DEF p
  <2>3. /\ HasTx(bytes, p) /\ TxOf(bytes, p) = b.txs[i]
        /\ PastMany(bytes, SecondList(bytes, p), OutputFields) = p + Len(PutTx(b.txs[i]))
    BY <2>2, TxArrives
  <2>4. p + Len(PutTx(b.txs[i])) = 3 + Ends(parts, i)
    <3>1. i - 1 \in 0 .. n /\ i \in 0 .. n
      BY <1>2
    <3>2. /\ Ends(parts, i) = Ends(parts, i - 1) + Len(PutTx(b.txs[i]))
          /\ Ends(parts, i - 1) \in Nat /\ Ends(parts, i) \in Nat
      BY <1>1, <1>3, <3>1
    <3>3. Len(PutTx(b.txs[i])) \in Nat
      BY <2>2, TxArrives
    <3>. QED
      BY <3>2, <3>3 DEF p
  <2>. QED
    BY <2>3, <2>4 DEF TxEnd, p
<1>5. Len(bytes) = 3 + Ends(parts, n)
  BY <1>1, <1>3
<1>. QED
  BY <1>3, <1>4, <1>5, Zenon DEF n, parts, bytes

(***************************************************************************)
(* A compact block is read as it was written.                              *)
(***************************************************************************)
LEMMA BlockArrives ==
  ASSUME NEW V, Numbers(V), NEW b \in CompactBlocks(V)
  PROVE  DecodeBlock(EncodeBlock(b)) = {b}
<1> DEFINE n == Len(b.txs)
           parts == PutTxs(b)
           bytes == EncodeBlock(b)
<1>1. /\ bytes \in Seq(FieldsOf(V))
      /\ Len(bytes) = 3 + Len(FlattenSeq(parts))
      /\ bytes[1].kind = "magic" /\ bytes[2] = Field("u64", b.height)
      /\ bytes[3] = Field("u32", n)
  BY EncodingIs
<1>2. /\ Ends(parts, 0) = 0
      /\ \A i \in 0 .. n : Ends(parts, i) \in Nat
      /\ Len(bytes) = 3 + Ends(parts, n)
      /\ \A i \in 1 .. n : /\ HasTx(bytes, 3 + Ends(parts, i - 1))
                           /\ TxOf(bytes, 3 + Ends(parts, i - 1)) = b.txs[i]
                           /\ TxEnd(bytes, 3 + Ends(parts, i - 1)) = 3 + Ends(parts, i)
  BY TxsHeld
<1>3. /\ n \in Nat /\ b.txs = [i \in 1 .. n |-> b.txs[i]]
      /\ b = [height |-> b.height, txs |-> b.txs]
  <2>1. b.txs \in Seq(CompactTxs(V)) /\ b = [height |-> b.height, txs |-> b.txs]
    BY DEF CompactBlocks
  <2>. QED
    BY <2>1, LenProperties
<1>4. Len(bytes) \in Nat /\ Counts(bytes)
  BY <1>1, WholeIs, LenProperties
<1> HIDE DEF n, parts, bytes
<1>5. Has(bytes, 0, <<"magic", "u64", "u32">>) /\ bytes[3].v = n /\ bytes[2].v = b.height
  <2>1. 3 <= Len(bytes)
    BY <1>2, <1>3
  <2>. QED
    BY <1>1, <1>4, <2>1 DEF Has, Field
<1>6. PICK at : Positions(bytes, n, at) /\ DecodeBlock(bytes) = Of(at[n] = Len(bytes), BlockOf(bytes, n, at))
  BY <1>4, <1>5, DecodeIs
<1>7. \A i \in 0 .. n :
        at[i] = IF i = 0 THEN 3 ELSE IF HasTx(bytes, at[i - 1]) THEN TxEnd(bytes, at[i - 1])
                                ELSE Len(bytes) + 1
  BY <1>6, Zenon DEF Positions
<1> DEFINE T == {i \in Nat : i <= n => at[i] = 3 + Ends(parts, i)}
<1>8. 0 \in T
  BY <1>2, <1>3, <1>7
<1>9. ASSUME NEW i \in Nat, i \in T PROVE i + 1 \in T
  <2>1. CASE i + 1 <= n
    <3>1. i + 1 \in 1 .. n /\ i + 1 \in 0 .. n /\ i + 1 # 0 /\ (i + 1) - 1 = i
          /\ at[i] = 3 + Ends(parts, i)
      BY <1>3, <1>9, <2>1
    <3>2. at[i + 1] = IF HasTx(bytes, at[i]) THEN TxEnd(bytes, at[i]) ELSE Len(bytes) + 1
      BY <1>7, <3>1
    <3>3. /\ HasTx(bytes, 3 + Ends(parts, i))
          /\ TxEnd(bytes, 3 + Ends(parts, i)) = 3 + Ends(parts, i + 1)
      BY <1>2, <3>1
    <3>. QED
      BY <3>1, <3>2, <3>3
  <2>2. CASE ~(i + 1 <= n)
    BY <2>2
  <2>. QED
    BY <2>1, <2>2
<1>10. \A i \in 0 .. n : at[i] = 3 + Ends(parts, i)
  <2>1. \A i \in Nat : i \in T
    <3> HIDE DEF T
    <3>. QED
      BY <1>8, <1>9, NaturalInduction
  <2>. QED
    BY <2>1
<1>11. BlockOf(bytes, n, at) = b
  <2>1. ASSUME NEW i \in 1 .. n PROVE TxOf(bytes, at[i - 1]) = b.txs[i]
    <3>1. i - 1 \in 0 .. n
      BY <1>3
    <3>. QED
      BY <1>2, <1>10, <3>1
  <2>2. [i \in 1 .. n |-> TxOf(bytes, at[i - 1])] = [i \in 1 .. n |-> b.txs[i]]
    BY <2>1
  <2>3. BlockOf(bytes, n, at) = [height |-> b.height, txs |-> b.txs]
    BY <1>3, <1>5, <2>2, Zenon DEF BlockOf
  <2>. QED
    BY <1>3, <2>3, Zenon
<1>12. at[n] = Len(bytes)
  BY <1>2, <1>3, <1>10
<1>. QED
  BY <1>6, <1>11, <1>12, Zenon DEF Of, bytes

(***************************************************************************)
(* A compact block that was cut short is refused.                          *)
(***************************************************************************)
LEMMA CutBlockRefused ==
  ASSUME NEW V, Numbers(V), NEW b \in CompactBlocks(V), NEW c \in Cuts(EncodeBlock(b))
  PROVE  DecodeBlock(c) = {}
<1> DEFINE n == Len(b.txs)
           parts == PutTxs(b)
           whole == EncodeBlock(b)
<1>1. whole \in Seq(FieldsOf(V)) /\ whole[3] = Field("u32", n)
  BY EncodingIs
<1>2. /\ Ends(parts, 0) = 0
      /\ \A i \in 0 .. n : Ends(parts, i) \in Nat
      /\ Len(whole) = 3 + Ends(parts, n)
      /\ \A i \in 1 .. n : TxEnd(whole, 3 + Ends(parts, i - 1)) = 3 + Ends(parts, i)
  BY TxsHeld
<1>3. n \in Nat
  <2>1. b.txs \in Seq(CompactTxs(V))
    BY DEF CompactBlocks
  <2>. QED
    BY <2>1, LenProperties
<1> HIDE DEF n, parts, whole
<1>4. PICK m \in 0 .. Len(whole) - 1 : Intact(c, whole, m)
  BY <1>1, CutsAre DEF whole
<1>5. Counts(whole) /\ Counts(c) /\ Len(c) \in Nat /\ m \in Nat /\ m < Len(whole) /\ m <= Len(c)
  BY <1>1, <1>4, WholeIs, CountsArrived DEF Intact
<1>6. CASE Has(c, 0, <<"magic", "u64", "u32">>)
  <2>1. 3 <= m /\ c[3].v = n
    <3> DEFINE head == <<"magic", "u64", "u32">>
    <3>1. head \in Seq(FieldKinds) /\ Len(head) = 3
      BY DEF FieldKinds
    <3>2. Has(c, 0, head) /\ Len(head) > 0 /\ 0 \in Nat
      BY <1>6, <3>1
    <3> HIDE DEF head
    <3>3. 0 + Len(head) <= m /\ \A i \in 1 .. Len(head) : c[0 + i] = whole[0 + i]
      <4>1. \A p \in Nat : Has(c, p, head) =>
              p + Len(head) <= m /\ \A i \in 1 .. Len(head) : c[p + i] = whole[p + i]
        <5>1. head \in Seq(FieldKinds) /\ Len(head) > 0 /\ Intact(c, whole, m)
          BY <1>4, <3>1, <3>2
        <5>. QED
          BY <5>1, HasArrived
      <4>. QED
        BY <3>2, <4>1, Zenon
    <3>. QED
      BY <1>1, <3>1, <3>3 DEF Field
  <2>2. PICK at : Positions(c, n, at) /\ DecodeBlock(c) = Of(at[n] = Len(c), BlockOf(c, n, at))
    BY <1>5, <1>6, <2>1, DecodeIs
  <2>3. \A i \in 0 .. n :
          at[i] = IF i = 0 THEN 3 ELSE IF HasTx(c, at[i - 1]) THEN TxEnd(c, at[i - 1])
                                  ELSE Len(c) + 1
    BY <2>2, Zenon DEF Positions
  <2> DEFINE Reached(i) == at[i] = Len(c) + 1 \/ (at[i] = 3 + Ends(parts, i) /\ at[i] <= m)
             T == {i \in Nat : i <= n => Reached(i)}
  <2>4. 0 \in T
    BY <1>2, <1>3, <2>1, <2>3
  <2>5. ASSUME NEW i \in Nat, i \in T PROVE i + 1 \in T
    <3>1. CASE i + 1 <= n
      <4>1. i + 1 \in 1 .. n /\ i + 1 \in 0 .. n /\ i \in 0 .. n /\ i + 1 # 0 /\ (i + 1) - 1 = i
            /\ Reached(i)
        BY <1>3, <2>5, <3>1
      <4>2. at[i + 1] = IF HasTx(c, at[i]) THEN TxEnd(c, at[i]) ELSE Len(c) + 1
        BY <2>3, <4>1
      <4>3. CASE HasTx(c, at[i])
        <5>1. at[i] # Len(c) + 1
          BY <1>5, <4>3 DEF HasTx, Has
        <5>2. at[i] = 3 + Ends(parts, i) /\ at[i] \in Nat
          BY <1>2, <4>1, <5>1
        <5>3. TxEnd(c, at[i]) = TxEnd(whole, at[i]) /\ TxEnd(c, at[i]) <= m
          BY <1>4, <1>5, <4>3, <5>2, TxArrived
        <5>4. TxEnd(whole, 3 + Ends(parts, i)) = 3 + Ends(parts, i + 1)
          BY <1>2, <4>1
        <5>. QED
          BY <4>2, <4>3, <5>2, <5>3, <5>4
      <4>4. CASE ~HasTx(c, at[i])
        BY <4>2, <4>4
      <4>. QED
        BY <4>3, <4>4
    <3>2. CASE ~(i + 1 <= n)
      BY <3>2
    <3>. QED
      BY <3>1, <3>2
  <2>6. \A i \in Nat : i \in T
    <3> HIDE DEF T
    <3>. QED
      BY <2>4, <2>5, NaturalInduction
  <2>7. Reached(n)
    BY <1>3, <2>6
  <2>8. at[n] # Len(c)
    <3>1. Ends(parts, n) \in Nat
      BY <1>2, <1>3
    <3>. QED
      BY <1>2, <1>5, <2>7, <3>1
  <2>. QED
    BY <2>2, <2>8, Zenon DEF Of
<1>7. CASE ~Has(c, 0, <<"magic", "u64", "u32">>)
  BY <1>5, <1>7, DecodeIs
<1>. QED
  BY <1>6, <1>7

(***************************************************************************)
(* The transactions of full blocks, of outputs V.                          *)
(***************************************************************************)
FullTxs(V) == [orchard : Seq(V), ironwood : Seq(V)]

CompactTxOf(block, i) ==
  [index |-> i, orchard |-> block[i].orchard, ironwood |-> block[i].ironwood]

(***************************************************************************)
(* A compact block has the transactions of the full block that have        *)
(* outputs, and no others, each with its position.                         *)
(***************************************************************************)
LEMMA CompactIs ==
  ASSUME NEW V, NEW block \in Seq(FullTxs(V)), NEW height \in Nat
  PROVE  /\ CompactBlock(height, block) \in CompactBlocks(V)
         /\ ToSet(CompactBlock(height, block).txs)
              = {CompactTxOf(block, i) :
                   i \in {i \in DOMAIN block : block[i].orchard # << >> \/ block[i].ironwood # << >>}}
<1> DEFINE C == CompactTxs(V)
           n == Len(block)
           all == [i \in DOMAIN block |->
                     [index |-> i, orchard |-> block[i].orchard, ironwood |-> block[i].ironwood]]
           some == {t \in ToSet(all) : t.orchard # << >> \/ t.ironwood # << >>}
<1>1. /\ n \in Nat /\ DOMAIN block = 1 .. n
      /\ \A i \in 1 .. n : block[i] \in FullTxs(V)
  BY LenProperties, ElementOfSeq
<1>2. \A i \in 1 .. n : block[i].orchard \in Seq(V) /\ block[i].ironwood \in Seq(V)
  BY <1>1 DEF FullTxs
<1>3. \A i \in 1 .. n : all[i] = CompactTxOf(block, i)
  BY <1>1 DEF CompactTxOf
<1>4. \A i \in 1 .. n : CompactTxOf(block, i) \in C
  BY <1>1, <1>2 DEF CompactTxOf, CompactTxs
<1>5. all \in [1 .. n -> C]
  <2>1. \A i \in 1 .. n :
          [index |-> i, orchard |-> block[i].orchard, ironwood |-> block[i].ironwood] \in C
    BY <1>4, Zenon DEF CompactTxOf
  <2> HIDE DEF C, n
  <2>. QED
    BY <1>1, <2>1
<1>6. CompactBlock(height, block) = [height |-> height, txs |-> Select(all, some)]
  BY Zenon DEF CompactBlock
<1> HIDE DEF C, n, all, some
<1>7. all \in Seq(C) /\ Len(all) = n
  BY <1>1, <1>5, FunctionIsSequence
<1>8. Select(all, some) \in Seq(C) /\ ToSet(Select(all, some)) = ToSet(all) \cap some
  BY <1>7, SelectType, SelectEntries
<1>9. ToSet(all) = {CompactTxOf(block, i) : i \in DOMAIN block}
  <2>1. ToSet(all) = {all[i] : i \in 1 .. n}
    BY <1>7, LenProperties DEF ToSet
  <2>. QED
    BY <1>1, <1>3, <2>1
<1>10. \A i : /\ CompactTxOf(block, i).orchard = block[i].orchard
              /\ CompactTxOf(block, i).ironwood = block[i].ironwood
  BY DEF CompactTxOf
<1>11. ToSet(all) \cap some
         = {CompactTxOf(block, i) :
              i \in {i \in DOMAIN block : block[i].orchard # << >> \/ block[i].ironwood # << >>}}
  BY <1>9, <1>10 DEF some
<1>12. CompactBlock(height, block) \in CompactBlocks(V)
  BY <1>6, <1>8 DEF CompactBlocks, C
<1>13. CompactBlock(height, block).txs = Select(all, some)
  BY <1>6
<1>. QED
  BY <1>8, <1>11, <1>12, <1>13

(***************************************************************************)
(* What a scan of a compact block that was sent finds is where it is in    *)
(* the full block (compact.rs), in blocks of any length, and of a compact  *)
(* block that was cut short nothing is read.                               *)
(***************************************************************************)
THEOREM ScansFindWhatIsThere ==
  ASSUME NEW V, Numbers(V), NEW block \in Seq(FullTxs(V)), NEW height \in Nat, NEW ours
  PROVE  HitsAreThere(height, block, ours)
<1> DEFINE b == CompactBlock(height, block)
           Pools == {"orchard", "ironwood"}
           OursIn(txs, t, at, pool) == {[tx_index |-> at, pool |-> pool, action |-> i] :
             i \in {i \in DOMAIN txs[t][pool] : txs[t][pool][i] \in ours}}
           There(t, pool) == OursIn(block, t, t, pool)
           FoundIn(t, pool) == OursIn(b.txs, t, b.txs[t].index, pool)
<1>1. /\ b \in CompactBlocks(V)
      /\ ToSet(b.txs) = {CompactTxOf(block, i) :
           i \in {i \in DOMAIN block : block[i].orchard # << >> \/ block[i].ironwood # << >>}}
  BY CompactIs
<1>2. DecodeBlock(EncodeBlock(b)) = {b} /\ \A c \in Cuts(EncodeBlock(b)) : DecodeBlock(c) = {}
  <2> HIDE DEF b
  <2>. QED
    BY <1>1, BlockArrives, CutBlockRefused
<1>3. \A i, pool : pool \in Pools =>
        CompactTxOf(block, i).index = i /\ CompactTxOf(block, i)[pool] = block[i][pool]
  BY DEF CompactTxOf
<1>4. \A t, k, pool : pool \in Pools /\ b.txs[k] = CompactTxOf(block, t) =>
        FoundIn(k, pool) = There(t, pool)
  <2> TAKE t, k, pool
  <2> HAVE pool \in Pools /\ b.txs[k] = CompactTxOf(block, t)
  <2>1. b.txs[k].index = t /\ b.txs[k][pool] = block[t][pool]
    BY <1>3
  <2> HIDE DEF b
  <2>. QED
    BY <2>1, Zenon
<1>5. \A t, pool : (pool \in Pools /\ There(t, pool) # {}) =>
        block[t].orchard # << >> \/ block[t].ironwood # << >>
  <2> TAKE t, pool
  <2> HAVE pool \in Pools /\ There(t, pool) # {}
  <2>1. PICK i \in DOMAIN block[t][pool] : TRUE
    OBVIOUS
  <2>2. DOMAIN << >> = {}
    OBVIOUS
  <2>. QED
    BY <2>1, <2>2
<1>6. ToSet(b.txs) = {b.txs[t] : t \in DOMAIN b.txs}
  BY DEF ToSet
<1> HIDE DEF There, FoundIn
<1>7. ASSUME NEW t \in DOMAIN b.txs, NEW pool \in Pools
      PROVE  \E k \in DOMAIN block : FoundIn(t, pool) = There(k, pool)
  <2>1. PICK k \in DOMAIN block : b.txs[t] = CompactTxOf(block, k)
    <3> HIDE DEF b
    <3>. QED
      BY <1>1, <1>6
  <2>. QED
    BY <1>4, <2>1
<1>8. ASSUME NEW t \in DOMAIN block, NEW pool \in Pools, There(t, pool) # {}
      PROVE  \E k \in DOMAIN b.txs : FoundIn(k, pool) = There(t, pool)
  <2> HIDE DEF b
  <2>1. CompactTxOf(block, t) \in ToSet(b.txs)
    BY <1>1, <1>5, <1>8
  <2>2. PICK k \in DOMAIN b.txs : b.txs[k] = CompactTxOf(block, t)
    BY <1>6, <2>1
  <2>. QED
    BY <1>4, <2>2
<1> DEFINE places == UNION {There(t, pool) : t \in DOMAIN block, pool \in Pools}
           found == UNION {FoundIn(t, pool) : t \in DOMAIN b.txs, pool \in Pools}
<1>9. found = places
  <2> HIDE DEF b, Pools
  <2>1. \A x : x \in found <=> \E t \in DOMAIN b.txs, pool \in Pools : x \in FoundIn(t, pool)
    BY SMT
  <2>2. \A x : x \in places <=> \E t \in DOMAIN block, pool \in Pools : x \in There(t, pool)
    BY SMT
  <2> HIDE DEF places, found
  <2>3. ASSUME NEW x \in found PROVE x \in places
    BY <1>7, <2>1, <2>2
  <2>4. ASSUME NEW x \in places PROVE x \in found
    BY <1>8, <2>1, <2>2
  <2>. QED
    BY <2>3, <2>4
<1>10. Hits(b, ours) = found
  BY DEF Hits, FoundIn
<1>11. Hits(b, ours) = places
  <2> HIDE DEF b, found, places
  <2>. QED
    BY <1>9, <1>10
<1>12. \A sent : sent = {b} => (sent # {} /\ \A d \in sent : Hits(d, ours) = places)
  <2> HIDE DEF b, places
  <2>. QED
    BY <1>11
<1>13. /\ DecodeBlock(EncodeBlock(b)) # {}
       /\ \A d \in DecodeBlock(EncodeBlock(b)) : Hits(d, ours) = places
  <2> HIDE DEF b, places
  <2>. QED
    BY <1>2, <1>12, Zenon
<1>. QED
  BY <1>2, <1>13 DEF HitsAreThere, There

-----------------------------------------------------------------------------
(***************************************************************************)
(* Requests about values V, and the fields after its operation that each   *)
(* is read from.                                                           *)
(***************************************************************************)
RequestsOf(V) ==
  [op : {"INFO"}] \cup [op : {"BLOCKS"}, from : V, count : Nat]
    \cup [op : {"TX"}, txid : V] \cup [op : {"SEND"}, raw : V]
    \cup [op : {"TREESTATE"}, height : V, pool : {0, 1}] \cup [op : {"UTXOS"}, address : V]

(***************************************************************************)
(* What it is to have one field of some kinds.                            *)
(***************************************************************************)
LEMMA HasOne ==
  ASSUME NEW bytes, NEW at, NEW a
  PROVE  Has(bytes, at, <<a>>) <=>
           (/\ at + 1 <= Len(bytes)
            /\ bytes[at + 1].kind = a)
<1>1. /\ Len(<<a>>) = 1 /\ DOMAIN <<a>> = 1 .. 1
      /\ <<a>>[1] = a
  OBVIOUS
<1>2. 1 .. 1 = {1}
  OBVIOUS
<1>. QED
  BY <1>1, <1>2 DEF Has

(***************************************************************************)
(* What it is to have two fields of some kinds.                           *)
(***************************************************************************)
LEMMA HasTwo ==
  ASSUME NEW bytes, NEW at, NEW a, NEW b
  PROVE  Has(bytes, at, <<a, b>>) <=>
           (/\ at + 2 <= Len(bytes)
            /\ bytes[at + 1].kind = a /\ bytes[at + 2].kind = b)
<1>1. /\ Len(<<a, b>>) = 2 /\ DOMAIN <<a, b>> = 1 .. 2
      /\ <<a, b>>[1] = a /\ <<a, b>>[2] = b
  OBVIOUS
<1>2. 1 .. 2 = {1, 2}
  OBVIOUS
<1>. QED
  BY <1>1, <1>2 DEF Has

(***************************************************************************)
(* What it is to have three fields of some kinds.                         *)
(***************************************************************************)
LEMMA HasThree ==
  ASSUME NEW bytes, NEW at, NEW a, NEW b, NEW c
  PROVE  Has(bytes, at, <<a, b, c>>) <=>
           (/\ at + 3 <= Len(bytes)
            /\ bytes[at + 1].kind = a /\ bytes[at + 2].kind = b /\ bytes[at + 3].kind = c)
<1>1. /\ Len(<<a, b, c>>) = 3 /\ DOMAIN <<a, b, c>> = 1 .. 3
      /\ <<a, b, c>>[1] = a /\ <<a, b, c>>[2] = b /\ <<a, b, c>>[3] = c
  OBVIOUS
<1>2. 1 .. 3 = {1, 2, 3}
  OBVIOUS
<1>. QED
  BY <1>1, <1>2 DEF Has

(***************************************************************************)
(* What the server makes of a string, by the operation it begins with.     *)
(***************************************************************************)
LEMMA RequestReads ==
  ASSUME NEW bytes
  PROVE  /\ ~Has(bytes, 0, <<"op">>) => Request(bytes) = {}
         /\ (Has(bytes, 0, <<"op">>) /\ bytes[1].v = "INFO") => Request(bytes) = {[op |-> "INFO"]}
         /\ (Has(bytes, 0, <<"op">>) /\ bytes[1].v = "BLOCKS") =>
              Request(bytes) = Of(Has(bytes, 1, <<"u64", "u32">>),
                                  [op |-> "BLOCKS", from |-> bytes[2].v, count |-> AtMost(bytes[3].v)])
         /\ (Has(bytes, 0, <<"op">>) /\ bytes[1].v = "TX") =>
              Request(bytes) = Of(Has(bytes, 1, <<"b32">>),
                                  [op |-> "TX", txid |-> bytes[2].v])
         /\ (Has(bytes, 0, <<"op">>) /\ bytes[1].v = "SEND") =>
              Request(bytes) = Of(Has(bytes, 1, <<"string32">>),
                                  [op |-> "SEND", raw |-> bytes[2].v])
         /\ (Has(bytes, 0, <<"op">>) /\ bytes[1].v = "UTXOS") =>
              Request(bytes) = Of(Has(bytes, 1, <<"string16">>) /\ bytes[2].v # TooLong,
                                  [op |-> "UTXOS", address |-> bytes[2].v])
         /\ (Has(bytes, 0, <<"op">>) /\ bytes[1].v = "TREESTATE") =>
              Request(bytes) = Of(Has(bytes, 1, <<"u64", "u8">>) /\ bytes[3].v \in {0, 1},
                                  [op |-> "TREESTATE", height |-> bytes[2].v, pool |-> bytes[3].v])
<1>1. ASSUME Has(bytes, 0, <<"op">>), bytes[1].v = "INFO"
      PROVE  Request(bytes) = {[op |-> "INFO"]}
  BY <1>1 DEF Request
<1>2. ASSUME Has(bytes, 0, <<"op">>), bytes[1].v = "BLOCKS"
      PROVE  Request(bytes) = Of(Has(bytes, 1, <<"u64", "u32">>),
                            [op |-> "BLOCKS", from |-> bytes[2].v, count |-> AtMost(bytes[3].v)])
  BY <1>2 DEF Request
<1>3. ASSUME Has(bytes, 0, <<"op">>), bytes[1].v = "TX"
      PROVE  Request(bytes) = Of(Has(bytes, 1, <<"b32">>),
                            [op |-> "TX", txid |-> bytes[2].v])
  BY <1>3 DEF Request
<1>4. ASSUME Has(bytes, 0, <<"op">>), bytes[1].v = "SEND"
      PROVE  Request(bytes) = Of(Has(bytes, 1, <<"string32">>),
                            [op |-> "SEND", raw |-> bytes[2].v])
  BY <1>4 DEF Request
<1>5. ASSUME Has(bytes, 0, <<"op">>), bytes[1].v = "UTXOS"
      PROVE  Request(bytes) = Of(Has(bytes, 1, <<"string16">>) /\ bytes[2].v # TooLong,
                            [op |-> "UTXOS", address |-> bytes[2].v])
  BY <1>5 DEF Request
<1>6. ASSUME Has(bytes, 0, <<"op">>), bytes[1].v = "TREESTATE"
      PROVE  Request(bytes) = Of(Has(bytes, 1, <<"u64", "u8">>) /\ bytes[3].v \in {0, 1},
                            [op |-> "TREESTATE", height |-> bytes[2].v, pool |-> bytes[3].v])
  BY <1>6 DEF Request
<1>7. ~Has(bytes, 0, <<"op">>) => Request(bytes) = {}
  BY DEF Request
<1>. QED
  BY <1>1, <1>2, <1>3, <1>4, <1>5, <1>6, <1>7

(***************************************************************************)
(* A string that is read from a first field and fields of these kinds.     *)
(***************************************************************************)
ReadFrom(bytes, kinds, S) ==
  /\ bytes \in Seq(S) /\ kinds \in Seq(FieldKinds)
  /\ Len(kinds) > 0 /\ Len(bytes) <= 1 + Len(kinds)

(***************************************************************************)
(* The first field of what is left of a string that was cut.               *)
(***************************************************************************)
LEMMA FirstArrived ==
  ASSUME NEW S, NEW bytes \in Seq(S), NEW c, NEW m \in Nat, Intact(c, bytes, m),
         NEW first \in FieldKinds, Has(c, 0, <<first>>)
  PROVE  1 <= m /\ c[1] = bytes[1]
<1>1. PICK head : head = <<first>>
  OBVIOUS
<1>2. head \in Seq(FieldKinds) /\ Len(head) > 0 /\ Intact(c, bytes, m)
  BY <1>1
<1>3. \A p \in Nat : Has(c, p, head) =>
        p + Len(head) <= m /\ \A i \in 1 .. Len(head) : c[p + i] = bytes[p + i]
  BY <1>2, HasArrived
<1>4. Has(c, 0, head) /\ 0 \in Nat /\ Len(head) = 1
  BY <1>1
<1>5. 0 + Len(head) <= m /\ \A i \in 1 .. Len(head) : c[0 + i] = bytes[0 + i]
  BY <1>3, <1>4, Zenon
<1>. QED
  BY <1>4, <1>5

(***************************************************************************)
(* A string of one field that was cut has no first field.                  *)
(***************************************************************************)
LEMMA OneFieldCut ==
  ASSUME NEW S, NEW bytes \in Seq(S), Len(bytes) = 1, NEW c \in Cuts(bytes),
         NEW first \in FieldKinds
  PROVE  ~Has(c, 0, <<first>>)
<1>1. PICK m \in 0 .. Len(bytes) - 1 : Intact(c, bytes, m)
  BY CutsAre
<1>2. m \in Nat /\ m = 0
  BY <1>1
<1>3. Has(c, 0, <<first>>) => 1 <= m
  BY <1>1, <1>2, FirstArrived
<1>. QED
  BY <1>2, <1>3

(***************************************************************************)
(* Of a string that was cut, the fields after the first are not all read.  *)
(***************************************************************************)
LEMMA CutShort ==
  ASSUME NEW S, NEW bytes, NEW kinds, ReadFrom(bytes, kinds, S), NEW c \in Cuts(bytes),
         NEW first \in FieldKinds, Has(c, 0, <<first>>)
  PROVE  c[1] = bytes[1] /\ ~Has(c, 1, kinds)
<1>1. /\ bytes \in Seq(S) /\ kinds \in Seq(FieldKinds)
      /\ Len(kinds) > 0 /\ Len(bytes) <= 1 + Len(kinds)
  BY DEF ReadFrom
<1>2. PICK m \in 0 .. Len(bytes) - 1 : Intact(c, bytes, m)
  BY <1>1, CutsAre
<1>3. Len(bytes) \in Nat /\ Len(kinds) \in Nat
  BY <1>1, LenProperties
<1>4. m \in Nat /\ m < Len(bytes)
  BY <1>2, <1>3
<1>5. c[1] = bytes[1]
  BY <1>1, <1>2, <1>4, FirstArrived
<1>6. ASSUME Has(c, 1, kinds) PROVE FALSE
  <2>1. kinds \in Seq(FieldKinds) /\ Len(kinds) > 0 /\ Intact(c, bytes, m)
    BY <1>1, <1>2
  <2>2. 1 + Len(kinds) <= m
    BY <1>6, <2>1, HasArrived
  <2>. QED
    BY <1>1, <1>3, <1>4, <2>2
<1>. QED
  BY <1>5, <1>6

(***************************************************************************)
(* Requests arrive as they were meant or not at all (lightd.rs).           *)
(***************************************************************************)
THEOREM RequestsArrive ==
  ASSUME NEW V, NEW q \in RequestsOf(V)
  PROVE  RequestArrives(q)
<1> DEFINE meant == CASE q.op = "BLOCKS" -> {[q EXCEPT !.count = AtMost(@)]}
                      [] q.op = "UTXOS" -> {q} \ {[q EXCEPT !.address = TooLong]}
                      [] OTHER -> {q}
<1>1. q.op \in {"INFO", "BLOCKS", "TX", "SEND", "TREESTATE", "UTXOS"}
  BY DEF RequestsOf
<1>2. CASE q.op = "INFO"
  <2>1. q = [op |-> "INFO"]
    BY <1>2 DEF RequestsOf
  <2>2. PICK bytes : bytes = <<Field("op", "INFO")>>
    OBVIOUS
  <2>3. Ask(q) = bytes
    BY <1>2, <2>2 DEF Ask
  <2>4. /\ Len(bytes) = 1 /\ bytes[1] = Field("op", "INFO")
    BY <2>2
  <2>5. bytes \in Seq({Field("op", "INFO")})
    BY <2>2
  <2>6. /\ bytes[1].kind = "op" /\ bytes[1].v = "INFO"
    BY <2>4 DEF Field
  <2>7. Has(bytes, 0, <<"op">>)
    <3>1. Has(bytes, 0, <<"op">>) <=> (0 + 1 <= Len(bytes) /\ bytes[0 + 1].kind = "op")
      BY HasOne, Zenon
    <3>. QED
      BY <2>4, <2>6, <3>1
  <2>8. Request(bytes) = meant
    BY <1>2, <2>1, <2>6, <2>7, RequestReads
  <2>9. ASSUME NEW c \in Cuts(bytes) PROVE Request(c) = {}
    <3>1. ~Has(c, 0, <<"op">>)
      BY <2>4, <2>5, <2>9, OneFieldCut DEF FieldKinds
    <3>. QED
      BY <3>1, RequestReads
  <2>. QED
    BY <2>3, <2>8, <2>9 DEF RequestArrives
<1>3. CASE q.op = "BLOCKS"
  <2>1. q = [op |-> "BLOCKS", from |-> q.from, count |-> q.count] /\ q.count \in Nat
    BY <1>3 DEF RequestsOf
  <2>2. PICK bytes : bytes = <<Field("op", "BLOCKS"), Field("u64", q.from), Field("u32", AtMost(q.count))>>
    OBVIOUS
  <2>3. Ask(q) = bytes
    BY <1>3, <2>2 DEF Ask
  <2>4. /\ Len(bytes) = 3 /\ bytes[1] = Field("op", "BLOCKS")
        /\ bytes[2] = Field("u64", q.from) /\ bytes[3] = Field("u32", AtMost(q.count))
    BY <2>2
  <2>5. bytes \in Seq({Field("op", "BLOCKS"), Field("u64", q.from), Field("u32", AtMost(q.count))})
    BY <2>2
  <2>6. /\ bytes[1].kind = "op" /\ bytes[1].v = "BLOCKS"
        /\ bytes[2].kind = "u64" /\ bytes[2].v = q.from
        /\ bytes[3].kind = "u32" /\ bytes[3].v = AtMost(q.count)
    BY <2>4 DEF Field
  <2>7. Has(bytes, 0, <<"op">>) /\ Has(bytes, 1, <<"u64", "u32">>)
    <3>1. Has(bytes, 0, <<"op">>) <=> (0 + 1 <= Len(bytes) /\ bytes[0 + 1].kind = "op")
      BY HasOne, Zenon
    <3>2. Has(bytes, 1, <<"u64", "u32">>) <=>
            (1 + 2 <= Len(bytes) /\ bytes[1 + 1].kind = "u64" /\ bytes[1 + 2].kind = "u32")
      BY HasTwo, Zenon
    <3>. QED
      BY <2>4, <2>6, <3>1, <3>2
  <2>8. Request(bytes) = meant
    BY <1>3, <2>1, <2>6, <2>7, RequestReads, LightClientAssumption DEF Of, AtMost
  <2>9. ASSUME NEW c \in Cuts(bytes) PROVE Request(c) = {}
    <3>1. PICK kinds : kinds = <<"u64", "u32">>
      OBVIOUS
    <3>2. kinds \in Seq(FieldKinds) /\ Len(kinds) = 2 /\ "op" \in FieldKinds
      BY <3>1 DEF FieldKinds
    <3>3. ReadFrom(bytes, kinds, {Field("op", "BLOCKS"), Field("u64", q.from), Field("u32", AtMost(q.count))})
      BY <2>4, <2>5, <3>2 DEF ReadFrom
    <3>4. Has(c, 0, <<"op">>) => c[1] = bytes[1] /\ ~Has(c, 1, kinds)
      BY <2>9, <3>2, <3>3, CutShort, Zenon
    <3>5. Has(c, 0, <<"op">>) => ~Has(c, 1, <<"u64", "u32">>)
      BY <3>1, <3>4, Zenon
    <3>. QED
      BY <2>6, <3>4, <3>5, RequestReads DEF Of
  <2>. QED
    BY <2>3, <2>8, <2>9 DEF RequestArrives
<1>4. CASE q.op = "TX"
  <2>1. q = [op |-> "TX", txid |-> q.txid]
    BY <1>4 DEF RequestsOf
  <2>2. PICK bytes : bytes = <<Field("op", "TX"), Field("b32", q.txid)>>
    OBVIOUS
  <2>3. Ask(q) = bytes
    BY <1>4, <2>2 DEF Ask
  <2>4. /\ Len(bytes) = 2 /\ bytes[1] = Field("op", "TX")
        /\ bytes[2] = Field("b32", q.txid)
    BY <2>2
  <2>5. bytes \in Seq({Field("op", "TX"), Field("b32", q.txid)})
    BY <2>2
  <2>6. /\ bytes[1].kind = "op" /\ bytes[1].v = "TX"
        /\ bytes[2].kind = "b32" /\ bytes[2].v = q.txid
    BY <2>4 DEF Field
  <2>7. Has(bytes, 0, <<"op">>) /\ Has(bytes, 1, <<"b32">>)
    <3>1. Has(bytes, 0, <<"op">>) <=> (0 + 1 <= Len(bytes) /\ bytes[0 + 1].kind = "op")
      BY HasOne, Zenon
    <3>2. Has(bytes, 1, <<"b32">>) <=>
            (1 + 1 <= Len(bytes) /\ bytes[1 + 1].kind = "b32")
      BY HasOne, Zenon
    <3>. QED
      BY <2>4, <2>6, <3>1, <3>2
  <2>8. Request(bytes) = meant
    BY <1>4, <2>1, <2>6, <2>7, RequestReads, LightClientAssumption DEF Of, AtMost
  <2>9. ASSUME NEW c \in Cuts(bytes) PROVE Request(c) = {}
    <3>1. PICK kinds : kinds = <<"b32">>
      OBVIOUS
    <3>2. kinds \in Seq(FieldKinds) /\ Len(kinds) = 1 /\ "op" \in FieldKinds
      BY <3>1 DEF FieldKinds
    <3>3. ReadFrom(bytes, kinds, {Field("op", "TX"), Field("b32", q.txid)})
      BY <2>4, <2>5, <3>2 DEF ReadFrom
    <3>4. Has(c, 0, <<"op">>) => c[1] = bytes[1] /\ ~Has(c, 1, kinds)
      BY <2>9, <3>2, <3>3, CutShort, Zenon
    <3>5. Has(c, 0, <<"op">>) => ~Has(c, 1, <<"b32">>)
      BY <3>1, <3>4, Zenon
    <3>. QED
      BY <2>6, <3>4, <3>5, RequestReads DEF Of
  <2>. QED
    BY <2>3, <2>8, <2>9 DEF RequestArrives
<1>5. CASE q.op = "SEND"
  <2>1. q = [op |-> "SEND", raw |-> q.raw]
    BY <1>5 DEF RequestsOf
  <2>2. PICK bytes : bytes = <<Field("op", "SEND"), Field("string32", q.raw)>>
    OBVIOUS
  <2>3. Ask(q) = bytes
    BY <1>5, <2>2 DEF Ask
  <2>4. /\ Len(bytes) = 2 /\ bytes[1] = Field("op", "SEND")
        /\ bytes[2] = Field("string32", q.raw)
    BY <2>2
  <2>5. bytes \in Seq({Field("op", "SEND"), Field("string32", q.raw)})
    BY <2>2
  <2>6. /\ bytes[1].kind = "op" /\ bytes[1].v = "SEND"
        /\ bytes[2].kind = "string32" /\ bytes[2].v = q.raw
    BY <2>4 DEF Field
  <2>7. Has(bytes, 0, <<"op">>) /\ Has(bytes, 1, <<"string32">>)
    <3>1. Has(bytes, 0, <<"op">>) <=> (0 + 1 <= Len(bytes) /\ bytes[0 + 1].kind = "op")
      BY HasOne, Zenon
    <3>2. Has(bytes, 1, <<"string32">>) <=>
            (1 + 1 <= Len(bytes) /\ bytes[1 + 1].kind = "string32")
      BY HasOne, Zenon
    <3>. QED
      BY <2>4, <2>6, <3>1, <3>2
  <2>8. Request(bytes) = meant
    BY <1>5, <2>1, <2>6, <2>7, RequestReads, LightClientAssumption DEF Of, AtMost
  <2>9. ASSUME NEW c \in Cuts(bytes) PROVE Request(c) = {}
    <3>1. PICK kinds : kinds = <<"string32">>
      OBVIOUS
    <3>2. kinds \in Seq(FieldKinds) /\ Len(kinds) = 1 /\ "op" \in FieldKinds
      BY <3>1 DEF FieldKinds
    <3>3. ReadFrom(bytes, kinds, {Field("op", "SEND"), Field("string32", q.raw)})
      BY <2>4, <2>5, <3>2 DEF ReadFrom
    <3>4. Has(c, 0, <<"op">>) => c[1] = bytes[1] /\ ~Has(c, 1, kinds)
      BY <2>9, <3>2, <3>3, CutShort, Zenon
    <3>5. Has(c, 0, <<"op">>) => ~Has(c, 1, <<"string32">>)
      BY <3>1, <3>4, Zenon
    <3>. QED
      BY <2>6, <3>4, <3>5, RequestReads DEF Of
  <2>. QED
    BY <2>3, <2>8, <2>9 DEF RequestArrives
<1>6. CASE q.op = "TREESTATE"
  <2>1. q = [op |-> "TREESTATE", height |-> q.height, pool |-> q.pool] /\ q.pool \in {0, 1}
    BY <1>6 DEF RequestsOf
  <2>2. PICK bytes : bytes = <<Field("op", "TREESTATE"), Field("u64", q.height), Field("u8", q.pool)>>
    OBVIOUS
  <2>3. Ask(q) = bytes
    BY <1>6, <2>2 DEF Ask
  <2>4. /\ Len(bytes) = 3 /\ bytes[1] = Field("op", "TREESTATE")
        /\ bytes[2] = Field("u64", q.height) /\ bytes[3] = Field("u8", q.pool)
    BY <2>2
  <2>5. bytes \in Seq({Field("op", "TREESTATE"), Field("u64", q.height), Field("u8", q.pool)})
    BY <2>2
  <2>6. /\ bytes[1].kind = "op" /\ bytes[1].v = "TREESTATE"
        /\ bytes[2].kind = "u64" /\ bytes[2].v = q.height
        /\ bytes[3].kind = "u8" /\ bytes[3].v = q.pool
    BY <2>4 DEF Field
  <2>7. Has(bytes, 0, <<"op">>) /\ Has(bytes, 1, <<"u64", "u8">>)
    <3>1. Has(bytes, 0, <<"op">>) <=> (0 + 1 <= Len(bytes) /\ bytes[0 + 1].kind = "op")
      BY HasOne, Zenon
    <3>2. Has(bytes, 1, <<"u64", "u8">>) <=>
            (1 + 2 <= Len(bytes) /\ bytes[1 + 1].kind = "u64" /\ bytes[1 + 2].kind = "u8")
      BY HasTwo, Zenon
    <3>. QED
      BY <2>4, <2>6, <3>1, <3>2
  <2>8. Request(bytes) = meant
    BY <1>6, <2>1, <2>6, <2>7, RequestReads, LightClientAssumption DEF Of, AtMost
  <2>9. ASSUME NEW c \in Cuts(bytes) PROVE Request(c) = {}
    <3>1. PICK kinds : kinds = <<"u64", "u8">>
      OBVIOUS
    <3>2. kinds \in Seq(FieldKinds) /\ Len(kinds) = 2 /\ "op" \in FieldKinds
      BY <3>1 DEF FieldKinds
    <3>3. ReadFrom(bytes, kinds, {Field("op", "TREESTATE"), Field("u64", q.height), Field("u8", q.pool)})
      BY <2>4, <2>5, <3>2 DEF ReadFrom
    <3>4. Has(c, 0, <<"op">>) => c[1] = bytes[1] /\ ~Has(c, 1, kinds)
      BY <2>9, <3>2, <3>3, CutShort, Zenon
    <3>5. Has(c, 0, <<"op">>) => ~Has(c, 1, <<"u64", "u8">>)
      BY <3>1, <3>4, Zenon
    <3>. QED
      BY <2>6, <3>4, <3>5, RequestReads DEF Of
  <2>. QED
    BY <2>3, <2>8, <2>9 DEF RequestArrives
<1>7. CASE q.op = "UTXOS"
  <2>1. q = [op |-> "UTXOS", address |-> q.address]
    BY <1>7 DEF RequestsOf
  <2>2. PICK bytes : bytes = <<Field("op", "UTXOS"), Field("string16", q.address)>>
    OBVIOUS
  <2>3. Ask(q) = bytes
    BY <1>7, <2>2 DEF Ask
  <2>4. /\ Len(bytes) = 2 /\ bytes[1] = Field("op", "UTXOS")
        /\ bytes[2] = Field("string16", q.address)
    BY <2>2
  <2>5. bytes \in Seq({Field("op", "UTXOS"), Field("string16", q.address)})
    BY <2>2
  <2>6. /\ bytes[1].kind = "op" /\ bytes[1].v = "UTXOS"
        /\ bytes[2].kind = "string16" /\ bytes[2].v = q.address
    BY <2>4 DEF Field
  <2>7. Has(bytes, 0, <<"op">>) /\ Has(bytes, 1, <<"string16">>)
    <3>1. Has(bytes, 0, <<"op">>) <=> (0 + 1 <= Len(bytes) /\ bytes[0 + 1].kind = "op")
      BY HasOne, Zenon
    <3>2. Has(bytes, 1, <<"string16">>) <=>
            (1 + 1 <= Len(bytes) /\ bytes[1 + 1].kind = "string16")
      BY HasOne, Zenon
    <3>. QED
      BY <2>4, <2>6, <3>1, <3>2
  <2>8. Request(bytes) = meant
    BY <1>7, <2>1, <2>6, <2>7, RequestReads, LightClientAssumption DEF Of, AtMost
  <2>9. ASSUME NEW c \in Cuts(bytes) PROVE Request(c) = {}
    <3>1. PICK kinds : kinds = <<"string16">>
      OBVIOUS
    <3>2. kinds \in Seq(FieldKinds) /\ Len(kinds) = 1 /\ "op" \in FieldKinds
      BY <3>1 DEF FieldKinds
    <3>3. ReadFrom(bytes, kinds, {Field("op", "UTXOS"), Field("string16", q.address)})
      BY <2>4, <2>5, <3>2 DEF ReadFrom
    <3>4. Has(c, 0, <<"op">>) => c[1] = bytes[1] /\ ~Has(c, 1, kinds)
      BY <2>9, <3>2, <3>3, CutShort, Zenon
    <3>5. Has(c, 0, <<"op">>) => ~Has(c, 1, <<"string16">>)
      BY <3>1, <3>4, Zenon
    <3>. QED
      BY <2>6, <3>4, <3>5, RequestReads DEF Of
  <2>. QED
    BY <2>3, <2>8, <2>9 DEF RequestArrives
<1>. QED
  BY <1>1, <1>2, <1>3, <1>4, <1>5, <1>6, <1>7

(***************************************************************************)
(* Answers about values V; the outputs they list.                          *)
(***************************************************************************)
UtxosOf(V) == [txid : V, index : Nat, value : V, height : V, script : V]

AnswersOf(V) ==
  [op : {"INFO"}, network : V, tip : Nat, branch : Nat, estimated : Nat]
    \cup [op : {"BLOCKS"}, blocks : Seq(CompactBlocks(V))]
    \cup [op : {"TX"}, raw : V] \cup [op : {"SEND"}, txid : V]
    \cup [op : {"TREESTATE"}, root : V, frontier : V]
    \cup [op : {"UTXOS"}, utxos : Seq(UtxosOf(V))]

(***************************************************************************)
(* What a client reads from an answer of each kind: the estimate, the      *)
(* blocks, the outputs; and an answer that is no error.                    *)
(***************************************************************************)
Fine(bytes) == Has(bytes, 0, <<"u8">>) /\ bytes[1].v = 0

EstimatedOf(bytes) ==
  IF Has(bytes, 4, <<"u64">>) /\ bytes[5].v >= bytes[3].v THEN bytes[5].v ELSE bytes[3].v

BlocksSent(bytes) == Column(bytes, 1, <<"string32">>, 1)

BlocksRead(sent) == [i \in DOMAIN sent |-> CHOOSE b \in DecodeBlock(sent[i]) : TRUE]

UtxosRead(bytes) ==
  [i \in 1 .. bytes[2].v |->
     [txid |-> Column(bytes, 1, UtxoFields, 1)[i], index |-> Column(bytes, 1, UtxoFields, 2)[i],
      value |-> Column(bytes, 1, UtxoFields, 3)[i], height |-> Column(bytes, 1, UtxoFields, 4)[i],
      script |-> Column(bytes, 1, UtxoFields, 5)[i]]]

(***************************************************************************)
(* What the client makes of a string, by what it asked.                    *)
(***************************************************************************)
LEMMA AnswerReads ==
  ASSUME NEW bytes
  PROVE  /\ \A op : ~Fine(bytes) => Answer(op, bytes) = {}
         /\ Fine(bytes) =>
              Answer("INFO", bytes) =
                Of(Has(bytes, 1, <<"u8", "u64", "u32">>),
                   [op |-> "INFO", network |-> bytes[2].v, tip |-> bytes[3].v, branch |-> bytes[4].v,
                  estimated |-> EstimatedOf(bytes)])
         /\ Fine(bytes) =>
              Answer("BLOCKS", bytes) =
                Of(HasMany(bytes, 1, <<"string32">>)
                   /\ \A i \in DOMAIN BlocksSent(bytes) : DecodeBlock(BlocksSent(bytes)[i]) # {},
                   [op |-> "BLOCKS", blocks |-> BlocksRead(BlocksSent(bytes))])
         /\ Fine(bytes) =>
              Answer("TX", bytes) =
                Of(Has(bytes, 1, <<"string32">>),
                   [op |-> "TX", raw |-> bytes[2].v])
         /\ Fine(bytes) =>
              Answer("SEND", bytes) =
                Of(Has(bytes, 1, <<"string16">>),
                   [op |-> "SEND", txid |-> bytes[2].v])
         /\ Fine(bytes) =>
              Answer("TREESTATE", bytes) =
                Of(Has(bytes, 1, <<"b32", "string32">>),
                   [op |-> "TREESTATE", root |-> bytes[2].v, frontier |-> bytes[3].v])
         /\ Fine(bytes) =>
              Answer("UTXOS", bytes) =
                Of(HasMany(bytes, 1, UtxoFields),
                   [op |-> "UTXOS", utxos |-> UtxosRead(bytes)])
<1>1. \A op : ~Fine(bytes) => Answer(op, bytes) = {}
  BY DEF Answer, Fine
<1>2. ASSUME Fine(bytes)
      PROVE  Answer("INFO", bytes) =
               Of(Has(bytes, 1, <<"u8", "u64", "u32">>),
                  [op |-> "INFO", network |-> bytes[2].v, tip |-> bytes[3].v, branch |-> bytes[4].v,
                  estimated |-> EstimatedOf(bytes)])
  BY <1>2 DEF Answer, Fine, EstimatedOf
<1>3. ASSUME Fine(bytes)
      PROVE  Answer("BLOCKS", bytes) =
               Of(HasMany(bytes, 1, <<"string32">>)
                   /\ \A i \in DOMAIN BlocksSent(bytes) : DecodeBlock(BlocksSent(bytes)[i]) # {},
                  [op |-> "BLOCKS", blocks |-> BlocksRead(BlocksSent(bytes))])
  BY <1>3 DEF Answer, Fine, BlocksSent, BlocksRead
<1>4. ASSUME Fine(bytes)
      PROVE  Answer("TX", bytes) =
               Of(Has(bytes, 1, <<"string32">>),
                  [op |-> "TX", raw |-> bytes[2].v])
  BY <1>4 DEF Answer, Fine
<1>5. ASSUME Fine(bytes)
      PROVE  Answer("SEND", bytes) =
               Of(Has(bytes, 1, <<"string16">>),
                  [op |-> "SEND", txid |-> bytes[2].v])
  BY <1>5 DEF Answer, Fine
<1>6. ASSUME Fine(bytes)
      PROVE  Answer("TREESTATE", bytes) =
               Of(Has(bytes, 1, <<"b32", "string32">>),
                  [op |-> "TREESTATE", root |-> bytes[2].v, frontier |-> bytes[3].v])
  BY <1>6 DEF Answer, Fine
<1>7. ASSUME Fine(bytes)
      PROVE  Answer("UTXOS", bytes) =
               Of(HasMany(bytes, 1, UtxoFields),
                  [op |-> "UTXOS", utxos |-> UtxosRead(bytes)])
  BY <1>7 DEF Answer, Fine, UtxosRead
<1>. QED
  BY <1>1, <1>2, <1>3, <1>4, <1>5, <1>6, <1>7

(***************************************************************************)
(* The strings of fields of V are values themselves.                       *)
(***************************************************************************)
WithStrings(V) == V \cup Seq(FieldsOf(V))

(***************************************************************************)
(* A list of blocks is written as the list of their strings, from which    *)
(* each is read.                                                           *)
(***************************************************************************)
LEMMA BlocksListed ==
  ASSUME NEW V, Numbers(V), NEW blocks \in Seq(CompactBlocks(V)), NEW kinds, kinds = <<"string32">>
  PROVE  \E sent \in Seq(WithStrings(V)) :
           /\ ListArrives(kinds,
                          PutMany([i \in DOMAIN blocks |-> <<Field("string32", EncodeBlock(blocks[i]))>>]),
                          sent, WithStrings(V))
           /\ \A i \in DOMAIN sent : DecodeBlock(sent[i]) # {}
           /\ BlocksRead(sent) = blocks
<1> DEFINE W == WithStrings(V)
           sent == [i \in DOMAIN blocks |-> EncodeBlock(blocks[i])]
           written == PutMany([i \in DOMAIN blocks |-> <<Field("string32", EncodeBlock(blocks[i]))>>])
<1>1. /\ Len(blocks) \in Nat /\ DOMAIN blocks = 1 .. Len(blocks)
      /\ blocks = [i \in 1 .. Len(blocks) |-> blocks[i]]
      /\ \A i \in 1 .. Len(blocks) : blocks[i] \in CompactBlocks(V)
  BY LenProperties, ElementOfSeq
<1>2. \A b \in CompactBlocks(V) : EncodeBlock(b) \in W /\ DecodeBlock(EncodeBlock(b)) = {b}
  <2> TAKE b \in CompactBlocks(V)
  <2>1. EncodeBlock(b) \in Seq(FieldsOf(V))
    BY EncodingIs
  <2>2. DecodeBlock(EncodeBlock(b)) = {b}
    BY BlockArrives
  <2>. QED
    BY <2>1, <2>2, Zenon DEF WithStrings
<1>3. Numbers(W)
  BY DEF Numbers, WithStrings
<1>4. PutMany(Singles("string32", sent)) = written /\ DOMAIN sent = DOMAIN blocks
  <2>1. \A i \in DOMAIN blocks : sent[i] = EncodeBlock(blocks[i])
    OBVIOUS
  <2>2. DOMAIN sent = DOMAIN blocks
    OBVIOUS
  <2> HIDE DEF sent
  <2>3. Singles("string32", sent) = [i \in DOMAIN blocks |-> <<Field("string32", EncodeBlock(blocks[i]))>>]
    BY <2>1, <2>2, Zenon DEF Singles
  <2>. QED
    BY <2>2, <2>3, Zenon
<1>5. \A i \in 1 .. Len(blocks) : sent[i] = EncodeBlock(blocks[i])
  BY <1>1
<1> HIDE DEF W, sent, written
<1>6. sent \in Seq(W)
  <2>1. sent \in [1 .. Len(blocks) -> W]
    <3>1. sent = [i \in 1 .. Len(blocks) |-> EncodeBlock(blocks[i])]
      BY <1>1, Zenon DEF sent
    <3>2. \A i \in 1 .. Len(blocks) : EncodeBlock(blocks[i]) \in W
      BY <1>1, <1>2
    <3>. QED
      BY <3>1, <3>2
  <2>. QED
    BY <1>1, <2>1, FunctionIsSequence
<1>7. "string32" \in FieldKinds \ {"u32"}
  BY DEF FieldKinds
<1>8. ListArrives(kinds, written, sent, W)
  BY <1>3, <1>4, <1>6, <1>7, SinglesArrive, Zenon
<1>9. \A i \in DOMAIN sent : DecodeBlock(sent[i]) = {blocks[i]}
  BY <1>1, <1>2, <1>4, <1>5
<1>10. BlocksRead(sent) = blocks
  <2>1. \A i \in DOMAIN sent : (CHOOSE b \in DecodeBlock(sent[i]) : TRUE) = blocks[i]
    BY <1>9
  <2>2. BlocksRead(sent) = [i \in DOMAIN sent |-> blocks[i]]
    BY <2>1 DEF BlocksRead
  <2>. QED
    BY <1>1, <1>4, <2>2
<1>11. \A i \in DOMAIN sent : DecodeBlock(sent[i]) # {}
  BY <1>9
<1>. QED
  BY <1>6, <1>8, <1>10, <1>11 DEF W, written

(***************************************************************************)
(* A list of unspent outputs is read as it was written.                    *)
(***************************************************************************)
LEMMA UtxosListed ==
  ASSUME NEW V, Numbers(V), NEW utxos \in Seq(UtxosOf(V)),
         NEW written, written = PutMany([i \in DOMAIN utxos |-> PutUtxo(utxos[i])])
  PROVE  /\ written \in Seq(FieldsOf(V))
         /\ \A bytes : Holds(bytes, 1, written) =>
              /\ HasMany(bytes, 1, UtxoFields)
              /\ PastMany(bytes, 1, UtxoFields) = 1 + Len(written)
              /\ UtxosRead(bytes) = utxos
<1> DEFINE S == FieldsOf(V)
           P == Seq(S)
           n == Len(utxos)
           recs == [i \in DOMAIN utxos |-> PutUtxo(utxos[i])]
<1>1. /\ n \in Nat /\ DOMAIN utxos = 1 .. n /\ utxos = [i \in 1 .. n |-> utxos[i]]
      /\ \A i \in 1 .. n : utxos[i] \in UtxosOf(V)
  BY LenProperties, ElementOfSeq
<1>2. \A i \in 1 .. n : recs[i] = PutUtxo(utxos[i])
  BY <1>1
<1>3. ASSUME NEW u \in UtxosOf(V)
      PROVE  /\ PutUtxo(u) \in P /\ Len(PutUtxo(u)) = 5
             /\ \A j \in 1 .. 5 : PutUtxo(u)[j].kind = UtxoFields[j]
             /\ u = [txid |-> PutUtxo(u)[1].v, index |-> PutUtxo(u)[2].v,
                     value |-> PutUtxo(u)[3].v, height |-> PutUtxo(u)[4].v,
                     script |-> PutUtxo(u)[5].v]
  <2>1. /\ Field("b32", u.txid) \in S /\ Field("u32", u.index) \in S
        /\ Field("u64", u.value) \in S /\ Field("u64", u.height) \in S
        /\ Field("string16", u.script) \in S
    BY DEF UtxosOf, Field, FieldsOf, FieldKinds, Numbers
  <2>2. u = [txid |-> u.txid, index |-> u.index, value |-> u.value, height |-> u.height,
             script |-> u.script]
    BY DEF UtxosOf
  <2>3. PICK p : p = PutUtxo(u)
    OBVIOUS
  <2> HIDE DEF S
  <2>4. p \in P
    BY <2>1, <2>3 DEF PutUtxo
  <2>5. /\ Len(p) = 5 /\ p[1] = Field("b32", u.txid) /\ p[2] = Field("u32", u.index)
        /\ p[3] = Field("u64", u.value) /\ p[4] = Field("u64", u.height)
        /\ p[5] = Field("string16", u.script)
    BY <2>3 DEF PutUtxo
  <2>6. /\ UtxoFields[1] = "b32" /\ UtxoFields[2] = "u32" /\ UtxoFields[3] = "u64"
        /\ UtxoFields[4] = "u64" /\ UtxoFields[5] = "string16"
    BY DEF UtxoFields
  <2>7. \A j \in 1 .. 5 : p[j].kind = UtxoFields[j]
    BY <2>5, <2>6 DEF Field
  <2>8. /\ p[1].v = u.txid /\ p[2].v = u.index /\ p[3].v = u.value /\ p[4].v = u.height
        /\ p[5].v = u.script
    BY <2>5 DEF Field
  <2>. QED
    BY <2>2, <2>3, <2>4, <2>5, <2>7, <2>8
<1>4. UtxoFields \in Seq(FieldKinds) /\ Len(UtxoFields) = 5
  BY DEF UtxoFields, FieldKinds
<1>5. recs \in [1 .. n -> P]
  BY <1>1, <1>3
<1> HIDE DEF S, P, n, recs
<1>6. recs \in Seq(P) /\ Len(recs) = n
  BY <1>1, <1>5, FunctionIsSequence
<1>7. AreRecords(recs, UtxoFields, S)
  <2>1. recs \in Seq(Seq(S))
    BY <1>6 DEF P
  <2>2. \A i \in 1 .. Len(recs) :
          /\ Len(recs[i]) = Len(UtxoFields)
          /\ \A j \in 1 .. Len(UtxoFields) : recs[i][j].kind = UtxoFields[j]
    BY <1>1, <1>2, <1>3, <1>4, <1>6
  <2>. QED
    BY <1>4, <2>1, <2>2, Zenon DEF AreRecords
<1>8. written = PutMany(recs)
  BY DEF recs
<1>9. written \in Seq(S)
  <2>1. /\ <<Field("u32", Len(recs))>> \in Seq(S) /\ FlattenSeq(recs) \in Seq(S)
        /\ PutMany(recs) \in Seq(S) /\ Len(PutMany(recs)) = 1 + Len(UtxoFields) * Len(recs)
    BY <1>7, ManyAre, Zenon DEF S
  <2>. QED
    BY <1>8, <2>1
<1>10. ASSUME NEW bytes, Holds(bytes, 1, written)
       PROVE  /\ HasMany(bytes, 1, UtxoFields)
              /\ PastMany(bytes, 1, UtxoFields) = 1 + Len(written)
              /\ UtxosRead(bytes) = utxos
  <2>1. ReadsAs(bytes, 1, UtxoFields, recs)
    BY <1>7, <1>8, <1>10, ManyArrive, Zenon DEF S
  <2>2. /\ bytes[1 + 1].v = n
        /\ \A j \in 1 .. 5 : Column(bytes, 1, UtxoFields, j) = [i \in 1 .. n |-> recs[i][j].v]
    BY <1>4, <1>6, <2>1 DEF ReadsAs
  <2>3. ASSUME NEW i \in 1 .. n
        PROVE  utxos[i] = [txid |-> Column(bytes, 1, UtxoFields, 1)[i],
                           index |-> Column(bytes, 1, UtxoFields, 2)[i],
                           value |-> Column(bytes, 1, UtxoFields, 3)[i],
                           height |-> Column(bytes, 1, UtxoFields, 4)[i],
                           script |-> Column(bytes, 1, UtxoFields, 5)[i]]
    <3>1. \A j \in 1 .. 5 : Column(bytes, 1, UtxoFields, j)[i] = recs[i][j].v
      BY <2>2
    <3>2. recs[i] = PutUtxo(utxos[i]) /\ utxos[i] \in UtxosOf(V)
      BY <1>1, <1>2
    <3>3. utxos[i] = [txid |-> recs[i][1].v, index |-> recs[i][2].v, value |-> recs[i][3].v,
                      height |-> recs[i][4].v, script |-> recs[i][5].v]
      BY <1>3, <3>2, Zenon
    <3>. QED
      BY <3>1, <3>3
  <2>4. UtxosRead(bytes) = [i \in 1 .. n |-> utxos[i]]
    BY <2>2, <2>3 DEF UtxosRead
  <2>. QED
    BY <1>1, <1>8, <2>1, <2>4 DEF ReadsAs
<1>. QED
  BY <1>9, <1>10 DEF S

(***************************************************************************)
(* An answer is its status and what is written after it.                   *)
(***************************************************************************)
LEMMA ReplyIs ==
  ASSUME NEW S, NEW rest \in Seq(S), Field("u8", 0) \in S, NEW bytes,
         bytes = <<Field("u8", 0)>> \o rest
  PROVE  /\ bytes \in Seq(S) /\ Len(bytes) = 1 + Len(rest) /\ Len(rest) \in Nat
         /\ Fine(bytes) /\ Holds(bytes, 1, rest)
<1>1. PICK status : status = <<Field("u8", 0)>>
  OBVIOUS
<1>2. status \in Seq(S) /\ Len(status) = 1 /\ status[1] = Field("u8", 0)
  BY <1>1
<1>3. bytes = status \o rest /\ Len(rest) \in Nat
  BY <1>1, LenProperties
<1>4. /\ bytes \in Seq(S) /\ Len(bytes) = Len(status) + Len(rest)
      /\ \A i \in 1 .. Len(status) + Len(rest) :
           bytes[i] = IF i <= Len(status) THEN status[i] ELSE rest[i - Len(status)]
  BY <1>2, <1>3, ConcatProperties
<1>5. bytes[1] = Field("u8", 0)
  BY <1>2, <1>3, <1>4
<1>6. ASSUME NEW j \in 1 .. Len(rest) PROVE bytes[1 + j] = rest[j]
  BY <1>2, <1>3, <1>4
<1>7. Fine(bytes)
  <2>1. Has(bytes, 0, <<"u8">>) <=> (0 + 1 <= Len(bytes) /\ bytes[0 + 1].kind = "u8")
    BY HasOne, Zenon
  <2>. QED
    BY <1>2, <1>3, <1>4, <1>5, <2>1 DEF Fine, Field
<1>. QED
  BY <1>2, <1>3, <1>4, <1>6, <1>7 DEF Holds

(***************************************************************************)
(* A list that ends with its string is not read of less.                   *)
(***************************************************************************)
LEMMA ListCut ==
  ASSUME NEW V, NEW bytes \in Seq(FieldsOf(V)), NEW kinds \in Seq(FieldKinds), Len(kinds) > 0,
         PastMany(bytes, 1, kinds) = Len(bytes), NEW c \in Cuts(bytes)
  PROVE  ~HasMany(c, 1, kinds)
<1>1. PICK m \in 0 .. Len(bytes) - 1 : Intact(c, bytes, m)
  BY CutsAre
<1>2. Counts(bytes) /\ Len(bytes) \in Nat
  BY WholeIs, LenProperties
<1>3. ASSUME HasMany(c, 1, kinds) PROVE FALSE
  <2>1. PastMany(bytes, 1, kinds) <= m
    BY <1>1, <1>2, <1>3, ManyArrived
  <2>. QED
    BY <1>1, <1>2, <2>1
<1>. QED
  BY <1>3

(***************************************************************************)
(* What it is to have the fields of an answer about the node.              *)
(***************************************************************************)
InfoWhole(c) == Has(c, 1, <<"u8", "u64", "u32">>)
EstimateSent(c) == Has(c, 4, <<"u64">>)

(***************************************************************************)
(* They are had if the string is long enough and they are of their kinds.  *)
(***************************************************************************)
LEMMA InfoHas ==
  ASSUME NEW c
  PROVE  /\ Fine(c) <=> (1 <= Len(c) /\ c[1].kind = "u8" /\ c[1].v = 0)
         /\ EstimateSent(c) <=> (5 <= Len(c) /\ c[5].kind = "u64")
         /\ InfoWhole(c) <=> (/\ 4 <= Len(c) /\ c[2].kind = "u8" /\ c[3].kind = "u64"
                             /\ c[4].kind = "u32")
<1>1. Has(c, 0, <<"u8">>) <=> (0 + 1 <= Len(c) /\ c[0 + 1].kind = "u8")
  BY HasOne, Zenon
<1>2. EstimateSent(c) <=> (4 + 1 <= Len(c) /\ c[4 + 1].kind = "u64")
  BY HasOne, Zenon DEF EstimateSent
<1>3. InfoWhole(c) <=>
        (/\ 1 + 3 <= Len(c)
         /\ c[1 + 1].kind = "u8" /\ c[1 + 2].kind = "u64" /\ c[1 + 3].kind = "u32")
  BY HasThree, Zenon DEF InfoWhole
<1>4. Fine(c) <=> (0 + 1 <= Len(c) /\ c[0 + 1].kind = "u8" /\ c[1].v = 0)
  BY <1>1, Zenon DEF Fine
<1>. QED
  BY <1>2, <1>3, <1>4

(***************************************************************************)
(* The answer about the node: cut short, it is refused, unless only the    *)
(* estimate is missing.                                                    *)
(***************************************************************************)
LEMMA InfoArrives ==
  ASSUME NEW V, NEW a \in [op : {"INFO"}, network : V, tip : Nat, branch : Nat, estimated : Nat]
  PROVE  AnswerArrives(a)
<1>1. /\ a = [op |-> "INFO", network |-> a.network, tip |-> a.tip, branch |-> a.branch,
              estimated |-> a.estimated]
      /\ a.op = "INFO" /\ a.tip \in Nat /\ a.estimated \in Nat
  OBVIOUS
<1>2. PICK rest : rest = <<Field("u8", a.network), Field("u64", a.tip), Field("u32", a.branch),
                           Field("u64", a.estimated)>>
  OBVIOUS
<1> DEFINE S == {Field("u8", 0), Field("u8", a.network), Field("u64", a.tip),
                 Field("u32", a.branch), Field("u64", a.estimated)}
<1>3. /\ rest \in Seq(S) /\ Field("u8", 0) \in S /\ Len(rest) = 4
      /\ rest[1] = Field("u8", a.network) /\ rest[2] = Field("u64", a.tip)
      /\ rest[3] = Field("u32", a.branch) /\ rest[4] = Field("u64", a.estimated)
  BY <1>2
<1>4. PICK bytes : bytes = <<Field("u8", 0)>> \o rest
  OBVIOUS
<1>5. Reply(a) = bytes
  BY <1>1, <1>2, <1>4, Zenon DEF Reply
<1> HIDE DEF S
<1>6. /\ bytes \in Seq(S) /\ Len(bytes) = 5 /\ Fine(bytes)
      /\ \A j \in 1 .. 4 : bytes[1 + j] = rest[j]
  <2>1. /\ bytes \in Seq(S) /\ Len(bytes) = 1 + Len(rest) /\ Len(rest) \in Nat
        /\ Fine(bytes) /\ Holds(bytes, 1, rest)
    <3>1. rest \in Seq(S) /\ Field("u8", 0) \in S
      BY <1>3
    <3>. QED
      BY <1>4, <3>1, ReplyIs
  <2>. QED
    BY <1>3, <2>1 DEF Holds
<1>7. /\ bytes[2] = Field("u8", a.network) /\ bytes[3] = Field("u64", a.tip)
      /\ bytes[4] = Field("u32", a.branch) /\ bytes[5] = Field("u64", a.estimated)
  BY <1>3, <1>6
<1>8. /\ bytes[2].kind = "u8" /\ bytes[3].kind = "u64" /\ bytes[4].kind = "u32"
      /\ bytes[5].kind = "u64" /\ bytes[2].v = a.network /\ bytes[3].v = a.tip
      /\ bytes[4].v = a.branch /\ bytes[5].v = a.estimated
  BY <1>7 DEF Field
<1>9. bytes[1].kind = "u8" /\ bytes[1].v = 0
  BY <1>6, InfoHas
<1>10. Answer("INFO", bytes)
         = {[op |-> "INFO", network |-> a.network, tip |-> a.tip, branch |-> a.branch,
             estimated |-> IF a.estimated >= a.tip THEN a.estimated ELSE a.tip]}
  <2>1. InfoWhole(bytes) /\ EstimateSent(bytes)
    BY <1>6, <1>8, InfoHas
  <2>2. EstimatedOf(bytes) = IF a.estimated >= a.tip THEN a.estimated ELSE a.tip
    BY <1>8, <2>1, Zenon DEF EstimatedOf, EstimateSent
  <2>3. Answer("INFO", bytes)
          = Of(InfoWhole(bytes),
               [op |-> "INFO", network |-> bytes[2].v, tip |-> bytes[3].v,
                branch |-> bytes[4].v, estimated |-> EstimatedOf(bytes)])
    BY <1>6, AnswerReads, Zenon DEF InfoWhole
  <2>. QED
    BY <1>8, <2>1, <2>2, <2>3, Zenon DEF Of
<1>11. Answer("INFO", bytes)
         = {IF a.op = "INFO" /\ a.estimated < a.tip THEN [a EXCEPT !.estimated = a.tip] ELSE a}
  BY <1>1, <1>10
<1>12. ASSUME NEW c \in Cuts(bytes)
       PROVE  Answer("INFO", c) = IF Len(c) >= 4 /\ c[4].kind # "partial"
                                    THEN {[a EXCEPT !.estimated = a.tip]} ELSE {}
  <2>1. PICK m \in 0 .. 4 : Intact(c, bytes, m)
    <3>1. PICK m \in 0 .. Len(bytes) - 1 : Intact(c, bytes, m)
      BY <1>6, CutsAre
    <3>. QED
      BY <1>6, <3>1
  <2>2. /\ Len(c) \in Nat /\ m \in Nat /\ m <= Len(c) /\ \A i \in 1 .. m : c[i] = bytes[i]
        /\ \A i \in m + 1 .. Len(c) : c[i].kind = "partial"
    BY <2>1 DEF Intact
  <2>3. ~Fine(c) => Answer("INFO", c) = {}
    BY AnswerReads, Zenon
  <2>4. Fine(c) => Answer("INFO", c)
                     = Of(InfoWhole(c),
                          [op |-> "INFO", network |-> c[2].v, tip |-> c[3].v,
                           branch |-> c[4].v, estimated |-> EstimatedOf(c)])
    BY AnswerReads, Zenon DEF InfoWhole
  <2>5. CASE m = 4
    <3>1. c[1] = bytes[1] /\ c[2] = bytes[2] /\ c[3] = bytes[3] /\ c[4] = bytes[4] /\ 4 <= Len(c)
      BY <2>2, <2>5
    <3>2. Fine(c)
      BY <1>9, <2>2, <3>1, InfoHas
    <3>3. InfoWhole(c)
      BY <1>8, <2>2, <3>1, InfoHas
    <3>4. ~EstimateSent(c)
      BY <2>2, <2>5, InfoHas
    <3>5. EstimatedOf(c) = a.tip
      BY <1>8, <3>1, <3>4 DEF EstimatedOf, EstimateSent
    <3>6. Answer("INFO", c) = {[op |-> "INFO", network |-> a.network, tip |-> a.tip,
                                branch |-> a.branch, estimated |-> a.tip]}
      BY <1>8, <2>4, <3>1, <3>2, <3>3, <3>5, Zenon DEF Of
    <3>7. [a EXCEPT !.estimated = a.tip]
            = [op |-> "INFO", network |-> a.network, tip |-> a.tip, branch |-> a.branch,
               estimated |-> a.tip]
      BY <1>1
    <3>8. Len(c) >= 4 /\ c[4].kind # "partial"
      BY <1>8, <2>2, <3>1
    <3>. QED
      BY <3>6, <3>7, <3>8
  <2>6. CASE m # 4
    <3>1. Len(c) >= 4 => c[4].kind = "partial"
      BY <2>2, <2>6
    <3>2. ~InfoWhole(c)
      BY <2>2, <3>1, InfoHas
    <3>3. Answer("INFO", c) = {}
      BY <2>3, <2>4, <3>2, Zenon DEF Of
    <3>. QED
      BY <3>1, <3>3
  <2>. QED
    BY <2>5, <2>6
<1>. QED
  BY <1>1, <1>5, <1>11, <1>12 DEF AnswerArrives

(***************************************************************************)
(* Answers arrive as they were meant or not at all (lightd.rs), of any     *)
(* length.                                                                 *)
(***************************************************************************)
THEOREM AnswersArrive ==
  ASSUME NEW V, Numbers(V), NEW a \in AnswersOf(V)
  PROVE  AnswerArrives(a)
<1>1. a.op \in {"INFO", "BLOCKS", "TX", "SEND", "TREESTATE", "UTXOS"}
  BY DEF AnswersOf
<1>2. CASE a.op = "INFO"
  <2>1. a \in [op : {"INFO"}, network : V, tip : Nat, branch : Nat, estimated : Nat]
    BY <1>2 DEF AnswersOf
  <2>. QED
    BY <2>1, InfoArrives
<1>3. CASE a.op = "TX"
  <2>1. a = [op |-> "TX", raw |-> a.raw]
    BY <1>3 DEF AnswersOf
  <2>2. PICK rest : rest = <<Field("string32", a.raw)>>
    OBVIOUS
  <2>3. PICK bytes : bytes = <<Field("u8", 0)>> \o rest
    OBVIOUS
  <2>4. Reply(a) = bytes
    BY <1>3, <2>2, <2>3, Zenon DEF Reply
  <2>5. PICK S : S = {Field("u8", 0), Field("string32", a.raw)}
    OBVIOUS
  <2>6. /\ rest \in Seq(S) /\ Field("u8", 0) \in S /\ Len(rest) = 1
        /\ rest[1] = Field("string32", a.raw)
    BY <2>2, <2>5
  <2>7. /\ bytes \in Seq(S) /\ Len(bytes) = 2 /\ Fine(bytes)
        /\ bytes[2] = Field("string32", a.raw)
    <3>1. /\ bytes \in Seq(S) /\ Len(bytes) = 1 + Len(rest) /\ Len(rest) \in Nat
          /\ Fine(bytes) /\ Holds(bytes, 1, rest)
      <4>1. rest \in Seq(S) /\ Field("u8", 0) \in S
        BY <2>6
      <4>. QED
        BY <2>3, <4>1, ReplyIs
    <3>. QED
      BY <2>6, <3>1 DEF Holds
  <2>8. bytes[2].kind = "string32" /\ bytes[2].v = a.raw
    BY <2>7 DEF Field
  <2>9. Has(bytes, 1, <<"string32">>)
    <3>1. Has(bytes, 1, <<"string32">>) <=>
            (1 + 1 <= Len(bytes) /\ bytes[1 + 1].kind = "string32")
      BY HasOne, Zenon
    <3>. QED
      BY <2>7, <2>8, <3>1
  <2>10. Answer("TX", bytes) = {a}
    <3>1. Answer("TX", bytes)
            = Of(Has(bytes, 1, <<"string32">>),
                 [op |-> "TX", raw |-> bytes[2].v])
      BY <2>7, AnswerReads, Zenon
    <3>. QED
      BY <2>1, <2>8, <2>9, <3>1, Zenon DEF Of
  <2>11. ASSUME NEW c \in Cuts(bytes) PROVE Answer("TX", c) = {}
    <3>1. PICK kinds : kinds = <<"string32">>
      OBVIOUS
    <3>2. kinds \in Seq(FieldKinds) /\ Len(kinds) = 1 /\ "u8" \in FieldKinds
      BY <3>1 DEF FieldKinds
    <3>3. ReadFrom(bytes, kinds, S)
      BY <2>7, <3>2 DEF ReadFrom
    <3>4. Has(c, 0, <<"u8">>) => ~Has(c, 1, kinds)
      BY <2>11, <3>2, <3>3, CutShort, Zenon
    <3>5. ~Fine(c) => Answer("TX", c) = {}
      BY AnswerReads, Zenon
    <3>6. Fine(c) => Answer("TX", c)
                       = Of(Has(c, 1, <<"string32">>),
                            [op |-> "TX", raw |-> c[2].v])
      BY AnswerReads, Zenon
    <3>. QED
      BY <3>1, <3>4, <3>5, <3>6, Zenon DEF Of, Fine
  <2>12. ~(a.op = "INFO")
    BY <1>3
  <2>. QED
    BY <1>3, <2>4, <2>10, <2>11, <2>12, Zenon DEF AnswerArrives
<1>4. CASE a.op = "SEND"
  <2>1. a = [op |-> "SEND", txid |-> a.txid]
    BY <1>4 DEF AnswersOf
  <2>2. PICK rest : rest = <<Field("string16", a.txid)>>
    OBVIOUS
  <2>3. PICK bytes : bytes = <<Field("u8", 0)>> \o rest
    OBVIOUS
  <2>4. Reply(a) = bytes
    BY <1>4, <2>2, <2>3, Zenon DEF Reply
  <2>5. PICK S : S = {Field("u8", 0), Field("string16", a.txid)}
    OBVIOUS
  <2>6. /\ rest \in Seq(S) /\ Field("u8", 0) \in S /\ Len(rest) = 1
        /\ rest[1] = Field("string16", a.txid)
    BY <2>2, <2>5
  <2>7. /\ bytes \in Seq(S) /\ Len(bytes) = 2 /\ Fine(bytes)
        /\ bytes[2] = Field("string16", a.txid)
    <3>1. /\ bytes \in Seq(S) /\ Len(bytes) = 1 + Len(rest) /\ Len(rest) \in Nat
          /\ Fine(bytes) /\ Holds(bytes, 1, rest)
      <4>1. rest \in Seq(S) /\ Field("u8", 0) \in S
        BY <2>6
      <4>. QED
        BY <2>3, <4>1, ReplyIs
    <3>. QED
      BY <2>6, <3>1 DEF Holds
  <2>8. bytes[2].kind = "string16" /\ bytes[2].v = a.txid
    BY <2>7 DEF Field
  <2>9. Has(bytes, 1, <<"string16">>)
    <3>1. Has(bytes, 1, <<"string16">>) <=>
            (1 + 1 <= Len(bytes) /\ bytes[1 + 1].kind = "string16")
      BY HasOne, Zenon
    <3>. QED
      BY <2>7, <2>8, <3>1
  <2>10. Answer("SEND", bytes) = {a}
    <3>1. Answer("SEND", bytes)
            = Of(Has(bytes, 1, <<"string16">>),
                 [op |-> "SEND", txid |-> bytes[2].v])
      BY <2>7, AnswerReads, Zenon
    <3>. QED
      BY <2>1, <2>8, <2>9, <3>1, Zenon DEF Of
  <2>11. ASSUME NEW c \in Cuts(bytes) PROVE Answer("SEND", c) = {}
    <3>1. PICK kinds : kinds = <<"string16">>
      OBVIOUS
    <3>2. kinds \in Seq(FieldKinds) /\ Len(kinds) = 1 /\ "u8" \in FieldKinds
      BY <3>1 DEF FieldKinds
    <3>3. ReadFrom(bytes, kinds, S)
      BY <2>7, <3>2 DEF ReadFrom
    <3>4. Has(c, 0, <<"u8">>) => ~Has(c, 1, kinds)
      BY <2>11, <3>2, <3>3, CutShort, Zenon
    <3>5. ~Fine(c) => Answer("SEND", c) = {}
      BY AnswerReads, Zenon
    <3>6. Fine(c) => Answer("SEND", c)
                       = Of(Has(c, 1, <<"string16">>),
                            [op |-> "SEND", txid |-> c[2].v])
      BY AnswerReads, Zenon
    <3>. QED
      BY <3>1, <3>4, <3>5, <3>6, Zenon DEF Of, Fine
  <2>12. ~(a.op = "INFO")
    BY <1>4
  <2>. QED
    BY <1>4, <2>4, <2>10, <2>11, <2>12, Zenon DEF AnswerArrives
<1>5. CASE a.op = "TREESTATE"
  <2>1. a = [op |-> "TREESTATE", root |-> a.root, frontier |-> a.frontier]
    BY <1>5 DEF AnswersOf
  <2>2. PICK rest : rest = <<Field("b32", a.root), Field("string32", a.frontier)>>
    OBVIOUS
  <2>3. PICK bytes : bytes = <<Field("u8", 0)>> \o rest
    OBVIOUS
  <2>4. Reply(a) = bytes
    BY <1>5, <2>2, <2>3, Zenon DEF Reply
  <2>5. PICK S : S = {Field("u8", 0), Field("b32", a.root), Field("string32", a.frontier)}
    OBVIOUS
  <2>6. /\ rest \in Seq(S) /\ Field("u8", 0) \in S /\ Len(rest) = 2
        /\ rest[1] = Field("b32", a.root) /\ rest[2] = Field("string32", a.frontier)
    BY <2>2, <2>5
  <2>7. /\ bytes \in Seq(S) /\ Len(bytes) = 3 /\ Fine(bytes)
        /\ bytes[2] = Field("b32", a.root) /\ bytes[3] = Field("string32", a.frontier)
    <3>1. /\ bytes \in Seq(S) /\ Len(bytes) = 1 + Len(rest) /\ Len(rest) \in Nat
          /\ Fine(bytes) /\ Holds(bytes, 1, rest)
      <4>1. rest \in Seq(S) /\ Field("u8", 0) \in S
        BY <2>6
      <4>. QED
        BY <2>3, <4>1, ReplyIs
    <3>. QED
      BY <2>6, <3>1 DEF Holds
  <2>8. bytes[2].kind = "b32" /\ bytes[2].v = a.root /\ bytes[3].kind = "string32" /\ bytes[3].v = a.frontier
    BY <2>7 DEF Field
  <2>9. Has(bytes, 1, <<"b32", "string32">>)
    <3>1. Has(bytes, 1, <<"b32", "string32">>) <=>
            (/\ 1 + 2 <= Len(bytes)
             /\ bytes[1 + 1].kind = "b32" /\ bytes[1 + 2].kind = "string32")
      BY HasTwo, Zenon
    <3>. QED
      BY <2>7, <2>8, <3>1
  <2>10. Answer("TREESTATE", bytes) = {a}
    <3>1. Answer("TREESTATE", bytes)
            = Of(Has(bytes, 1, <<"b32", "string32">>),
                 [op |-> "TREESTATE", root |-> bytes[2].v, frontier |-> bytes[3].v])
      BY <2>7, AnswerReads, Zenon
    <3>. QED
      BY <2>1, <2>8, <2>9, <3>1, Zenon DEF Of
  <2>11. ASSUME NEW c \in Cuts(bytes) PROVE Answer("TREESTATE", c) = {}
    <3>1. PICK kinds : kinds = <<"b32", "string32">>
      OBVIOUS
    <3>2. kinds \in Seq(FieldKinds) /\ Len(kinds) = 2 /\ "u8" \in FieldKinds
      BY <3>1 DEF FieldKinds
    <3>3. ReadFrom(bytes, kinds, S)
      BY <2>7, <3>2 DEF ReadFrom
    <3>4. Has(c, 0, <<"u8">>) => ~Has(c, 1, kinds)
      BY <2>11, <3>2, <3>3, CutShort, Zenon
    <3>5. ~Fine(c) => Answer("TREESTATE", c) = {}
      BY AnswerReads, Zenon
    <3>6. Fine(c) => Answer("TREESTATE", c)
                       = Of(Has(c, 1, <<"b32", "string32">>),
                            [op |-> "TREESTATE", root |-> c[2].v, frontier |-> c[3].v])
      BY AnswerReads, Zenon
    <3>. QED
      BY <3>1, <3>4, <3>5, <3>6, Zenon DEF Of, Fine
  <2>12. ~(a.op = "INFO")
    BY <1>5
  <2>. QED
    BY <1>5, <2>4, <2>10, <2>11, <2>12, Zenon DEF AnswerArrives
<1>6. CASE a.op = "BLOCKS"
  <2>1. a = [op |-> "BLOCKS", blocks |-> a.blocks] /\ a.blocks \in Seq(CompactBlocks(V))
    BY <1>6 DEF AnswersOf
  <2>2. PICK rest : rest = PutMany([i \in DOMAIN a.blocks |->
                                      <<Field("string32", EncodeBlock(a.blocks[i]))>>])
    OBVIOUS
  <2>3. PICK bytes : bytes = <<Field("u8", 0)>> \o rest
    OBVIOUS
  <2>4. Reply(a) = bytes
    BY <1>6, <2>2, <2>3, Zenon DEF Reply
  <2>5. PICK kinds : kinds = <<"string32">>
    OBVIOUS
  <2>6. PICK sent : /\ ListArrives(kinds, rest, sent, WithStrings(V))
                    /\ \A i \in DOMAIN sent : DecodeBlock(sent[i]) # {}
                    /\ BlocksRead(sent) = a.blocks
    BY <2>1, <2>2, <2>5, BlocksListed, Zenon
  <2>7. PICK S : S = FieldsOf(WithStrings(V))
    OBVIOUS
  <2>8. rest \in Seq(S) /\ Field("u8", 0) \in S
    <3>1. Field("u8", 0) \in FieldsOf(WithStrings(V))
      BY DEF Field, FieldsOf, FieldKinds, Numbers, WithStrings
    <3>. QED
      BY <2>6, <2>7, <3>1, Zenon DEF ListArrives
  <2>9. /\ bytes \in Seq(S) /\ Len(bytes) = 1 + Len(rest) /\ Len(rest) \in Nat
        /\ Fine(bytes) /\ Holds(bytes, 1, rest)
    BY <2>3, <2>8, ReplyIs
  <2>10. /\ HasMany(bytes, 1, kinds) /\ PastMany(bytes, 1, kinds) = Len(bytes)
         /\ Column(bytes, 1, kinds, 1) = sent
    <3>1. ReadsList(bytes, 1, kinds, rest, sent)
      BY <2>6, <2>9, Zenon DEF ListArrives
    <3>. QED
      BY <2>9, <3>1 DEF ReadsList
  <2>11. Answer("BLOCKS", bytes) = {a}
    <3>1. Answer("BLOCKS", bytes)
            = Of(HasMany(bytes, 1, <<"string32">>)
                   /\ \A i \in DOMAIN BlocksSent(bytes) : DecodeBlock(BlocksSent(bytes)[i]) # {},
                 [op |-> "BLOCKS", blocks |-> BlocksRead(BlocksSent(bytes))])
      BY <2>9, AnswerReads, Zenon
    <3>2. BlocksSent(bytes) = sent
      BY <2>5, <2>10, Zenon DEF BlocksSent
    <3>3. HasMany(bytes, 1, <<"string32">>)
      BY <2>5, <2>10, Zenon
    <3>. QED
      BY <2>1, <2>6, <3>1, <3>2, <3>3, Zenon DEF Of
  <2>12. ASSUME NEW c \in Cuts(bytes) PROVE Answer("BLOCKS", c) = {}
    <3>1. kinds \in Seq(FieldKinds) /\ Len(kinds) > 0
      BY <2>5 DEF FieldKinds
    <3>2. ~HasMany(c, 1, kinds)
      BY <2>7, <2>9, <2>10, <2>12, <3>1, ListCut
    <3>3. ~Fine(c) => Answer("BLOCKS", c) = {}
      BY AnswerReads, Zenon
    <3>4. Fine(c) => Answer("BLOCKS", c)
            = Of(HasMany(c, 1, <<"string32">>)
                   /\ \A i \in DOMAIN BlocksSent(c) : DecodeBlock(BlocksSent(c)[i]) # {},
                 [op |-> "BLOCKS", blocks |-> BlocksRead(BlocksSent(c))])
      BY AnswerReads, Zenon
    <3>. QED
      BY <2>5, <3>2, <3>3, <3>4, Zenon DEF Of
  <2>13. ~(a.op = "INFO")
    BY <1>6
  <2>. QED
    BY <1>6, <2>4, <2>11, <2>12, <2>13, Zenon DEF AnswerArrives
<1>7. CASE a.op = "UTXOS"
  <2>1. a = [op |-> "UTXOS", utxos |-> a.utxos] /\ a.utxos \in Seq(UtxosOf(V))
    BY <1>7 DEF AnswersOf
  <2>2. PICK rest : rest = PutMany([i \in DOMAIN a.utxos |-> PutUtxo(a.utxos[i])])
    OBVIOUS
  <2>3. PICK bytes : bytes = <<Field("u8", 0)>> \o rest
    OBVIOUS
  <2>4. Reply(a) = bytes
    BY <1>7, <2>2, <2>3, Zenon DEF Reply
  <2>5. /\ rest \in Seq(FieldsOf(V))
        /\ \A s : Holds(s, 1, rest) => /\ HasMany(s, 1, UtxoFields)
                                       /\ PastMany(s, 1, UtxoFields) = 1 + Len(rest)
                                       /\ UtxosRead(s) = a.utxos
    BY <2>1, <2>2, UtxosListed
  <2>6. Field("u8", 0) \in FieldsOf(V)
    BY DEF Field, FieldsOf, FieldKinds, Numbers
  <2>7. /\ bytes \in Seq(FieldsOf(V)) /\ Len(bytes) = 1 + Len(rest) /\ Len(rest) \in Nat
        /\ Fine(bytes) /\ Holds(bytes, 1, rest)
    BY <2>3, <2>5, <2>6, ReplyIs
  <2>8. /\ HasMany(bytes, 1, UtxoFields) /\ PastMany(bytes, 1, UtxoFields) = Len(bytes)
        /\ UtxosRead(bytes) = a.utxos
    BY <2>5, <2>7
  <2>9. Answer("UTXOS", bytes) = {a}
    <3>1. Answer("UTXOS", bytes)
            = Of(HasMany(bytes, 1, UtxoFields), [op |-> "UTXOS", utxos |-> UtxosRead(bytes)])
      BY <2>7, AnswerReads, Zenon
    <3>. QED
      BY <2>1, <2>8, <3>1, Zenon DEF Of
  <2>10. ASSUME NEW c \in Cuts(bytes) PROVE Answer("UTXOS", c) = {}
    <3>1. UtxoFields \in Seq(FieldKinds) /\ Len(UtxoFields) > 0
      BY DEF UtxoFields, FieldKinds
    <3>2. ~HasMany(c, 1, UtxoFields)
      BY <2>7, <2>8, <2>10, <3>1, ListCut
    <3>3. ~Fine(c) => Answer("UTXOS", c) = {}
      BY AnswerReads, Zenon
    <3>4. Fine(c) =>
            Answer("UTXOS", c)
              = Of(HasMany(c, 1, UtxoFields), [op |-> "UTXOS", utxos |-> UtxosRead(c)])
      BY AnswerReads, Zenon
    <3>. QED
      BY <3>2, <3>3, <3>4, Zenon DEF Of
  <2>11. ~(a.op = "INFO")
    BY <1>7
  <2>. QED
    BY <1>7, <2>4, <2>9, <2>10, <2>11, Zenon DEF AnswerArrives
<1>. QED
  BY <1>1, <1>2, <1>3, <1>4, <1>5, <1>6, <1>7
-----------------------------------------------------------------------------
(***************************************************************************)
(* The inputs of the runs are inputs of these theorems.                    *)
(***************************************************************************)
Chosen ==
  /\ Is("arithmetic") => input \in Arithmetic
  /\ Is("sweep") => input \in Sweeps
  /\ Is("pages") => input \in Pages
  /\ Is("snapshot") => input \in Snapshots
  /\ Is("depth") => input \in Depths
  /\ Is("request") => input.request \in Requests
  /\ Is("answer") => input.answer \in Answers
  /\ Is("block") => input.block \in Blocks
  /\ Is("transaction") =>
       /\ input.tx \in Seq(TxOutputs) /\ input.spends_ours \in BOOLEAN
       /\ input.attributed \in {{}, {bob}, {Nobody}}

(***************************************************************************)
(* A transaction that is chosen is one of outputs a transaction may have.  *)
(***************************************************************************)
LEMMA TransactionsAre ==
  ASSUME NEW memo \in Memos, NEW index \in Indices \cup {VaultIndex, NoIndex}, NEW second \in Second
  PROVE  <<Ours(memo, index)>> \o second \in Seq(TxOutputs)
<1>1. \A m \in Memos, i \in Indices \cup {VaultIndex, NoIndex} : Ours(m, i) \in TxOutputs
  BY DEF Ours, TxOutputs
<1>2. /\ Padded("", "bytes") \in Memos /\ Padded("ZEA", "bytes") \in Memos
      /\ Encode(bob) \in Memos
  <2>1. \A tag \in {"", "ZEA"} : Padded(tag, "bytes") \in MemosOf(tag) /\ tag \in Tags
    BY DEF Padded, MemosOf, Bodies, Tags
  <2>2. Encode(bob) \in MemosOf("ZEC") /\ "ZEC" \in Tags
    BY InputsAssumption DEF Encode, Padded, MemosOf, Bodies, Tags, AccountIds
  <2>. QED
    BY <2>1, <2>2, Zenon DEF Memos
<1>3. NotOurs \in TxOutputs
  BY <1>2 DEF NotOurs, TxOutputs
<1>4. \A s \in {Ours(Padded("", "bytes"), VaultIndex), Ours(Encode(bob), issued),
               Ours(Padded("ZEA", "bytes"), VaultIndex), NotOurs} : s \in TxOutputs
  BY <1>1, <1>2, <1>3, InputsAssumption
<1>5. second \in Seq(TxOutputs)
  <2>1. \A s \in TxOutputs : <<s>> \in Seq(TxOutputs)
    OBVIOUS
  <2>2. << >> \in Seq(TxOutputs)
    OBVIOUS
  <2> DEFINE empty == Ours(Padded("", "bytes"), VaultIndex)
             bobs == Ours(Encode(bob), issued)
             anchor == Ours(Padded("ZEA", "bytes"), VaultIndex)
  <2>3. second \in {<< >>, <<NotOurs>>, <<empty>>, <<bobs>>, <<anchor>>}
    BY Zenon DEF Second
  <2>4. NotOurs \in TxOutputs /\ empty \in TxOutputs /\ bobs \in TxOutputs /\ anchor \in TxOutputs
    BY <1>4, Zenon
  <2> HIDE DEF empty, bobs, anchor
  <2>. QED
    BY <2>1, <2>2, <2>3, <2>4
<1>6. <<Ours(memo, index)>> \in Seq(TxOutputs)
  BY <1>1
<1>. QED
  BY <1>5, <1>6, ConcatProperties

(***************************************************************************)
(* What is chosen is of its algorithm's inputs.                            *)
(***************************************************************************)
LEMMA ChoicesAre == Spec => []Chosen
<1>1. Init => Chosen
  BY DEF Init, Chosen, Is, Unchosen
<1>2. Chosen /\ [Next]_<<input, dir>> => Chosen'
  <2> SUFFICES ASSUME Chosen, [Next]_<<input, dir>> PROVE Chosen'
    OBVIOUS
  <2>1. CASE UNCHANGED input
    BY <2>1 DEF Chosen, Is
  <2>2. CASE ChooseTransaction
    <3>0. PICK tag \in Tags :
            \E memo \in MemosOf(tag), index \in Indices \cup {VaultIndex, NoIndex},
               second \in Second, spends_ours \in BOOLEAN, attributed \in {{}, {bob}, {Nobody}} :
              input' = [algorithm |-> "transaction", tx |-> <<Ours(memo, index)>> \o second,
                        spends_ours |-> spends_ours, attributed |-> attributed]
      BY <2>2, Zenon DEF ChooseTransaction
    <3>1. PICK memo \in MemosOf(tag), index \in Indices \cup {VaultIndex, NoIndex},
            second \in Second, spends_ours \in BOOLEAN, attributed \in {{}, {bob}, {Nobody}} :
            input' = [algorithm |-> "transaction", tx |-> <<Ours(memo, index)>> \o second,
                      spends_ours |-> spends_ours, attributed |-> attributed]
      BY <3>0, Zenon
    <3>2. memo \in Memos
      BY DEF Memos
    <3> DEFINE tx == <<Ours(memo, index)>> \o second
    <3>3. tx \in Seq(TxOutputs)
      BY <3>2, TransactionsAre
    <3> HIDE DEF tx
    <3>4. /\ input'.algorithm = "transaction" /\ input'.tx = tx
          /\ input'.spends_ours = spends_ours /\ input'.attributed = attributed
      BY <3>1 DEF tx
    <3>. QED
      BY <3>3, <3>4 DEF Chosen, Is
  <2>3. CASE input' \in Pages
    BY <2>3 DEF Pages, Chosen, Is
  <2>4. CASE input' \in Arithmetic
    BY <2>4 DEF Arithmetic, Chosen, Is
  <2>5. CASE input' \in LightClientInputs
    <3>1. \/ input'.algorithm = "request" /\ input'.request \in Requests
          \/ input'.algorithm = "answer" /\ input'.answer \in Answers
          \/ input'.algorithm = "block" /\ input'.block \in Blocks
      BY <2>5 DEF LightClientInputs
    <3>. QED
      BY <3>1 DEF Chosen, Is
  <2>6. CASE input' \in Snapshots \cup Depths
    <3>1. \/ input' \in Snapshots /\ input'.algorithm = "snapshot"
          \/ input' \in Depths /\ input'.algorithm = "depth"
      BY <2>6 DEF Snapshots, Depths
    <3>. QED
      BY <3>1 DEF Chosen, Is
  <2>7. CASE input' \in Sweeps
    <3>1. input'.algorithm = "sweep"
      BY <2>7 DEF Sweeps
    <3>. QED
      BY <2>7, <3>1 DEF Chosen, Is
  <2>. QED
    BY <2>1, <2>2, <2>3, <2>4, <2>5, <2>6, <2>7, Zenon DEF Next, Choose
<1>. QED
  BY <1>1, <1>2, PTL DEF Spec

(***************************************************************************)
(* Products scaled down are exact, and their rounding makes no value       *)
(* (amount.rs), in words of any size.                                      *)
(***************************************************************************)
THEOREM ProductsAlwaysScale == Spec => []ProductsScale
<1>1. Chosen => ProductsScale
  <2> SUFFICES ASSUME Chosen, Is("arithmetic")
               PROVE  /\ ScaledExactly(input.a, input.b, input.den)
                      /\ input.den > 0 => NoValueMade(input.a, input.b, input.den)
    BY DEF ProductsScale
  <2>1. input.a \in Words /\ input.b \in Words /\ input.den \in Words
    BY DEF Chosen, Arithmetic
  <2>. QED
    BY <2>1, ScalingIsExact, RoundingMakesNoValue
<1>. QED
  BY <1>1, ChoicesAre, PTL

(***************************************************************************)
(* Notes are one thing each, and both readings agree on them (shielded.rs),*)
(* whatever the accounts and the deposit addresses.                        *)
(***************************************************************************)
THEOREM NotesAreAlwaysOneThing == Spec => []NotesAreOneThing
<1>1. Chosen => NotesAreOneThing
  <2> SUFFICES ASSUME Chosen, Is("transaction")
               PROVE  /\ EveryNoteIsOneThing(input.tx, input.spends_ours, input.attributed, HandedOut)
                      /\ ScansAgree(input.tx, input.attributed)
    BY DEF NotesAreOneThing
  <2>1. /\ input.tx \in Seq(TxOutputs) /\ input.spends_ours \in BOOLEAN
        /\ input.attributed \in {{}, {bob}, {Nobody}}
    BY DEF Chosen
  <2>2. Attribution(input.attributed)
    BY <2>1, InputsAssumption DEF Attribution, AtMostOne, AccountIds
  <2>3. AreHanded(HandedOut)
    BY InputsAssumption DEF AreHanded, HandedOut, AccountIds
  <2>4. EveryNoteIsOneThing(input.tx, input.spends_ours, input.attributed, HandedOut)
    BY <2>1, <2>2, <2>3, NotesAreOfOneKind, Zenon
  <2>5. ScansAgree(input.tx, input.attributed)
    BY <2>1, ReadingsOfTransactionsAgree, Zenon
  <2>. QED
    BY <2>4, <2>5
<1>. QED
  BY <1>1, ChoicesAre, PTL

(***************************************************************************)
(* The sweeps of the runs, of three outputs at most, move everything if a  *)
(* word holds three times all the money (transparent.rs).                  *)
(***************************************************************************)
THEOREM SweepsAlwaysMoveAll ==
  ASSUME 3 * MaxMoney < ValueWord
  PROVE  Spec => []SweepsMoveAll
<1>1. Chosen => SweepsMoveAll
  <2> SUFFICES ASSUME Chosen, Is("sweep") PROVE SweepMovesAll(input.receivers, input.utxos)
    BY DEF SweepsMoveAll
  <2> DEFINE scripts == {"a", "b", "other"}
             secrets == {"ka", "kb"}
             R == [address : scripts, secret : secrets]
  <2>1. input.receivers \in Receivers /\ input.utxos \in UNION {[1 .. n -> Doormat] : n \in 0 .. 3}
    BY DEF Chosen, Sweeps
  <2>2. input.receivers \in Seq(R)
    <3> DEFINE a == [address |-> "a", secret |-> "ka"]
               b == [address |-> "b", secret |-> "kb"]
    <3>1. a \in R /\ b \in R
      OBVIOUS
    <3>2. input.receivers \in {<<a>>, <<b, a>>}
      BY <2>1, Zenon DEF Receivers
    <3> HIDE DEF a, b, R
    <3>3. <<a>> \in Seq(R) /\ <<b, a>> \in Seq(R)
      BY <3>1
    <3>. QED
      BY <3>2, <3>3
  <2>3. PICK n \in 0 .. 3 : input.utxos \in [1 .. n -> Doormat]
    BY <2>1
  <2>4. Doormat \subseteq Output(scripts)
    BY DEF Doormat, Output
  <2> DEFINE utxos == input.utxos
             receivers == input.receivers
  <2>5. utxos \in Seq(Output(scripts)) /\ Len(utxos) = n
    <3>1. utxos \in [1 .. n -> Output(scripts)] /\ n \in Nat
      BY <2>3, <2>4
    <3> HIDE DEF utxos
    <3>. QED
      BY <3>1, FunctionIsSequence
  <2>6. n * MaxMoney < ValueWord
    <3>1. n * MaxMoney <= 3 * MaxMoney /\ n * MaxMoney \in Nat
      BY TransparentAssumption
    <3>. QED
      BY <3>1, TransparentAssumption
  <2>7. Len(utxos) * MaxMoney < ValueWord
    BY <2>5, <2>6
  <2> HIDE DEF utxos, receivers, scripts, secrets, R
  <2>8. receivers \in Seq([address : scripts, secret : secrets])
    BY <2>2 DEF receivers, R
  <2>9. SweepMovesAll(receivers, utxos)
    BY <2>5, <2>7, <2>8, FewOutputsMoveEverything, Zenon
  <2>. QED
    BY <2>9 DEF receivers, utxos
<1>. QED
  BY <1>1, ChoicesAre, PTL

(***************************************************************************)
(* The readers see all there is in the chain of the runs (shielded.rs),    *)
(* whoever the accounts are.                                               *)
(***************************************************************************)
THEOREM ReadersAlwaysSeeAll == Spec => []ReadersSeeAll
<1>1. Chosen => ReadersSeeAll
  <2> SUFFICES ASSUME Chosen, Is("pages")
               PROVE  PagesReadOnce(input.kind, Chain, input.from_height, input.max_blocks,
                                    input.from, input.to)
    BY DEF ReadersSeeAll
  <2>1. /\ input.kind \in Kinds /\ input.from_height \in Nat /\ input.max_blocks \in Nat
        /\ input.from \in Nat \ {0} /\ input.to \in Nat /\ input.to <= 4
    BY DEF Chosen, Pages, Kinds
  <2> DEFINE a == Ours(EncodePublication("bytes"), VaultIndex)
             b == Ours(Padded("ZEF", Frame), issued)
             c == Ours(Padded("ZEB", Payment), NoIndex)
             d == Ours(Padded("ZEA", "bytes"), VaultIndex)
             e == Ours(Encode(alice), VaultIndex)
             O == {a, b, c, d, e, NotOurs}
  <2>2. Chain = [h \in 1 .. 4 |-> << <<a, b>>, IF h % 2 = 0 THEN << >> ELSE <<NotOurs, c>>, <<d, e>> >>]
    BY DEF Chain
  <2> HIDE DEF a, b, c, d, e
  <2>3. \A h \in 1 .. 4 :
          << <<a, b>>, IF h % 2 = 0 THEN << >> ELSE <<NotOurs, c>>, <<d, e>> >> \in Seq(Seq(O))
    <3> DEFINE P == Seq(O)
               p == <<a, b>>
               q == <<NotOurs, c>>
               r == <<d, e>>
               none == << >>
    <3>1. p \in P /\ q \in P /\ r \in P /\ none \in P
      OBVIOUS
    <3> HIDE DEF p, q, r, none, P
    <3>2. \A x \in {q, none} : <<p, x, r>> \in Seq(P)
      BY <3>1
    <3>3. \A h \in 1 .. 4 : <<p, IF h % 2 = 0 THEN none ELSE q, r>> \in Seq(P)
      BY <3>2
    <3>. QED
      BY <3>3 DEF p, q, r, none, P
  <2> HIDE DEF O
  <2>4. Chain \in [1 .. 4 -> Seq(Seq(O))]
    BY <2>2, <2>3
  <2>5. Reads(input.kind, Chain, input.from_height, input.max_blocks, input.to, 4)
    <3>1. \E X : Chain \in [1 .. 4 -> Seq(Seq(X))]
      BY <2>4, Zenon
    <3>. QED
      BY <2>1, <3>1 DEF Reads
  <2>. QED
    BY <2>1, <2>5, ReadersReadOnce
<1>. QED
  BY <1>1, ChoicesAre, PTL
Transactions == {"t1", "t2"}

(***************************************************************************)
(* The chains of the runs have each transaction in one block at most.      *)
(***************************************************************************)
LEMMA ChainsAre ==
  ASSUME NEW length \in Nat
  PROVE  ChainsOf(length) \subseteq Chains(Transactions)
<1> SUFFICES ASSUME NEW place \in [{"t1", "t2"} -> 0 .. length]
             PROVE  ChainOf(length, place) \in Chains(Transactions)
  BY DEF ChainsOf
<1> DEFINE both == <<"t1", "t2">>
           PlacedAt(h) == {tx \in {"t1", "t2"} : place[tx] = h}
           block(h) == Select(both, PlacedAt(h))
           chain == [h \in 1 .. length |-> block(h)]
<1>1. both \in Seq(Transactions)
  BY DEF Transactions
<1> HIDE DEF both
<1>2. ASSUME NEW h
      PROVE  block(h) \in Seq(Transactions) /\ Range(block(h)) \subseteq PlacedAt(h)
  <2>1. block(h) \in Seq(Transactions) /\ ToSet(block(h)) \subseteq PlacedAt(h)
    <3> HIDE DEF PlacedAt
    <3>. QED
      BY <1>1, SelectType, SelectEntries
  <2> HIDE DEF block
  <2>. QED
    BY <2>1 DEF ToSet, Range
<1> HIDE DEF block
<1>3. chain \in Seq(Seq(Transactions)) /\ DOMAIN chain = 1 .. length
  <2>1. chain \in [1 .. length -> Seq(Transactions)]
    BY <1>2
  <2> HIDE DEF chain
  <2>. QED
    BY <2>1, FunctionIsSequence
<1>4. ASSUME NEW j \in DOMAIN chain, NEW k \in DOMAIN chain,
             Range(chain[j]) \cap Range(chain[k]) # {}
      PROVE  j = k
  <2>1. PICK tx : tx \in Range(chain[j]) /\ tx \in Range(chain[k])
    BY <1>4
  <2>2. chain[j] = block(j) /\ chain[k] = block(k)
    OBVIOUS
  <2>3. tx \in PlacedAt(j) /\ tx \in PlacedAt(k)
    BY <1>2, <2>1, <2>2
  <2>. QED
    BY <2>3
<1>5. chain \in Chains(Transactions)
  BY <1>3, <1>4 DEF Chains
<1>. QED
  BY <1>5 DEF ChainOf, block, both

(***************************************************************************)
(* The snapshots of the runs are of chains, contents and accounts that the *)
(* theorems are about.                                                     *)
(***************************************************************************)
LEMMA SnapshotsAsk ==
  ASSUME NEW calls, NEW before \in Before, NEW after \in After, NEW contents,
         contents \in {Contents(3), Contents(NoInteger)},
         \A n \in Nat \ {0} : calls[n] \in {before, after}
  PROVE  /\ Answered(calls, before, after, Transactions)
         /\ Asking(calls, before, after, contents, Watched, Transactions,
                   {NoAddress, "mine", "yours"}, {alice, bob})
<1> DEFINE A == {NoAddress, "mine", "yours"}
           P == Paid(A)
<1>1. before \in Chains(Transactions) /\ after \in Chains(Transactions)
  BY ChainsAre DEF Before, After
<1>2. contents \in [Transactions -> Seq(P)]
  <2>1. \A z \in {5, 1, 2, 3, NoInteger}, a \in A : [zat |-> z, address |-> a] \in P
    BY DEF Paid
  <2>2. ASSUME NEW amount \in {3, NoInteger} PROVE Contents(amount) \in [Transactions -> Seq(P)]
    <3> DEFINE a == [zat |-> 5, address |-> NoAddress]
               b == [zat |-> 1, address |-> "mine"]
               c == [zat |-> 2, address |-> "mine"]
               d == [zat |-> amount, address |-> "yours"]
    <3>1. a \in P /\ b \in P /\ c \in P /\ d \in P
      BY <2>1
    <3> HIDE DEF a, b, c, d, P
    <3>2. <<a, b>> \in Seq(P) /\ <<c, d>> \in Seq(P)
      BY <3>1
    <3> DEFINE x == <<a, b>>
               y == <<c, d>>
    <3> HIDE DEF x, y
    <3>3. [tx \in {"t1", "t2"} |-> IF tx = "t1" THEN x ELSE y] \in [Transactions -> Seq(P)]
      BY <3>2 DEF x, y, Transactions
    <3>. QED
      BY <3>3 DEF Contents, a, b, c, d, x, y
  <2>. QED
    BY <2>2
<1>3. Watched \in [DOMAIN Watched -> {alice, bob}]
  BY DEF Watched
<1>. QED
  BY <1>1, <1>2, <1>3 DEF Asking, Answered

(***************************************************************************)
(* What a node's answers amount to is of the chain (zebra.rs), though it   *)
(* changes while the node is asked.                                        *)
(***************************************************************************)
THEOREM SnapshotsAlwaysHold == Spec => []SnapshotsHold
<1>1. Chosen => SnapshotsHold
  <2>1. ASSUME Chosen, Is("snapshot")
        PROVE  SnapshotIsOfTheChain("testnet", At, input.before, input.after, input.contents,
                                    Watched, input.from, input.dropped)
    <3>1. /\ input.before \in Before /\ input.after \in After /\ input.from \in Nat
          /\ input.contents \in {Contents(3), Contents(NoInteger)}
      BY <2>1 DEF Chosen, Snapshots
    <3>2. \A n \in Nat \ {0} : At[n] \in {input.before, input.after}
      BY DEF At
    <3>3. Asking(At, input.before, input.after, input.contents, Watched, Transactions,
                 {NoAddress, "mine", "yours"}, {alice, bob})
      BY <3>1, <3>2, SnapshotsAsk
    <3>. QED
      BY <3>1, <3>3, SnapshotsAreOfTheChain
  <2>2. ASSUME Chosen, Is("depth")
        PROVE  DepthIsOfAChain(At, input.before, input.after, input.tx, input.reported,
                               input.dropped)
    <3>1. /\ input.before \in Before /\ input.after \in After
          /\ input.reported \in BOOLEAN /\ input.dropped \in BOOLEAN
      BY <2>2 DEF Chosen, Depths
    <3>2. \A n \in Nat \ {0} : At[n] \in {input.before, input.after}
      BY DEF At
    <3>3. Answered(At, input.before, input.after, Transactions)
      BY <3>1, <3>2, SnapshotsAsk
    <3>. QED
      BY <3>1, <3>3, DepthsAreOfChains
  <2>. QED
    BY <2>1, <2>2 DEF SnapshotsHold
<1>. QED
  BY <1>1, ChoicesAre, PTL

(***************************************************************************)
(* The values in the messages of the runs.                                 *)
(***************************************************************************)
MessageValues ==
  Nat \cup {"ZECCB1", "t", "r", "a", TooLong, "root", "f", "s", "mine", "else"}

(***************************************************************************)
(* The requests, blocks and answers of the runs are such messages.         *)
(***************************************************************************)
LEMMA InputsAreMessages ==
  /\ Numbers(MessageValues)
  /\ Requests \subseteq RequestsOf(MessageValues)
  /\ Blocks \subseteq Seq(FullTxs(MessageValues))
  /\ Answers \subseteq AnswersOf(MessageValues)
<1> DEFINE V == MessageValues
<1>1. Numbers(V)
  BY DEF Numbers, MessageValues
<1>2. Requests \subseteq RequestsOf(V)
  <2>1. 0 .. MAX_BLOCKS + 1 \subseteq Nat /\ 0 .. 1 \subseteq V /\ 0 .. 1 \subseteq {0, 1}
    BY LightClientAssumption DEF MessageValues
  <2>2. "t" \in V /\ "r" \in V /\ "a" \in V /\ TooLong \in V
    BY DEF MessageValues
  <2> HIDE DEF V
  <2>. QED
    BY <2>1, <2>2 DEF Requests, RequestsOf
<1>3. Lists \subseteq Seq(V)
  <2>1. "mine" \in V /\ "else" \in V
    BY DEF MessageValues
  <2> HIDE DEF V
  <2>. QED
    BY <2>1 DEF Lists
<1>4. Blocks \subseteq Seq(FullTxs(V))
  <2>1. [orchard : Lists, ironwood : Lists] \subseteq FullTxs(V)
    BY <1>3 DEF FullTxs
  <2>2. ASSUME NEW n \in 0 .. 2, NEW b \in [1 .. n -> [orchard : Lists, ironwood : Lists]]
        PROVE  b \in Seq(FullTxs(V))
    <3>1. b \in [1 .. n -> FullTxs(V)]
      BY <2>1
    <3> HIDE DEF V
    <3>. QED
      BY <3>1, FunctionIsSequence
  <2>. QED
    BY <2>2 DEF Blocks
<1>5. Compacts \subseteq Seq(CompactBlocks(V))
  <2>1. \A b \in Blocks, h \in Nat : CompactBlock(h, b) \in CompactBlocks(V)
    <3> HIDE DEF V
    <3>. QED
      BY <1>4, CompactIs
  <2>2. \A b \in Blocks : b # << >> => <<b[1]>> \in Blocks
    <3> TAKE b \in Blocks
    <3> HAVE b # << >>
    <3> DEFINE T == [orchard : Lists, ironwood : Lists]
    <3>1. PICK n \in 0 .. 2 : b \in [1 .. n -> T]
      BY DEF Blocks
    <3>2. n # 0
      BY <3>1
    <3>3. b[1] \in T
      BY <3>1, <3>2
    <3>4. <<b[1]>> \in [1 .. 1 -> T]
      BY <3>3
    <3>. QED
      BY <3>4 DEF Blocks
  <2> DEFINE B == CompactBlocks(V)
  <2>3. << >> \in Seq(B) /\ \A x, y \in B : <<x>> \in Seq(B) /\ <<x, y>> \in Seq(B)
    OBVIOUS
  <2>4. 1 \in Nat /\ 2 \in Nat
    OBVIOUS
  <2> HIDE DEF V, B
  <2>5. \A b \in Blocks : <<CompactBlock(1, b)>> \in Seq(B)
    BY <2>1, <2>3, <2>4, Zenon DEF B
  <2>6. \A b \in Blocks : b # << >> => <<CompactBlock(1, b), CompactBlock(2, <<b[1]>>)>> \in Seq(B)
    BY <2>1, <2>2, <2>3, <2>4, Zenon DEF B
  <2>. QED
    BY <2>3, <2>5, <2>6, Zenon DEF Compacts, B
<1>6. ASSUME NEW n \in 0 .. 2 PROVE [i \in 1 .. n |-> Utxo(i)] \in Seq(UtxosOf(V))
  <2>1. \A i \in 1 .. n : Utxo(i) \in UtxosOf(V)
    BY DEF Utxo, UtxosOf, MessageValues
  <2>2. [i \in 1 .. n |-> Utxo(i)] \in [1 .. n -> UtxosOf(V)]
    BY <2>1
  <2> HIDE DEF V
  <2>. QED
    BY <2>2, FunctionIsSequence
<1>7. Answers \subseteq AnswersOf(V)
  <2>1. /\ 1 \in V /\ 1 .. 2 \subseteq Nat /\ 0 \in Nat /\ 0 .. 3 \subseteq Nat
        /\ "r" \in V /\ "t" \in V /\ "root" \in V /\ "f" \in V
    BY DEF MessageValues
  <2>2. {[i \in 1 .. n |-> Utxo(i)] : n \in 0 .. 2} \subseteq Seq(UtxosOf(V))
    BY <1>6
  <2> HIDE DEF V
  <2>. QED
    BY <1>5, <2>1, <2>2 DEF Answers, AnswersOf
<1>. QED
  BY <1>1, <1>2, <1>4, <1>7

(***************************************************************************)
(* Messages arrive as they were meant or not at all, and scans find what   *)
(* is there (lightd.rs, compact.rs), however many blocks are served.       *)
(***************************************************************************)
THEOREM MessagesAlwaysArrive == Spec => []MessagesArrive
<1>1. Chosen => MessagesArrive
  <2>1. ASSUME Chosen, Is("request") PROVE RequestArrives(input.request)
    <3>1. input.request \in RequestsOf(MessageValues)
      BY <2>1, InputsAreMessages DEF Chosen
    <3>. QED
      BY <3>1, RequestsArrive
  <2>2. ASSUME Chosen, Is("answer") PROVE AnswerArrives(input.answer)
    <3>1. input.answer \in AnswersOf(MessageValues) /\ Numbers(MessageValues)
      BY <2>2, InputsAreMessages DEF Chosen
    <3>. QED
      BY <3>1, AnswersArrive
  <2>3. ASSUME Chosen, Is("block") PROVE HitsAreThere(1, input.block, {"mine"})
    <3>1. input.block \in Seq(FullTxs(MessageValues)) /\ Numbers(MessageValues) /\ 1 \in Nat
      BY <2>3, InputsAreMessages DEF Chosen
    <3>. QED
      BY <3>1, ScansFindWhatIsThere
  <2>. QED
    BY <2>1, <2>2, <2>3 DEF MessagesArrive
<1>. QED
  BY <1>1, ChoicesAre, PTL
-----------------------------------------------------------------------------
(***************************************************************************)
(* A directory of shares.                                                  *)
(***************************************************************************)
DirSpec == DirInit /\ [][DirNext]_dir

Saved == 1 .. Latest

(* A share's file is absent, torn, or of a ceremony that has that share. *)
DirTyped ==
  /\ size \in Seq(Sizes)
  /\ files \in [Ids -> Int] /\ public \in {Absent, Torn} \cup Saved
  /\ \A i \in Ids :
       \/ files[i] \in {Absent, Torn}
       \/ files[i] \in Saved /\ i <= size[files[i]]
  /\ writing \in Int /\ writing >= Idle
  /\ writing # Idle => Latest > 0 /\ writing <= size[Latest]

(* The present save has written the shares before the file it is at. *)
Written ==
  writing # Idle =>
    \A i \in 1 .. size[Latest] : writing = 0 \/ i < writing => files[i] = Latest

(* The files public.bin names are of its ceremony, or were opened since. *)
Newer ==
  public \in Saved => \A i \in 1 .. size[public] : files[i] = Torn \/ files[i] >= public

(* A ceremony came to its end before the one public.bin names, or was cut short. *)
Ended ==
  public # Torn =>
    \A c \in Saved : c <= public \/ c \in cutShort \/ (c = Latest /\ writing # Idle)

DirInv == DirTyped /\ Written /\ Newer /\ Ended

-----------------------------------------------------------------------------
(***************************************************************************)
(* The shares of a ceremony have files.                                    *)
(***************************************************************************)
LEMMA SharesHaveFiles ==
  /\ Ids \subseteq Nat \ {0}
  /\ \A n \in Sizes : n \in Nat \ {0} /\ 1 .. n \subseteq Ids
<1>1. \A n \in Sizes : n \in Nat \ {0}
  BY SharesAssumption
<1>. QED
  BY <1>1 DEF Ids

(***************************************************************************)
(* A save under way is of a ceremony with a size, and at a file it has.    *)
(***************************************************************************)
LEMMA SizesAre ==
  ASSUME DirTyped
  PROVE  /\ Latest \in Nat
         /\ \A c \in Saved : size[c] \in Sizes /\ size[c] \in Nat \ {0} /\ 1 .. size[c] \subseteq Ids
         /\ writing # Idle => Latest \in Saved /\ (writing # 0 => writing \in 1 .. size[Latest])
<1>1. size \in Seq(Sizes) /\ Latest \in Nat
  BY LenProperties DEF DirTyped, Latest
<1>2. \A c \in Saved : size[c] \in Sizes
  BY <1>1, ElementOfSeq DEF Saved, Latest
<1>3. \A c \in Saved : size[c] \in Nat \ {0} /\ 1 .. size[c] \subseteq Ids
  BY <1>2, SharesHaveFiles
<1>4. writing # Idle => Latest \in Saved
  BY <1>1 DEF DirTyped, Saved
<1>5. writing # Idle => (writing # 0 => writing \in 1 .. size[Latest])
  BY <1>3, <1>4 DEF DirTyped, Idle
<1>. QED
  BY <1>1, <1>2, <1>3, <1>4, <1>5

(***************************************************************************)
(* An empty directory.                                                     *)
(***************************************************************************)
LEMMA DirInitInv == DirInit => DirInv
<1> SUFFICES ASSUME DirInit PROVE DirInv
  OBVIOUS
<1>1. size \in Seq(Sizes) /\ Latest = 0
  BY EmptySeq DEF DirInit, Latest
<1>2. DirTyped
  BY <1>1 DEF DirInit, DirTyped, Absent, Torn, Idle
<1>. QED
  BY <1>1, <1>2 DEF DirInit, DirInv, Written, Newer, Ended, Saved, Absent, Torn, Idle

(***************************************************************************)
(* A save begins: its ceremony is the last, and at its first share.        *)
(***************************************************************************)
LEMMA BeginKeeps == DirInv /\ BeginSave => DirInv'
<1> SUFFICES ASSUME DirInv, BeginSave PROVE DirInv'
  OBVIOUS
<1>1. /\ writing = Idle /\ writing' = 1
      /\ files' = files /\ public' = public /\ cutShort' = cutShort
  BY DEF BeginSave
<1>2. PICK n \in Sizes : size' = Append(size, n)
  BY DEF BeginSave
<1>3. /\ Latest \in Nat /\ Latest' = Latest + 1 /\ size' \in Seq(Sizes)
      /\ size'[Latest'] = n /\ \A c \in Saved : size'[c] = size[c]
  BY <1>2, LenProperties, AppendProperties DEF DirInv, DirTyped, Latest, Saved
<1>4. Saved' = Saved \cup {Latest'} /\ Saved \subseteq Saved'
  BY <1>3 DEF Saved
<1>5. n \in Nat \ {0}
  BY SharesHaveFiles
<1>6. DirTyped'
  <2>1. ASSUME NEW i \in Ids
        PROVE  \/ files'[i] \in {Absent, Torn}
               \/ files'[i] \in Saved' /\ i <= size'[files'[i]]
    BY <1>1, <1>3, <1>4 DEF DirInv, DirTyped
  <2>2. public' \in {Absent, Torn} \cup Saved'
    BY <1>1, <1>4 DEF DirInv, DirTyped
  <2>3. Latest' > 0 /\ writing' <= size'[Latest']
    BY <1>1, <1>3, <1>5
  <2>. QED
    BY <1>1, <1>3, <2>1, <2>2, <2>3 DEF DirInv, DirTyped, Idle
<1>7. Written'
  BY <1>1, <1>3, <1>5 DEF Written
<1>8. Newer'
  <2>1. public' \in Saved' => public \in Saved
    BY <1>1, <1>3, <1>4 DEF DirInv, DirTyped, Saved, Absent, Torn
  <2>. QED
    BY <1>1, <1>3, <2>1 DEF DirInv, Newer
<1>9. Ended'
  <2>1. ASSUME public' # Torn, NEW c \in Saved'
        PROVE  c <= public' \/ c \in cutShort' \/ (c = Latest' /\ writing' # Idle)
    <3>1. CASE c \in Saved
      BY <1>1, <2>1, <3>1 DEF DirInv, Ended
    <3>2. CASE c = Latest'
      BY <1>1, <3>2 DEF Idle
    <3>. QED
      BY <1>4, <3>1, <3>2
  <2>. QED
    BY <2>1 DEF Ended
<1>. QED
  BY <1>6, <1>7, <1>8, <1>9 DEF DirInv

(***************************************************************************)
(* A file is opened, and holds nothing whole.                              *)
(***************************************************************************)
LEMMA TruncateKeeps == DirInv /\ Truncate => DirInv'
<1> SUFFICES ASSUME DirInv, Truncate PROVE DirInv'
  OBVIOUS
<1>1. size' = size /\ writing' = writing /\ cutShort' = cutShort
  BY DEF Truncate
<1>2. Latest' = Latest /\ Saved' = Saved
  BY <1>1 DEF Latest, Saved
<1>3. /\ Latest \in Nat
      /\ \A c \in Saved : size[c] \in Nat \ {0} /\ 1 .. size[c] \subseteq Ids
      /\ writing # Idle => Latest \in Saved
  BY SizesAre DEF DirInv
<1>4. CASE writing \in Ids /\ files' = [files EXCEPT ![writing] = Torn] /\ public' = public
  <2>1. files \in [Ids -> Int] /\ \A i \in Ids : files'[i] = IF i = writing THEN Torn ELSE files[i]
    BY <1>4 DEF DirInv, DirTyped
  <2>2. files' \in [Ids -> Int]
    BY <1>4, <2>1 DEF Torn
  <2>3. writing # 0 /\ writing # Idle /\ writing \in Nat
    BY <1>4, SharesHaveFiles DEF Idle
  <2>4. DirTyped'
    BY <1>1, <1>2, <1>4, <2>1, <2>2 DEF DirInv, DirTyped
  <2>5. Written'
    BY <1>1, <1>2, <1>3, <2>1, <2>3 DEF DirInv, Written
  <2>6. Newer'
    BY <1>1, <1>2, <1>3, <1>4, <2>1 DEF DirInv, Newer
  <2>7. Ended'
    BY <1>1, <1>2, <1>4 DEF DirInv, Ended
  <2>. QED
    BY <2>4, <2>5, <2>6, <2>7 DEF DirInv
<1>5. CASE public' = Torn /\ files' = files
  <2>1. DirTyped' /\ Written'
    BY <1>1, <1>2, <1>5 DEF DirInv, DirTyped, Written
  <2>2. Newer' /\ Ended'
    BY <1>2, <1>3, <1>5 DEF Newer, Ended, Saved, Torn
  <2>. QED
    BY <2>1, <2>2 DEF DirInv
<1>. QED
  BY <1>4, <1>5 DEF Truncate

(***************************************************************************)
(* A file is written: a share, or after all of them public.bin.            *)
(***************************************************************************)
LEMMA WriteKeeps == DirInv /\ Write => DirInv'
<1> SUFFICES ASSUME DirInv, Write PROVE DirInv'
  OBVIOUS
<1>1. size' = size /\ cutShort' = cutShort
  BY DEF Write
<1>2. Latest' = Latest /\ Saved' = Saved
  BY <1>1 DEF Latest, Saved
<1>3. /\ Latest \in Nat
      /\ \A c \in Saved : size[c] \in Nat \ {0} /\ 1 .. size[c] \subseteq Ids
      /\ writing # Idle => Latest \in Saved
  BY SizesAre DEF DirInv
<1>4. CASE /\ writing \in Ids /\ files' = [files EXCEPT ![writing] = Latest] /\ public' = public
           /\ writing' = IF writing < size[Latest] THEN writing + 1 ELSE 0
  <2>1. /\ files \in [Ids -> Int]
        /\ \A i \in Ids : files'[i] = IF i = writing THEN Latest ELSE files[i]
    BY <1>4 DEF DirInv, DirTyped
  <2>2. writing # 0 /\ writing # Idle /\ writing \in Nat
    BY <1>4, SharesHaveFiles DEF Idle
  <2>3. files' \in [Ids -> Int]
    BY <1>3, <1>4, <2>1
  <2>4. Latest \in Saved /\ Latest > 0 /\ size[Latest] \in Nat /\ writing <= size[Latest]
    BY <1>3, <2>2 DEF DirInv, DirTyped
  <2>5. writing' # Idle /\ writing' \in Nat /\ writing' <= size[Latest]
    BY <1>4, <2>2, <2>4 DEF Idle
  <2>6. DirTyped'
    <3>1. ASSUME NEW i \in Ids
          PROVE  \/ files'[i] \in {Absent, Torn}
                 \/ files'[i] \in Saved' /\ i <= size'[files'[i]]
      BY <1>1, <1>2, <2>1, <2>4 DEF DirInv, DirTyped
    <3>. QED
      BY <1>1, <1>2, <1>4, <2>3, <2>4, <2>5, <3>1 DEF DirInv, DirTyped, Idle
  <2>7. Written'
    <3>1. ASSUME NEW i \in 1 .. size[Latest], writing' = 0 \/ i < writing'
          PROVE  files'[i] = Latest
      <4>1. i \in Ids /\ i <= writing
        BY <1>3, <1>4, <2>2, <2>4, <3>1
      <4>2. CASE i = writing
        BY <2>1, <4>1, <4>2
      <4>3. CASE i < writing
        BY <2>1, <2>2, <4>1, <4>3 DEF DirInv, Written
      <4>. QED
        BY <2>2, <4>1, <4>2, <4>3
    <3>. QED
      BY <1>1, <1>2, <3>1 DEF Written
  <2>8. Newer'
    <3>1. ASSUME public \in Saved, NEW i \in 1 .. size[public]
          PROVE  files'[i] = Torn \/ files'[i] >= public
      <4>1. i \in Ids /\ Latest >= public
        BY <1>3, <3>1 DEF Saved
      <4>2. files[i] = Torn \/ files[i] >= public
        BY <3>1 DEF DirInv, Newer
      <4>. QED
        BY <2>1, <4>1, <4>2
    <3>. QED
      BY <1>1, <1>2, <1>4, <3>1 DEF Newer
  <2>9. Ended'
    BY <1>1, <1>2, <1>4, <2>5 DEF DirInv, Ended
  <2>. QED
    BY <2>6, <2>7, <2>8, <2>9 DEF DirInv
<1>5. CASE writing = 0 /\ public' = Latest /\ writing' = Idle /\ files' = files
  <2>1. Latest \in Saved /\ \A i \in 1 .. size[Latest] : files[i] = Latest
    BY <1>3, <1>5 DEF DirInv, Written, Idle
  <2>2. DirTyped' /\ Written'
    BY <1>1, <1>2, <1>5, <2>1 DEF DirInv, DirTyped, Written, Idle
  <2>3. Newer'
    BY <1>1, <1>2, <1>3, <1>5, <2>1 DEF Newer
  <2>4. Ended'
    BY <1>2, <1>3, <1>5 DEF Ended, Saved
  <2>. QED
    BY <2>2, <2>3, <2>4 DEF DirInv
<1>. QED
  BY <1>4, <1>5 DEF Write

(***************************************************************************)
(* A save ends before it is done.                                          *)
(***************************************************************************)
LEMMA CutShortKeeps == DirInv /\ SaveCutShort => DirInv'
<1> SUFFICES ASSUME DirInv, SaveCutShort PROVE DirInv'
  OBVIOUS
<1>1. /\ writing # Idle /\ writing' = Idle /\ cutShort' = cutShort \cup {Latest}
      /\ size' = size /\ files' = files /\ public' = public
  BY DEF SaveCutShort
<1>2. Latest' = Latest /\ Saved' = Saved
  BY <1>1 DEF Latest, Saved
<1>3. DirTyped' /\ Written' /\ Newer'
  BY <1>1, <1>2 DEF DirInv, DirTyped, Written, Newer, Idle
<1>4. Ended'
  BY <1>1, <1>2 DEF DirInv, Ended
<1>. QED
  BY <1>3, <1>4 DEF DirInv

(***************************************************************************)
(* The invariant holds in every behaviour of a directory.                  *)
(***************************************************************************)
THEOREM DirInvHolds == DirSpec => []DirInv
<1>1. DirInv /\ [DirNext]_dir => DirInv'
  <2> SUFFICES ASSUME DirInv, [DirNext]_dir PROVE DirInv'
    OBVIOUS
  <2>1. CASE UNCHANGED dir
    BY <2>1 DEF dir, DirInv, DirTyped, Written, Newer, Ended, Saved, Latest
  <2>. QED
    BY <2>1, BeginKeeps, TruncateKeeps, WriteKeeps, CutShortKeeps DEF DirNext
<1>. QED
  BY <1>1, DirInitInv, PTL DEF DirSpec

(***************************************************************************)
(* What load returns under a public package is that ceremony's shares, all *)
(* of them, unless a later save was cut short or is going on.              *)
(***************************************************************************)
THEOREM MixedForCauseHolds == DirSpec => []MixedForCause
<1>1. DirInv => MixedForCause
  <2> SUFFICES ASSUME DirInv, Loads
               PROVE  /\ \A i \in 1 .. size[public] : files[i] >= public
                      /\ \A i \in Loaded :
                           CASE files[i] = public -> i <= size[public]
                             [] files[i] > public -> files[i] \in cutShort \/ writing # Idle
                             [] files[i] < public -> i > size[public]
    BY DEF MixedForCause
  <2>1. public \in Saved /\ public # Torn /\ Latest \in Nat
    BY SizesAre DEF DirInv, DirTyped, Loads
  <2>2. size[public] \in Nat /\ 1 .. size[public] \subseteq Ids
    BY <2>1, SizesAre DEF DirInv
  <2>3. \A i \in 1 .. size[public] : files[i] >= public
    BY <2>1, <2>2 DEF DirInv, Newer, Loads
  <2>4. ASSUME NEW i \in Loaded
        PROVE  CASE files[i] = public -> i <= size[public]
                 [] files[i] > public -> files[i] \in cutShort \/ writing # Idle
                 [] files[i] < public -> i > size[public]
    <3>1. i \in Ids /\ files[i] \in Saved /\ i <= size[files[i]] /\ i \in Nat \ {0}
      BY SharesHaveFiles DEF Loaded, Loads, DirInv, DirTyped
    <3>2. files[i] \in Int /\ public \in Int
      BY <2>1, <3>1 DEF Saved
    <3>3. files[i] > public => files[i] \in cutShort \/ writing # Idle
      BY <2>1, <3>1, <3>2 DEF DirInv, Ended
    <3>4. files[i] < public => i > size[public]
      BY <2>2, <2>3, <3>1, <3>2
    <3>5. CASE files[i] = public
      <4>1. ~ (files[i] > public) /\ ~ (files[i] < public)
        BY <3>2, <3>5
      <4>. QED
        BY <3>1, <3>5, <4>1, Zenon
    <3>6. CASE files[i] > public
      <4>1. files[i] # public /\ ~ (files[i] < public)
        BY <3>2, <3>6
      <4>. QED
        BY <3>3, <3>6, <4>1, Zenon
    <3>7. CASE files[i] < public
      <4>1. files[i] # public /\ ~ (files[i] > public)
        BY <3>2, <3>7
      <4>. QED
        BY <3>4, <3>7, <4>1, Zenon
    <3>8. files[i] = public \/ files[i] > public \/ files[i] < public
      BY <3>2
    <3>. QED
      BY <3>5, <3>6, <3>7, <3>8, Zenon
  <2>. QED
    BY <2>3, <2>4
<1>. QED
  BY <1>1, DirInvHolds, PTL
===============================================================================
