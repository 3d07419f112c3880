------------------------------ MODULE FixedPoint ------------------------------
(***************************************************************************)
(* The fixed point arithmetic (amount.rs) at a word of 2 * H bits in place *)
(* of 128: checked operations on signed words, and a * b / den by way of a *)
(* product of two words, which long division brings back to one.  An       *)
(* operation's result is a set, empty where the code's is absent.          *)
(***************************************************************************)
EXTENDS Integers

CONSTANT H   \* bits of half a word: 64 in the code

ASSUME FixedPointAssumption == H \in Nat \ {0}

PowerOfTwo[i \in 0 .. 2 * H] == IF i = 0 THEN 1 ELSE 2 * PowerOfTwo[i - 1]

Half == PowerOfTwo[H]
Word == PowerOfTwo[2 * H]
Largest == Word \div 2 - 1
Smallest == -(Word \div 2)
Words == Smallest .. Largest

Abs(x) == IF x < 0 THEN -x ELSE x

(* Fixed::add and sub. *)
Checked(x) == {x} \cap Words
FixedAdd(a, b) == Checked(a + b)
FixedSub(a, b) == Checked(a - b)

\* Mutant of MulFull: what the middle products carry is lost.
MulFullLosesCarry(a, b) ==
  LET ll == (a % Half) * (b % Half)
      lh == (a % Half) * (b \div Half)
      hl == (a \div Half) * (b % Half)
      mid == (ll \div Half) + (lh % Half) + (hl % Half)
  IN [lo |-> (ll % Half) + ((mid * Half) % Word),
      hi |-> (a \div Half) * (b \div Half) + (lh \div Half) + (hl \div Half)]

(* The product of two unsigned words, from the products of their halves; lo takes the
   halves' disjoint bits, and what does not fit a word is lost. *)
MulFull(a, b) ==
  LET ll == (a % Half) * (b % Half)
      lh == (a % Half) * (b \div Half)
      hl == (a \div Half) * (b % Half)
      hh == (a \div Half) * (b \div Half)
      mid == ((ll \div Half) + (lh % Half) + (hl % Half)) % Word
  IN [lo |-> (ll % Half) + ((mid * Half) % Word),
      hi |-> (hh + (lh \div Half) + (hl \div Half) + (mid \div Half)) % Word]

(* One step of the long division, which takes the next lower bit of lo. *)
DivisionStep(d, bit, den) ==
  LET shifted == ((d.rem * 2) % Word) + bit
  IN IF d.rem >= Word \div 2 \/ shifted >= den
       THEN [rem |-> (shifted - den) % Word, quo |-> 2 * d.quo + 1]
       ELSE [rem |-> shifted, quo |-> 2 * d.quo]

(* The i-th bit of a word from the top. *)
Bit(lo, i) == (lo \div PowerOfTwo[2 * H - i]) % 2

(* Shift and subtract, from the top bit of lo down. *)
LongDivision(hi, lo, den) ==
  LET after[i \in 0 .. 2 * H] ==
        IF i = 0 THEN [rem |-> hi, quo |-> 0] ELSE DivisionStep(after[i - 1], Bit(lo, i), den)
  IN after[2 * H]

(* div_256_rem: absent where the quotient would not fit a word. *)
DivRem(hi, lo, den) ==
  CASE den = 0 -> {}
    [] den # 0 /\ hi = 0 -> {[quo |-> lo \div den, rem |-> lo % den]}
    [] den # 0 /\ hi # 0 /\ hi >= den -> {}
    [] den # 0 /\ hi # 0 /\ hi < den -> {LongDivision(hi, lo, den)}

(* The sign put back on a magnitude; the smallest word has no positive counterpart. *)
Signed(neg, q) ==
  CASE neg /\ q <= Largest + 1 -> {-q}
    [] ~neg /\ q <= Largest -> {q}
    [] OTHER -> {}

Negative(a, b, den) == ((a < 0) # (b < 0)) # (den < 0)

(* The quotient of the magnitudes, with its remainder. *)
Magnitude(a, b, den) ==
  LET product == MulFull(Abs(a), Abs(b)) IN DivRem(product.hi, product.lo, Abs(den))

(* mul_div: toward zero. *)
MulDiv(a, b, den) ==
  UNION {Signed(Negative(a, b, den), d.quo) : d \in Magnitude(a, b, den)}

(* mul_div_ceil: away from zero, absent where one more does not fit the word. *)
MulDivCeil(a, b, den) ==
  UNION {Signed(Negative(a, b, den), q) :
           q \in {d.quo + (IF d.rem # 0 THEN 1 ELSE 0) : d \in Magnitude(a, b, den)}
                   \cap 0 .. Word - 1}

(* Fixed::mul and div, with the scale of the representation. *)
FixedMul(a, b, wad) == MulDiv(a, b, wad)
FixedDiv(a, b, wad) == IF b = 0 THEN {} ELSE MulDiv(a, wad, b)

-----------------------------------------------------------------------------

(* The quotient a reader expects, in integers of any size. *)
Quotient(a, b, den, up) ==
  LET n == Abs(a * b) + IF up THEN Abs(den) - 1 ELSE 0
  IN IF Negative(a, b, den) THEN -(n \div Abs(den)) ELSE n \div Abs(den)

(* A product scaled down is exact, rounded toward zero or away from it whatever the
   signs, and absent exactly when it does not fit a word or the divisor is zero. *)
ScaledExactly(a, b, den) ==
  /\ MulDiv(a, b, den) = IF den = 0 THEN {} ELSE Checked(Quotient(a, b, den, FALSE))
  /\ MulDivCeil(a, b, den) = IF den = 0 THEN {} ELSE Checked(Quotient(a, b, den, TRUE))

(* Rounding never makes value: what is divided by a price and multiplied by it again is
   never more than it was, and an amount scaled in two parts never more than in one. *)
NoValueMade(a, b, wad) ==
  /\ \A shares \in FixedDiv(a, b, wad) : \A back \in FixedMul(shares, b, wad) :
       Abs(back) <= Abs(a)
  /\ a \in 0 .. Largest /\ b \in 0 .. Largest =>
       \A part \in {a \div 2, 1} \cap 0 .. a : \A rest \in FixedSub(a, part) :
         \A x \in FixedMul(part, b, wad), y \in FixedMul(rest, b, wad),
            whole \in FixedMul(a, b, wad) :
           \A sum \in FixedAdd(x, y) : sum <= whole
================================================================================
