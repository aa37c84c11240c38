----------------------------- MODULE FieldLimbs -----------------------------
(***************************************************************************)
(* The field of src/pvac/include/pvac/core/field.hpp: numbers modulo         *)
(* p = 2^(2w-1) - 1 in two limbs of w bits, w = 64 in the code.  Every sum   *)
(* and product of limbs keeps the width the code gives it.                  *)
(***************************************************************************)
EXTENDS Integers

CONSTANTS LimbBits,   \* w
          Window      \* 5, the bits an inversion takes at once

\* 2^n
TwoTo(n) == LET power[k \in 0..2 * LimbBits] == IF k = 0 THEN 1 ELSE 2 * power[k - 1]
            IN power[n]

Limb == TwoTo(LimbBits)
Mask == Limb \div 2 - 1          \* MASK63
Modulus == Limb * (Limb \div 2) - 1

Fp(lo, hi) == [lo |-> lo, hi |-> hi]
Number(a) == a.hi * Limb + a.lo

\* Wrong on purpose: p itself is left as it is.
FromWordsLoose(lo, hi) ==
  LET t == lo + hi \div (Mask + 1)
      l == t % Limb
      h == (hi % (Mask + 1)) + t \div Limb
  IN IF h > Mask
     THEN Fp((l - (Limb - 1)) % Limb, (h - Mask - (IF l < Limb - 1 THEN 1 ELSE 0)) % Limb)
     ELSE Fp(l, h)

\* fp_from_words: the top bit counts 2^(2w-1) = 1, then p is taken off once.
FromWords(lo, hi) ==
  LET t == lo + hi \div (Mask + 1)
      l == t % Limb
      h == (hi % (Mask + 1)) + t \div Limb
  IN IF h > Mask \/ (h = Mask /\ l = Limb - 1)
     THEN Fp((l - (Limb - 1)) % Limb, (h - Mask - (IF l < Limb - 1 THEN 1 ELSE 0)) % Limb)
     ELSE Fp(l, h)

Add(a, b) == LET t == a.lo + b.lo
             IN FromWords(t % Limb, (a.hi + b.hi + t \div Limb) % Limb)

Neg(a) == FromWords(Limb - 1 - a.lo, Mask - a.hi)
Sub(a, b) == Add(a, Neg(b))

\* mul128x128: the four limbs of a product, least first.
Product(a, b) ==
  LET c0 == a.lo * b.lo
      c1 == a.lo * b.hi
      c2 == a.hi * b.lo
      c3 == a.hi * b.hi
      t == c0 \div Limb + (c1 % Limb) + (c2 % Limb)
      t2 == c1 \div Limb + c2 \div Limb + (c3 % Limb) + t \div Limb
      t3 == c3 \div Limb + t2 \div Limb
  IN <<c0 % Limb, t % Limb, t2 % Limb, t3 % Limb>>

\* fp_reduce256: the bits from 2^(2w-1) on are added to those below, twice.
Reduce(z) ==
  LET top == Mask + 1
      t0 == z[1] + ((z[2] \div top + 2 * z[3]) % Limb)
      t1 == (z[2] % top) + ((z[3] \div top + 2 * z[4]) % Limb) + t0 \div Limb
      x1 == t1 % Limb
      x2 == z[4] \div top + t1 \div Limb
      s0 == (t0 % Limb) + ((x1 \div top + 2 * x2) % Limb)
  IN FromWords(s0 % Limb, (x1 % top) + s0 \div Limb)

Mul(a, b) == Reduce(Product(a, b))

-----------------------------------------------------------------------------
(* Powers and inverses.                                                    *)

One == Fp(1, 0)
Elements == [lo : 0..Limb - 1, hi : 0..Mask]

\* fp_pow_u64: r, the square that is next, and the bits of e that are left, at most w.
PowTurn(t) ==
  IF t.e = 0 THEN t
  ELSE [r |-> IF t.e % 2 = 1 THEN Mul(t.r, t.x) ELSE t.r,
        x |-> Mul(t.x, t.x),
        e |-> t.e \div 2]
Pow(a, e) ==
  LET turn[k \in 0..LimbBits] ==
        IF k = 0 THEN [r |-> One, x |-> a, e |-> e] ELSE PowTurn(turn[k - 1])
  IN turn[LimbBits].r

Squared(r, n) == LET s[k \in 0..n] == IF k = 0 THEN r ELSE Mul(s[k - 1], s[k - 1])
                 IN s[n]

\* tbl: the powers of a whose exponents fit in a window.
Table(a) == LET tbl[k \in 0..TwoTo(Window) - 1] ==
                  IF k = 0 THEN One ELSE IF k = 1 THEN a ELSE Mul(tbl[k - 1], a)
            IN tbl

\* A turn of fp_inv_ct, which raises to the power p - 2 from its highest bit down: r,
\* when the bits from pos down are still to come.  A zero is one squaring, a one
\* begins a window of as many bits as there are, which never need be fewer.
Low(pos) == IF pos - Window + 1 > 0 THEN pos - Window + 1 ELSE 0
InvTurn(tbl, t) ==
  LET low == Low(t.pos)
      bits == t.pos - low + 1
      k == ((Modulus - 2) \div TwoTo(low)) % TwoTo(bits)
  IN CASE t.pos < 0 -> t
       [] t.pos >= 0 /\ ((Modulus - 2) \div TwoTo(t.pos)) % 2 = 0 ->
            [r |-> Mul(t.r, t.r), pos |-> t.pos - 1]
       [] OTHER -> [r |-> Mul(Squared(t.r, bits), tbl[k]), pos |-> low - 1]
Inv(a) ==
  LET turn[k \in 0..2 * LimbBits - 1] ==
        IF k = 0 THEN [r |-> One, pos |-> 2 * LimbBits - 2] ELSE InvTurn(Table(a), turn[k - 1])
  IN turn[2 * LimbBits - 1].r
=============================================================================
