------------------------------ MODULE Circuit ------------------------------
(***************************************************************************)
(* The circuit of a zero proof: src/pvac/include/pvac/ops/                  *)
(* verify_zero_circuit.hpp on the gadgets of crypto/bulletproofs/gadgets.hpp *)
(* and the builder of r1cs_prover.hpp.  Its witness are the inverse factors *)
(* of a cipher's layers; it can be satisfied only if the cipher decrypts to *)
(* the amount.  Field elements have two limbs of WordBits and WordBits - 1. *)
(*                                                                         *)
(* A builder has the committed values, the gates and the constraints so     *)
(* far; a constraint is a sequence of terms <<variable, coefficient>>.  The  *)
(* functions with one argument that take a builder make TLC finish it before *)
(* they go on.                                                             *)
(***************************************************************************)
EXTENDS Ciphers

CONSTANTS Scalars,   \* the order of the group: scalars are numbers modulo it
          Blind      \* derive_rho: from seeds to scalars

Word == 2^WordBits
ScalarInverse(a) ==
  LET inv[r0 \in Nat, r1 \in Nat, t0 \in Int, t1 \in Int] ==
        IF r1 = 0 THEN t0
        ELSE inv[r1, r0 % r1, t1, t0 - (r0 \div r1) * t1]
  IN inv[Scalars, a % Scalars, 0, 1] % Scalars

-----------------------------------------------------------------------------
(* R1CSProver.                                                             *)

Empty == [com |-> <<>>, gates |-> <<>>, cons |-> <<>>]

One == <<"one", 0>>
Committed(j) == <<"com", j>>
Left(i) == <<"l", i>>
Right(i) == <<"r", i>>
Out(i) == <<"o", i>>

Commit(b, value, blind) ==
  [b EXCEPT !.com = Append(@, [v |-> value % Scalars, blind |-> blind % Scalars])]

Allocate(b, l, r) ==
  [b EXCEPT !.gates = Append(@, [l |-> l % Scalars, r |-> r % Scalars,
                                 o |-> ((l % Scalars) * (r % Scalars)) % Scalars])]

Constrain(b, lc) == [b EXCEPT !.cons = Append(@, lc)]

ValueOf(b, var) == CASE var[1] = "one" -> 1
                     [] var[1] = "com" -> b.com[var[2]].v
                     [] OTHER -> b.gates[var[2]][var[1]]

\* eval_lc
Eval(b, lc) ==
  FoldLeft(LAMBDA sum, t : (sum + (t[2] % Scalars) * ValueOf(b, t[1])) % Scalars, 0, lc)

\* multiply: the new gate's inputs are the two combinations.
Multiply(b, lcl, lcr) ==
  LET i == Len(b.gates) + 1
      g == Allocate(b, Eval(b, lcl), Eval(b, lcr))
  IN Constrain(Constrain(g, Append(lcl, <<Left(i), -1>>)), Append(lcr, <<Right(i), -1>>))

Satisfied(b) == \A i \in DOMAIN b.cons : Eval(b, b.cons[i]) = 0

-----------------------------------------------------------------------------
(* Gadgets.                                                                *)

Minus(lc) == [i \in DOMAIN lc |-> <<lc[i][1], -lc[i][2]>>]

\* A gate whose inputs are a bit and its complement.
Bit(b, v) ==
  LET i == Len(b.gates) + 1
  IN Constrain(Constrain(Allocate(b, v, 1 - v), <<<<Out(i), 1>>>>),
               <<<<Left(i), 1>>, <<Right(i), 1>>, <<One, -1>>>>)

\* range_check: the variable is the sum of n bits.
RangeCheck(built, var, value, n) ==
  LET checked[b \in {built}] ==
        LET first == Len(b.gates)
            bits == FoldLeft(LAMBDA c, i : Bit(c, (value \div 2^(i - 1)) % 2), b,
                             [i \in 1..n |-> i])
        IN Constrain(bits, Append([i \in 1..n |-> <<Left(first + i), 2^(i - 1)>>], <<var, -1>>))
  IN checked[built]

\* fp127_decompose: two new variables, the limbs of an old one.  fp_mul_gadget takes
\* its operands apart in the same way.
Split(b, var, value) ==
  LET n == Len(b.gates)
      x0 == value % Word
      x1 == (value \div Word) % Word
      limbs == Constrain(Allocate(Allocate(b, x0, 1), x1, 1),
                         <<<<Left(n + 1), 1>>, <<Left(n + 2), Word>>, <<var, -1>>>>)
  IN RangeCheck(RangeCheck(limbs, Left(n + 1), x0, WordBits), Left(n + 2), x1, WordBits - 1)

\* A layer's variable, its value, and the gate before its limbs.
LayerVar(var, value, at) == [var |-> var, value |-> value, at |-> at]

\* fp_mul_gadget: limbs are multiplied, and the sum of their products is the result
\* and a multiple q of p.
FieldMul(b, x, y) ==
  LET n == Len(b.gates)
      one == Split(b, x.var, x.value)
      m == Len(one.gates)
      two == Split(one, y.var, y.value)
      limb(i) == two.gates[i].l
      times(c, i, j) == Multiply(c, <<<<Left(i), 1>>>>, <<<<Left(j), 1>>>>)
      four == times(times(times(times(two, n + 1, m + 1), n + 1, m + 2),
                          n + 2, m + 1), n + 2, m + 2)
      k == Len(two.gates)
      sum == limb(n + 1) * limb(m + 1) + 2 * limb(n + 2) * limb(m + 2)
               + Word * (limb(n + 1) * limb(m + 2) + limb(n + 2) * limb(m + 1))
      c == (((x.value % (Word * Word)) * (y.value % (Word * Word))) % Prime)
      q == ((sum - c) * ScalarInverse(Prime)) % Scalars
      quotient == Multiply(Allocate(Allocate(four, c, 1), q, 1),
                           <<<<Left(k + 6), 1>>>>, <<<<One, Prime>>>>)
      equal == Constrain(quotient,
        <<<<Out(k + 7), 1>>, <<Out(k + 1), -1>>, <<Out(k + 2), -Word>>,
          <<Out(k + 3), -Word>>, <<Out(k + 4), -2>>, <<Left(k + 5), 1>>>>)
  IN [b |-> RangeCheck(RangeCheck(equal, Left(k + 5), c, 2 * WordBits - 1),
                       Left(k + 6), q, WordBits + 2),
      var |-> Left(k + 5), value |-> c]

\* sc_from_fp_signed: the upper half of the field is negative.
Signed(x) == IF x >= (Word * Word) \div 4 THEN -(Prime - x) ELSE x

\* bind_pc_value: the committed value, or p more if it is negative.
BindCommitted(b, committed, x) ==
  LET n == Len(b.gates)
      high == Bit(b, IF x >= (Word * Word) \div 4 THEN 1 ELSE 0)
      bound == Constrain(Allocate(high, x, 1),
                         <<<<Left(n + 2), 1>>, <<committed, -1>>, <<Left(n + 1), -Prime>>>>)
  IN [b |-> Split(bound, Left(n + 2), x), l |-> LayerVar(Left(n + 2), x, n + 2)]

\* Wrong on purpose: two high limbs are not carried over.
FoldedUncarried(a, at) ==
  LET a0 == a % Word
      a1 == a \div Word
  IN <<<<Left(at + 1), a0>>, <<Left(at + 2), Word * a0>>,
       <<Left(at + 1), Word * a1>>, <<Left(at + 2), a1>>>>

\* fp_mul_const_var_folded: a constant times a split variable, not reduced.
Folded(a, at) ==
  LET a0 == a % Word
      a1 == a \div Word
  IN <<<<Left(at + 1), a0>>, <<Left(at + 2), Word * a0>>,
       <<Left(at + 1), Word * a1>>, <<Left(at + 2), 2 * a1>>>>

-----------------------------------------------------------------------------
(* build_circuit.  The prover has the layers' inverse factors; the verifier *)
(* builds the same circuit with zeros.                                      *)

\* Base layers come first, then products in their order.
BaseLayers(ct) == SelectSeq([l \in DOMAIN ct.L |-> l], LAMBDA l : ct.L[l].rule = "base")
ProdLayers(ct) == SelectSeq([l \in DOMAIN ct.L |-> l], LAMBDA l : ct.L[l].rule = "prod")

WithBase(state, l, x, blind) ==
  LET with[s \in {state}] ==
        LET committed == Commit(s.b, Signed(x), blind)
            bound == BindCommitted(committed, Committed(Len(committed.com)), x)
        IN [b |-> bound.b, vars |-> [s.vars EXCEPT ![l] = bound.l]]
  IN with[state]

WithProd(state, l, pa, pb) ==
  LET with[s \in {state}] ==
        LET r == FieldMul(s.b, s.vars[pa], s.vars[pb])
        IN [b |-> Split(r.b, r.var, r.value),
            vars |-> [s.vars EXCEPT ![l] = LayerVar(r.var, r.value, Len(r.b.gates))]]
  IN with[state]

\* What is left of amount and cipher is k times p, for a k of some bits.
WithSum(b, ct, coeffs, vars, amount) ==
  LET layers == SelectSeq([l \in DOMAIN ct.L |-> l], LAMBDA l : coeffs[l] # 0)
      c0 == IF ct.c0 = <<>> THEN 0 ELSE ct.c0[1]
      sum == (IF c0 = 0 THEN <<>> ELSE <<<<One, c0>>>>)
               \o (IF amount = <<>> THEN <<>> ELSE <<<<Committed(Len(b.com)), -1>>>>)
               \o FlattenSeq([i \in DOMAIN layers |->
                                Folded(coeffs[layers[i]], vars[layers[i]].at)])
      k == (Eval(b, sum) * ScalarInverse(Prime)) % Scalars
      n == Len(b.gates)
      times == Multiply(Allocate(b, k, 1), <<<<Left(n + 1), 1>>>>, <<<<One, Prime>>>>)
  IN RangeCheck(Constrain(times, <<<<Out(n + 2), 1>>>> \o Minus(sum)),
                Left(n + 1), k, WordBits + 9)

\* x and blind: what is committed to for each base layer; amount: none, or the
\* amount and its blinding.
Build(ct, x, blind, amount) ==
  LET start == [b |-> Empty, vars |-> [l \in DOMAIN ct.L |-> LayerVar(One, 0, 0)]]
      bases == FoldLeft(LAMBDA s, l : WithBase(s, l, x[l], blind[l]), start, BaseLayers(ct))
      all == FoldLeft(LAMBDA s, l : WithProd(s, l, ct.L[l].pa, ct.L[l].pb),
                      bases, ProdLayers(ct))
      bound == IF amount = <<>> THEN all.b ELSE Commit(all.b, amount[1], amount[2])
  IN WithSum(bound, ct, LayerCoeffs(ct), all.vars, amount)

\* make_zero_proof, make_zero_proof_bound
ProverCircuit(ct, amount) ==
  LET r == LayerFactors(ct)
  IN Build(ct, [l \in DOMAIN ct.L |-> Inverse1(r[l])],
           [l \in DOMAIN ct.L |-> IF ct.L[l].rule = "base" THEN Blind[ct.L[l].seed] ELSE 0],
           amount)

\* verify_zero, verify_zero_bound
VerifierCircuit(ct, bound) ==
  Build(ct, [l \in DOMAIN ct.L |-> 0], [l \in DOMAIN ct.L |-> 0],
        IF bound THEN <<0, 0>> ELSE <<>>)
=============================================================================
