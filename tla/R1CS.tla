-------------------------------- MODULE R1CS --------------------------------
(***************************************************************************)
(* The proof of a circuit: src/pvac/include/pvac/crypto/bulletproofs/       *)
(* r1cs_prover.hpp, r1cs_verifier.hpp and inner_product.hpp, called by      *)
(* make_zero_proof_bound and verify_zero_bound.  A point of the group stands *)
(* for its logarithm, a number modulo Scalars: a sum of multiples of        *)
(* generators is what it is in the group, and two different sums meet by    *)
(* chance only.  The transcript is a number that every message moves.       *)
(* Without CUDA, the prover's inner product is the one below.               *)
(***************************************************************************)
EXTENDS Circuit

CONSTANTS GenG(_), GenH(_),          \* the generators
          PedersenB, PedersenBlind,
          ScalarBits,                \* the bits of a scalar
          Random(_)                  \* sc_random, by the number of the call

Times(x, y) == (x * y) % Scalars
Plus(x, y) == (x + y) % Scalars

\* A vector whose entries are computed once.
Vector(n, entry(_)) == <<>> \o [i \in 1..n |-> entry(i)]

\* The terms from lo to hi, taken together by halves.
Together(op(_, _), unit, lo, hi, term(_)) ==
  LET all[i, j \in Nat] == IF i > j THEN unit
                          ELSE IF i = j THEN op(term(i), unit)
                          ELSE op(all[i, (i + j) \div 2], all[((i + j) \div 2) + 1, j])
  IN all[lo, hi]

Sum(n, term(_)) == Together(Plus, 0, 1, n, term)
InnerProduct(a, b) == Sum(Len(a), LAMBDA i : Times(a[i], b[i]))

\* 1, x, x^2 and so on.
Powers(x, n) == Vector(n, LAMBDA i : Together(Times, 1, 2, i, LAMBDA k : x))

\* next_power_of_2
PowerOf2(n) == 2^(CHOOSE k \in 0..20 : 2^k >= n /\ (k = 0 \/ 2^(k - 1) < n))

-----------------------------------------------------------------------------
(* multi_scalar_mul: a sequence of terms <<scalar, point>>.  Windows of w    *)
(* bits; the points of one window fall into the bucket of their digit.      *)

WindowBits(n) == IF 2^15 <= n THEN 16 ELSE CHOOSE w \in 1..15 : 2^(w - 1) <= n /\ n < 2^w

WindowSum(terms, w, at) ==
  LET digit == Vector(Len(terms), LAMBDA i : (terms[i][1] \div 2^at) % 2^w)
      bucket == Vector(2^w - 1, LAMBDA d :
                   Sum(Len(terms), LAMBDA i : IF digit[i] = d THEN terms[i][2] ELSE 0))
      running(d) == Together(Plus, 0, d, 2^w - 1, LAMBDA e : bucket[e])
  IN Sum(2^w - 1, running)

MultiScalarMul(terms) ==
  LET n == Len(terms)
      w == WindowBits(n)
      windows == (ScalarBits + w - 1) \div w
  IN IF n <= 2 THEN Sum(n, LAMBDA i : Times(terms[i][1], terms[i][2]))
     ELSE FoldLeft(LAMBDA r, k : (r * 2^w + WindowSum(terms, w, (windows - k) * w)) % Scalars,
                   0, [k \in 1..windows |-> k])

Pedersen(v, blind) == MultiScalarMul(<<<<v, PedersenB>>, <<blind, PedersenBlind>>>>)

Pairs(scalars, points) == Vector(Len(scalars), LAMBDA i : <<scalars[i], points[i]>>)
GVec(n) == Vector(n, LAMBDA i : GenG(i))
HVec(n) == Vector(n, LAMBDA i : GenH(i))

-----------------------------------------------------------------------------
(* Transcript.  A challenge is never zero.                                  *)

Mixed(t, x) == (t * 733 + x + 1) % Scalars
AppendAll(t, messages) == FoldLeft(Mixed, t, messages)
Challenge(t) == 1 + (Mixed(t, 11) % (Scalars - 1))
Challenged(t) == Mixed(Mixed(t, 11), 12)

-----------------------------------------------------------------------------
(* ipp_prove: every round halves the vectors.                               *)

IppRound(s) ==
  LET half == Len(s.a) \div 2
      lo(v) == SubSeq(v, 1, half)
      hi(v) == SubSeq(v, half + 1, 2 * half)
      l == MultiScalarMul(Pairs(lo(s.a), hi(s.g)) \o Pairs(hi(s.b), lo(s.h))
                            \o <<<<InnerProduct(lo(s.a), hi(s.b)), s.q>>>>)
      r == MultiScalarMul(Pairs(hi(s.a), lo(s.g)) \o Pairs(lo(s.b), hi(s.h))
                            \o <<<<InnerProduct(hi(s.a), lo(s.b)), s.q>>>>)
      t == AppendAll(s.t, <<l, r>>)
      u == Challenge(t)
      v == ScalarInverse(u)
      mix(x, one, other) ==
        Vector(half, LAMBDA i : MultiScalarMul(<<<<one, x[i]>>, <<other, x[half + i]>>>>))
  IN [s EXCEPT !.l = Append(@, l), !.r = Append(@, r), !.t = Challenged(t),
               !.a = mix(@, u, v), !.b = mix(@, v, u), !.g = mix(@, v, u), !.h = mix(@, u, v)]

RECURSIVE IppRounds(_)
IppRounds(s) ==
  IF Len(s.a) = 1 THEN [l |-> s.l, r |-> s.r, a |-> s.a[1], b |-> s.b[1]]
  ELSE LET next[round \in {IppRound(s)}] == IppRounds(round) IN next[IppRound(s)]

IppProve(t, q, a, b, g, h) ==
  IppRounds([t |-> t, q |-> q, a |-> a, b |-> b, g |-> g, h |-> h, l |-> <<>>, r |-> <<>>])

\* Wrong on purpose: the first challenge belongs to the lowest bit.
VerificationScalarsReversed(u) ==
  LET lg == Len(u)
      all == Together(Times, 1, 1, lg, LAMBDA k : ScalarInverse(u[k]))
      top(i) == CHOOSE k \in 0..lg : 2^k <= i /\ i < 2^(k + 1)
      s[i \in 0..(2^lg - 1)] ==
        IF i = 0 THEN all
        ELSE LET k == top(i) IN Times(s[i - 2^k], Times(u[k + 1], u[k + 1]))
  IN Vector(2^lg, LAMBDA i : s[i - 1])

\* ipp_verification_scalars
VerificationScalars(u) ==
  LET lg == Len(u)
      all == Together(Times, 1, 1, lg, LAMBDA k : ScalarInverse(u[k]))
      top(i) == CHOOSE k \in 0..lg : 2^k <= i /\ i < 2^(k + 1)
      s[i \in 0..(2^lg - 1)] ==
        IF i = 0 THEN all
        ELSE LET k == top(i) IN Times(s[i - 2^k], Times(u[lg - k], u[lg - k]))
  IN Vector(2^lg, LAMBDA i : s[i - 1])

\* batch_sc_inv: one inverse for all.
BatchInverse(vals) ==
  LET n == Len(vals)
      product(lo, hi) == Together(Times, 1, lo, hi, LAMBDA i : vals[i])
      all == ScalarInverse(product(1, n))
  IN Vector(n, LAMBDA i : Times(Times(all, product(i + 1, n)), product(1, i - 1)))

\* ipp_verify_with_y
IppVerify(t0, p, q, proof, n, yInv) ==
  LET lg == Len(proof.l)
      ts == FoldLeft(LAMBDA s, k : LET t == AppendAll(s.t, <<proof.l[k], proof.r[k]>>)
                                   IN [t |-> Challenged(t), u |-> Append(s.u, Challenge(t))],
                     [t |-> t0, u |-> <<>>], [k \in 1..lg |-> k])
      s == VerificationScalars(ts.u)
      sInv == BatchInverse(s)
      sq == Vector(lg, LAMBDA k : Times(ts.u[k], ts.u[k]))
      sqInv == BatchInverse(sq)
      minus(x) == (-x) % Scalars
  IN /\ n \in 1..2^20
     /\ Len(proof.r) = lg
     /\ 2^lg = n
     /\ p = MultiScalarMul(
              Vector(n, LAMBDA i : <<Times(proof.a, s[i]), GenG(i)>>)
                \o Vector(n, LAMBDA i : <<Times(Times(proof.b, sInv[i]), yInv[i]), GenH(i)>>)
                \o <<<<Times(proof.a, proof.b), q>>>>
                \o Vector(lg, LAMBDA k : <<minus(sq[k]), proof.l[k]>>)
                \o Vector(lg, LAMBDA k : <<minus(sqInv[k]), proof.r[k]>>))

-----------------------------------------------------------------------------
(* z_aggregate: what every variable weighs in the sum of all constraints,   *)
(* the k-th times z^k.  r1cs_verify does the same.                          *)

Weights(cons, z, n, m) ==
  LET vars == {One} \cup {Left(i) : i \in 1..n} \cup {Right(i) : i \in 1..n}
                \cup {Out(i) : i \in 1..n} \cup {Committed(j) : j \in 1..m}
      zs == Powers(z, Len(cons))
      coefficient(c, v) == Sum(Len(c), LAMBDA i : IF c[i][1] = v THEN c[i][2] ELSE 0)
  IN [v \in vars |-> Sum(Len(cons), LAMBDA k : Times(zs[k], coefficient(cons[k], v)))]

\* The messages before the first challenge.
Opening(t, n, m, q, pf) == AppendAll(t, <<n, m, q>> \o pf.v \o <<pf.ai, pf.ao, pf.s>>)

\* R1CSProver::prove
Prove(b, t0) ==
  LET m == Len(b.com)
      n == PowerOf2(Len(b.gates))
      gate(i, side) == IF i <= Len(b.gates) THEN b.gates[i][side] ELSE 0
      aL == Vector(n, LAMBDA i : gate(i, "l"))
      aR == Vector(n, LAMBDA i : gate(i, "r"))
      aO == Vector(n, LAMBDA i : gate(i, "o"))
      sL == Vector(n, LAMBDA i : Random(2 * i))
      sR == Vector(n, LAMBDA i : Random(2 * i + 1))
      rnd(k) == Random(2 * n + 1 + k)          \* alpha, beta, rho, tau1, tau3 to tau6
      first == [v |-> Vector(m, LAMBDA j : Pedersen(b.com[j].v, b.com[j].blind)),
                ai |-> MultiScalarMul(Pairs(aL, GVec(n)) \o Pairs(aR, HVec(n))
                                        \o <<<<rnd(1), PedersenBlind>>>>),
                ao |-> MultiScalarMul(Pairs(aO, GVec(n)) \o <<<<rnd(2), PedersenBlind>>>>),
                s |-> MultiScalarMul(Pairs(sL, GVec(n)) \o Pairs(sR, HVec(n))
                                       \o <<<<rnd(3), PedersenBlind>>>>)]
      t1 == Opening(t0, n, m, Len(b.cons), first)
      y == Challenge(t1)
      z == Challenge(Challenged(t1))
      w == Weights(b.cons, z, n, m)
      ys == Powers(y, n)
      yInv == Powers(ScalarInverse(y), n)
      l1 == Vector(n, LAMBDA i : (aL[i] + Times(yInv[i], w[Right(i)])) % Scalars)
      r0 == Vector(n, LAMBDA i : (w[Out(i)] - ys[i]) % Scalars)
      r1 == Vector(n, LAMBDA i : (Times(ys[i], aR[i]) + w[Left(i)]) % Scalars)
      r3 == Vector(n, LAMBDA i : Times(ys[i], sR[i]))
      ts == <<Pedersen(InnerProduct(l1, r0), rnd(4)),
              Pedersen((InnerProduct(aO, r1) + InnerProduct(sL, r0)) % Scalars, rnd(5)),
              Pedersen((InnerProduct(l1, r3) + InnerProduct(sL, r1)) % Scalars, rnd(6)),
              Pedersen(InnerProduct(aO, r3), rnd(7)),
              Pedersen(InnerProduct(sL, r3), rnd(8))>>
      t2 == AppendAll(Challenged(Challenged(t1)), ts)
      xs == Powers(Challenge(t2), 7)           \* xs[k + 1] is x^k
      l == Vector(n, LAMBDA i :
             (Times(l1[i], xs[2]) + Times(aO[i], xs[3]) + Times(sL[i], xs[4])) % Scalars)
      r == Vector(n, LAMBDA i :
             (r0[i] + Times(r1[i], xs[2]) + Times(r3[i], xs[4])) % Scalars)
      tx == InnerProduct(l, r)
      blinds == Sum(m, LAMBDA j : Times(w[Committed(j)], b.com[j].blind))
      tau == Times(rnd(4), xs[2]) - Times(blinds, xs[3])
               + Sum(4, LAMBDA k : Times(rnd(k + 4), xs[k + 3]))
      e == Sum(3, LAMBDA k : Times(rnd(k), xs[k + 1]))
      t3 == AppendAll(Challenged(t2), <<tx, tau % Scalars, e>>)
      q == MultiScalarMul(<<<<Challenge(t3), PedersenB>>>>)
      h == Vector(n, LAMBDA i : Times(yInv[i], GenH(i)))
  IN [v |-> first.v, ai |-> first.ai, ao |-> first.ao, s |-> first.s, ts |-> ts,
      tx |-> tx, tau |-> tau % Scalars, e |-> e,
      ipp |-> IppProve(Challenged(t3), q, l, r, GVec(n), h)]

\* r1cs_verify: b is the circuit as the verifier builds it.
Verify(b, t0, pf) ==
  LET m == Len(b.com)
      n == PowerOf2(Len(b.gates))
      t1 == Opening(t0, n, m, Len(b.cons), pf)
      y == Challenge(t1)
      z == Challenge(Challenged(t1))
      t2 == AppendAll(Challenged(Challenged(t1)), pf.ts)
      xs == Powers(Challenge(t2), 7)
      t3 == AppendAll(Challenged(t2), <<pf.tx, pf.tau, pf.e>>)
      c == Challenge(t3)
      w == Weights(b.cons, z, n, m)
      yInv == Powers(ScalarInverse(y), n)
      delta == Sum(n, LAMBDA i : Times(Times(yInv[i], w[Right(i)]), w[Left(i)]))
      rhs == MultiScalarMul(
               <<<<Times(xs[3], (delta - w[One]) % Scalars), PedersenB>>>>
                 \o Vector(m, LAMBDA j :
                             <<(-Times(xs[3], w[Committed(j)])) % Scalars, pf.v[j]>>)
                 \o <<<<xs[2], pf.ts[1]>>, <<xs[4], pf.ts[2]>>, <<xs[5], pf.ts[3]>>,
                      <<xs[6], pf.ts[4]>>, <<xs[7], pf.ts[5]>>>>)
      p == MultiScalarMul(
             Vector(n, LAMBDA i : <<Times(xs[2], Times(yInv[i], w[Right(i)])), GenG(i)>>)
               \o Vector(n, LAMBDA i :
                     <<(Times(yInv[i], Plus(w[Out(i)], Times(w[Left(i)], xs[2]))) - 1)
                         % Scalars, GenH(i)>>)
               \o <<<<xs[2], pf.ai>>, <<xs[3], pf.ao>>, <<xs[4], pf.s>>,
                    <<(-pf.e) % Scalars, PedersenBlind>>, <<Times(pf.tx, c), PedersenB>>>>)
  IN /\ Len(pf.v) = m
     /\ Pedersen(pf.tx, pf.tau) = rhs
     /\ IppVerify(Challenged(t3), p, MultiScalarMul(<<<<c, PedersenB>>>>), pf.ipp, n, yInv)

-----------------------------------------------------------------------------
(* make_zero_proof_bound and verify_zero_bound.                             *)

ZeroTranscript(ct) == AppendAll(1, <<Len(ct.L), 1, Len(BaseLayers(ct))>>)

\* The commitment that a base layer carries.
LayerCommitment(ct, l) ==
  Pedersen(Signed(Inverse1(LayerFactors(ct)[l])) % Scalars, Blind[ct.L[l].seed])

MakeZeroProof(ct, amount) == Prove(ProverCircuit(ct, amount), ZeroTranscript(ct))

\* commitment: of the amount, or none.
VerifyZero(ct, pf, commitment) ==
  LET bases == BaseLayers(ct)
  IN /\ pf.v = [i \in DOMAIN bases |-> LayerCommitment(ct, bases[i])] \o commitment
     /\ Verify(VerifierCircuit(ct, commitment # <<>>), ZeroTranscript(ct), pf)
=============================================================================
