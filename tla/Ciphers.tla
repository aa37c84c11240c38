------------------------------ MODULE Ciphers ------------------------------
(***************************************************************************)
(* The ciphers of src/pvac/include/pvac/ops (encrypt.hpp, arithmetic.hpp,   *)
(* decrypt.hpp, range_proof.hpp) with one slot, over a small field.         *)
(*                                                                         *)
(* A cipher is a sequence L of layers, a sequence E of edges and at most    *)
(* one constant c0.  A layer has a secret factor: that of its seed, or the  *)
(* product of its parents' factors.  An edge gives its layer the signed     *)
(* weight ch * w * g^idx, and the plaintext is c0 and the layers' weights,  *)
(* each divided by its factor.  What is random in the code is a record      *)
(* "noise" here.  The sigmas of edges are left out: none is zero.           *)
(***************************************************************************)
EXTENDS Integers, Sequences, FiniteSets, SequencesExt

CONSTANTS Prime,      \* p
          Root, B,    \* g of keygen and its order, the length of powg_B
          Factor,     \* prf_R_slots: from seeds to 1..Prime - 1
          Delta,      \* delta::Gen: from seeds to the terms of their noise
          EdgeBudget, \* edge_budget
          WordBits,   \* 64, RANGE_BITS too
          MaxLayers, MaxEdges  \* RANGE_MAX_VALUE_LAYERS, RANGE_MAX_VALUE_EDGES

ASSUME CiphersAssumption ==
  /\ Prime \in Nat /\ Prime > 2
  /\ \A a \in 1..Prime - 1 : \E b \in 1..Prime - 1 : (a * b) % Prime = 1
  /\ B \in Nat \ {0} /\ Root \in 1..Prime - 1
  /\ EdgeBudget \in Nat /\ WordBits \in Nat \ {0}
  /\ \A seed \in DOMAIN Factor : /\ Factor[seed] \in 1..Prime - 1
                                 /\ Delta[seed] \in Seq(Int)

Gen(idx) == LET powg[i \in 0..B - 1] == IF i = 0 THEN 1 ELSE (powg[i - 1] * Root) % Prime
            IN powg[idx]
ASSUME RootAssumption == (Gen(B - 1) * Root) % Prime = 1

Inverse1(a) == IF a = 0 THEN 0 ELSE CHOOSE b \in 1..Prime - 1 : (a * b) % Prime = 1

\* Sums in the field.
SumOf(s) == LET sum[n \in 0..Len(s)] == IF n = 0 THEN 0 ELSE (sum[n - 1] + s[n]) % Prime
            IN sum[Len(s)]
Total(f(_), s) == SumOf([i \in DOMAIN s |-> f(s[i])])

Edge(layer, idx, ch, w) == [layer |-> layer, idx |-> idx, ch |-> ch, w |-> w % Prime]
Weight(e) == e.ch * e.w * Gen(e.idx)

Base(seed) == [rule |-> "base", seed |-> seed]
Prod(pa, pb) == [rule |-> "prod", pa |-> IF pa < pb THEN pa ELSE pb,
                 pb |-> IF pa < pb THEN pb ELSE pa]

Cipher(L, E, c0) == [L |-> L, E |-> E, c0 |-> c0]

\* is_valid_cipher_shape, and is_cipher_compatible_with_pubkey.
ShapeOk(ct) ==
  /\ Len(ct.c0) \in {0, 1}
  /\ \A l \in DOMAIN ct.L : ct.L[l].rule = "prod" => ct.L[l].pa < l /\ ct.L[l].pb < l
  /\ \A i \in DOMAIN ct.E : LET e == ct.E[i]
                            IN e.layer \in DOMAIN ct.L /\ e.ch \in {1, -1} /\ e.idx < B

\* The ciphers there are.
Layers == [rule : {"base"}, seed : DOMAIN Factor]
            \cup [rule : {"prod"}, pa : Nat \ {0}, pb : Nat \ {0}]
Edges == [layer : Nat \ {0}, idx : 0..B - 1, ch : {1, -1}, w : 0..Prime - 1]
CipherSet ==
  {ct \in [L : Seq(Layers), E : Seq(Edges), c0 : Seq(0..Prime - 1)] : ShapeOk(ct)}

-----------------------------------------------------------------------------
(* Housekeeping.                                                           *)

\* merge: one edge for each layer, position and sign.
Merge(E) ==
  LET layers == Max({0} \cup {E[i].layer : i \in DOMAIN E})
      place(e) == 2 * (B * (e.layer - 1) + e.idx) + (IF e.ch = 1 THEN 1 ELSE 2)
      here(n) == {i \in DOMAIN E : place(E[i]) = n}
      w(n) == SumOf([i \in DOMAIN E |-> IF place(E[i]) = n THEN E[i].w ELSE 0])
  IN FlattenSeq([n \in 1..2 * B * layers |->
       IF here(n) = {} THEN <<>> ELSE <<[E[CHOOSE i \in here(n) : TRUE] EXCEPT !.w = w(n)]>>])

\* guard_budget
WithinBudget(ct) == IF Len(ct.E) > EdgeBudget THEN [ct EXCEPT !.E = Merge(@)] ELSE ct

\* The layers of edges, and the parents of live products.
LiveLayers(ct) ==
  LET live[n \in 0..Len(ct.L)] ==
        IF n = 0 THEN {ct.E[i].layer : i \in DOMAIN ct.E}
        ELSE live[n - 1] \cup UNION {{ct.L[l].pa, ct.L[l].pb} :
                                    l \in {k \in live[n - 1] : ct.L[k].rule = "prod"}}
  IN live[Len(ct.L)]

\* Wrong on purpose: the parents of products keep their numbers.
CompactLayersHalf(ct) ==
  LET live == LiveLayers(ct)
      new(l) == Cardinality({k \in live : k <= l})
  IN IF Cardinality(live) = Len(ct.L) THEN ct
     ELSE [ct EXCEPT
            !.L = [i \in 1..Cardinality(live) |-> ct.L[CHOOSE l \in live : new(l) = i]],
            !.E = [i \in DOMAIN ct.E |-> [ct.E[i] EXCEPT !.layer = new(@)]]]

\* compact_layers: what no edge needs goes, and the rest is numbered anew.
CompactLayers(ct) ==
  LET live == LiveLayers(ct)
      new(l) == Cardinality({k \in live : k <= l})
      kept(layer) == IF layer.rule = "prod" THEN Prod(new(layer.pa), new(layer.pb)) ELSE layer
  IN IF Cardinality(live) = Len(ct.L) THEN ct
     ELSE [ct EXCEPT
            !.L = [i \in 1..Cardinality(live) |-> kept(ct.L[CHOOSE l \in live : new(l) = i])],
            !.E = [i \in DOMAIN ct.E |-> [ct.E[i] EXCEPT !.layer = new(@)]]]

\* Layers and edges of a cipher that stand after off layers of another.
LayersAfter(L, off) ==
  [l \in DOMAIN L |-> IF L[l].rule = "prod" THEN Prod(L[l].pa + off, L[l].pb + off) ELSE L[l]]
EdgesAfter(E, off) == [i \in DOMAIN E |-> [E[i] EXCEPT !.layer = @ + off]]

-----------------------------------------------------------------------------
(* Encryption.                                                             *)

\* What is random in an encryption: for each of its layers the seed and the places
\* and weights of the edges that hide the value, some for each term of the noise.
Nodes == [idx : 0..B - 1, ch : {1, -1}, w : 0..Prime - 1]
Halves == {h \in [seed : DOMAIN Factor,
                  nodes : Seq(Nodes),
                  pairs : Seq([a : 0..B - 1, b : 0..B - 1, sa : {1, -1}, ra : 0..Prime - 1]),
                  triples : Seq([a : 0..B - 1, b : 0..B - 1, c : 0..B - 1, sa : {1, -1},
                                 sb : {1, -1}, sc : {1, -1}, ra : 0..Prime - 1, rb : 0..Prime - 1])] :
             Len(h.nodes) > 0 /\ Len(h.pairs) + Len(h.triples) = Len(Delta[h.seed])}
IsNoise(n) == /\ n.m \in 0..Prime - 1 /\ n.first \in Halves /\ n.second \in Halves
              /\ n.repack \in Seq(Nodes) /\ Len(n.repack) > 0

\* SigEdge::build: nodes at places of their own, the last of which completes the
\* target.
SigNodes(target, nodes) ==
  LET rest == target - Total(Weight, Front(nodes))
  IN [nodes EXCEPT ![Len(nodes)].w =
        (Last(nodes).ch * rest * Inverse1(Gen(Last(nodes).idx))) % Prime]

\* N2Edge::build: two edges of opposite signs that give d together.
Pair(d, n) ==
  <<Edge(1, n.a, n.sa, n.ra),
    Edge(1, n.b, -n.sa, (n.ra * Gen(n.a) - n.sa * d) * Inverse1(Gen(n.b)))>>

\* N3Edge::build: three edges that give d.
Triple(d, n) ==
  LET two == <<Edge(1, n.a, n.sa, n.ra), Edge(1, n.b, n.sb, n.rb)>>
  IN Append(two, Edge(1, n.c, n.sc, (d - Total(Weight, two))
                                      * Inverse1((n.sc * Gen(n.c)) % Prime)))

\* synth: v and the noise of the seed, all of it times the layer's factor.
Synth(v, noise) ==
  LET d == Delta[noise.seed]
      n2 == Len(noise.pairs)
      n3 == Len(noise.triples)
      edges == SigNodes(v - Total(LAMBDA x : x, d), noise.nodes)
                 \o FlattenSeq([i \in 1..n2 |-> Pair(d[i], noise.pairs[i])])
                 \o FlattenSeq([i \in 1..n3 |-> Triple(d[n2 + i], noise.triples[i])])
      times(e) == Edge(1, e.idx, e.ch, e.w * Factor[noise.seed])
  IN Cipher(<<Base(noise.seed)>>, Merge([i \in DOMAIN edges |-> times(edges[i])]), <<0>>)

\* fuse
Fuse(a, b) ==
  LET E == a.E \o EdgesAfter(b.E, Len(a.L))
  IN Cipher(a.L \o LayersAfter(b.L, Len(a.L)),
            IF Len(E) > EdgeBudget THEN Merge(E) ELSE E,
            <<(a.c0[1] + b.c0[1]) % Prime>>)

\* enc_value_seeded, enc_value: v is hidden by m in one layer, -m in another.
EncValue(v, noise) == Fuse(Synth(v + noise.m, noise.first), Synth(-noise.m, noise.second))

-----------------------------------------------------------------------------
(* Arithmetic.                                                             *)

Scale(ct, s) == [ct EXCEPT !.E = [i \in DOMAIN ct.E |-> [ct.E[i] EXCEPT !.w = (@ * s) % Prime]],
                           !.c0 = [j \in DOMAIN @ |-> (@[j] * s) % Prime]]

AddConst(ct, k) == [ct EXCEPT !.c0 = [j \in DOMAIN @ |-> (@[j] + k) % Prime]]

\* Wrong on purpose: the second cipher's products keep their parents.
AddUnshifted(a, b) ==
  CompactLayers(WithinBudget(
    Cipher(a.L \o b.L, a.E \o EdgesAfter(b.E, Len(a.L)),
           IF a.c0 = <<>> THEN b.c0 ELSE IF b.c0 = <<>> THEN a.c0
           ELSE <<(a.c0[1] + b.c0[1]) % Prime>>)))

\* ct_add
Add(a, b) ==
  CompactLayers(WithinBudget(
    Cipher(a.L \o LayersAfter(b.L, Len(a.L)), a.E \o EdgesAfter(b.E, Len(a.L)),
           IF a.c0 = <<>> THEN b.c0 ELSE IF b.c0 = <<>> THEN a.c0
           ELSE <<(a.c0[1] + b.c0[1]) % Prime>>)))

Neg(ct) == Scale(ct, Prime - 1)
Sub(a, b) == Add(a, Neg(b))

\* fold_edges, compute_layer_coeffs: what each layer's edges give together.
LayerCoeffs(ct) ==
  [l \in DOMAIN ct.L |->
     SumOf([i \in DOMAIN ct.E |-> IF ct.E[i].layer = l THEN Weight(ct.E[i]) ELSE 0])]

\* emit_repack_edges: edges of one layer that give the target.  The power of g that
\* undoes the last one's is found by its exponent.
Repack(layer, target, nodes) ==
  LET rest == target - Total(Weight, Front(nodes))
      last == Last(nodes)
  IN [i \in DOMAIN nodes |->
        Edge(layer, nodes[i].idx, nodes[i].ch,
             IF i < Len(nodes) THEN nodes[i].w
             ELSE last.ch * rest * Gen((B - last.idx) % B))]

\* append_scaled_edges
ScaledEdges(E, c0, off) ==
  IF c0 % Prime = 0 THEN <<>>
  ELSE [i \in DOMAIN E |-> [E[i] EXCEPT !.layer = @ + off, !.w = (@ * c0) % Prime]]

\* Wrong on purpose: the constant of one factor does not meet the other's edges.
MulHalf(a, b, nodes) ==
  LET la == Len(a.L)
      lb == Len(b.L)
      L == a.L \o LayersAfter(b.L, la)
      pairs == [n \in 1..la * lb |-> <<(n - 1) \div lb + 1, ((n - 1) % lb) + 1>>]
      target(n) == (LayerCoeffs(a)[pairs[n][1]] * LayerCoeffs(b)[pairs[n][2]]) % Prime
      products == CompactLayers(WithinBudget(Cipher(
        L \o [n \in DOMAIN pairs |-> Prod(pairs[n][1], la + pairs[n][2])],
        FlattenSeq([n \in DOMAIN pairs |-> Repack(la + lb + n, target(n), nodes)]), <<0>>)))
  IN CompactLayers(WithinBudget(Cipher(products.L,
       products.E \o ScaledEdges(b.E, a.c0[1], la), <<(a.c0[1] * b.c0[1]) % Prime>>)))

\* ct_mul_seeded: a product layer for each layer of a and each of b, then what
\* either constant adds.  Both operands have one; both have layers.
Mul(a, b, nodes) ==
  LET la == Len(a.L)
      lb == Len(b.L)
      L == a.L \o LayersAfter(b.L, la)
      pairs == [n \in 1..la * lb |-> <<(n - 1) \div lb + 1, ((n - 1) % lb) + 1>>]
      target(n) == (LayerCoeffs(a)[pairs[n][1]] * LayerCoeffs(b)[pairs[n][2]]) % Prime
      products == CompactLayers(WithinBudget(Cipher(
        L \o [n \in DOMAIN pairs |-> Prod(pairs[n][1], la + pairs[n][2])],
        FlattenSeq([n \in DOMAIN pairs |-> Repack(la + lb + n, target(n), nodes)]), <<0>>)))
  IN CompactLayers(WithinBudget(Cipher(products.L,
       products.E \o ScaledEdges(b.E, a.c0[1], la) \o ScaledEdges(a.E, b.c0[1], 0),
       <<(a.c0[1] * b.c0[1]) % Prime>>)))

-----------------------------------------------------------------------------
(* Decryption and proofs.                                                  *)

\* layer_R_cached
LayerFactors(ct) ==
  LET r[l \in DOMAIN ct.L] == IF ct.L[l].rule = "base" THEN Factor[ct.L[l].seed]
                              ELSE (r[ct.L[l].pa] * r[ct.L[l].pb]) % Prime
  IN r

\* dec_value
Dec(ct) ==
  LET r == LayerFactors(ct)
  IN ((IF ct.c0 = <<>> THEN 0 ELSE ct.c0[1])
        + Total(LAMBDA e : (Weight(e) % Prime) * Inverse1(r[e.layer]), ct.E)) % Prime

TwoTo(n) == LET power[k \in 0..WordBits] == IF k = 0 THEN 1 ELSE 2 * power[k - 1]
            IN power[n]

\* pvac_dec_value: the low word of the plaintext.
Low(x) == x % TwoTo(WordBits)

\* range_value_cipher_ok
ValueOk(ct) == ShapeOk(ct) /\ Len(ct.L) <= MaxLayers /\ Len(ct.E) <= MaxEdges

\* make_range_proof: the ciphers it proves to be zero.  For each bit b of the value
\* a cipher of b * (b - 1), and the bits' sum less the cipher that the proof is for.
ZerosOfRange(ct, value, noise) ==
  LET bit == [i \in 1..WordBits |-> EncValue((value \div TwoTo(i - 1)) % 2, noise)]
      check(i) == Mul(bit[i], AddConst(bit[i], Prime - 1), noise.repack)
      sum[n \in 1..WordBits] ==
        IF n = 1 THEN bit[1] ELSE Add(sum[n - 1], Scale(bit[n], TwoTo(n - 1) % Prime))
  IN {check(i) : i \in 1..WordBits} \cup {Sub(sum[WordBits], ct)}
=============================================================================
