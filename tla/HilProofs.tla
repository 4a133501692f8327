----------------------------- MODULE HilProofs ------------------------------
(***************************************************************************)
(* What holds of hardware-in-the-loop sessions for any number of them, and *)
(* for any plans, policies, controllers and initial states: commands stay  *)
(* in the actuator box, evidence is of the binary that ran, and a report   *)
(* that passed is faithful to the run.                                     *)
(***************************************************************************)
EXTENDS HilMirror, FiniteSetTheorems, WellFoundedInduction, SequenceTheorems, TLAPS

(***************************************************************************)
(* Arithmetic with NaN, and the clamp.                                     *)
(***************************************************************************)

\* Sums and products are numbers, if of NaN.
LEMMA NumbersClosed ==
  ASSUME NEW a, NEW b
  PROVE  Plus(a, b) \in Numbers /\ Times(a, b) \in Numbers
BY NumbersAssumption DEF Plus, Times, Rounded, Numbers, Finite

\* A clipped number is a number, between bounds that are in order.
LEMMA ClipBounds ==
  ASSUME NEW v \in Numbers, NEW lo \in Numbers, NEW hi \in Numbers
  PROVE  /\ Clip(v, lo, hi) \in Numbers
         /\ lo # NaN /\ hi # NaN /\ lo <= hi /\ Clip(v, lo, hi) # NaN
            => lo <= Clip(v, lo, hi) /\ Clip(v, lo, hi) <= hi
BY NumbersAssumption DEF Clip, Less, Numbers, Finite

(***************************************************************************)
(* Induction, on sets instead of predicates, which the provers can use.    *)
(***************************************************************************)

\* A set of numbers that is not empty has a least one.
LEMMA Least ==
  ASSUME NEW T \in SUBSET Nat, T # {}
  PROVE  \E n \in T : \A m \in T : n <= m
<1>1. PICK R : IsWellFoundedOn(R, Nat) /\ \A x, y \in Nat : x < y => <<x, y>> \in R
  <2>1. \A x, y \in Nat : x < y => <<x, y>> \in OpToRel(<, Nat)
    BY DEF OpToRel
  <2> QED BY <2>1, NatLessThanWellFounded, Zenon
<1>2. IsWellFoundedOn(R, Nat)
  BY <1>1
<1>3. \E x \in T : \A y \in T : ~ (<<y, x>> \in R)
  BY <1>2, WFMin
<1>4. PICK n \in T : \A y \in T : ~ (<<y, n>> \in R)
  BY <1>3
<1>5. \A m \in T : ~ (m < n)
  BY <1>1, <1>4
<1> QED BY <1>5

\* What holds of 0 and of the next number after each holds up to n.
LEMMA UpTo ==
  ASSUME NEW n \in Nat, NEW T, 0 \in T, \A k \in 0 .. (n - 1) : k \in T => k + 1 \in T
  PROVE  \A k \in 0 .. n : k \in T
<1> DEFINE Out == {k \in 0 .. n : k \notin T}
<1>1. SUFFICES ASSUME Out # {} PROVE FALSE
  OBVIOUS
<1>2. PICK k \in Out : \A m \in Out : k <= m
  <2>1. Out \in SUBSET Nat
    OBVIOUS
  <2> HIDE DEF Out
  <2> QED BY <2>1, <1>1, Least
<1>3. k - 1 \in 0 .. (n - 1) /\ k - 1 \notin Out
  BY <1>2
<1> QED BY <1>2, <1>3

\* Values computed one from the other.
Steps(f, base, next, n) ==
  f = [k \in 0..n |-> IF k = 0 THEN base ELSE next[<<f[k - 1], k>>]]

LEMMA StepsExist ==
  ASSUME NEW n \in Nat, NEW V, NEW base \in V, NEW next \in [V \X (1..n) -> V]
  PROVE  \E f \in [0..n -> V] : Steps(f, base, next, n)
<1> DEFINE T == {m \in 0..n : \E f \in [0..m -> V] : Steps(f, base, next, m)}
<1>1. 0 \in T
  <2> DEFINE f == [k \in 0..0 |-> base]
  <2>1. f \in [0..0 -> V] /\ Steps(f, base, next, 0)
    BY DEF Steps
  <2> QED BY <2>1
<1>2. ASSUME NEW m \in 0 .. (n - 1), m \in T PROVE m + 1 \in T
  <2>1. PICK f \in [0..m -> V] : Steps(f, base, next, m)
    BY <1>2
  <2>2. m + 1 \in 1..n /\ f[m] \in V
    BY <2>1
  <2>3. next[<<f[m], m + 1>>] \in V
    BY <2>2
  <2> DEFINE g == [k \in 0..(m + 1) |-> IF k <= m THEN f[k] ELSE next[<<f[m], m + 1>>]]
  <2>4. g \in [0..(m + 1) -> V]
    BY <2>1, <2>3
  <2>5. \A k \in 0..(m + 1) : g[k] = IF k = 0 THEN base ELSE next[<<g[k - 1], k>>]
    <3> TAKE k \in 0..(m + 1)
    <3>1. CASE k <= m
      <4>1. g[k] = f[k] /\ (k # 0 => g[k - 1] = f[k - 1])
        BY <3>1
      <4>2. f[k] = IF k = 0 THEN base ELSE next[<<f[k - 1], k>>]
        BY <2>1, <3>1 DEF Steps
      <4> HIDE DEF g
      <4> QED BY <4>1, <4>2
    <3>2. CASE k = m + 1
      <4>1. g[k] = next[<<f[m], m + 1>>] /\ g[m] = f[m] /\ k - 1 = m /\ k # 0
        BY <3>2
      <4> HIDE DEF g
      <4> QED BY <4>1, <3>2
    <3> QED BY <3>1, <3>2
  <2>6. g = [k \in 0..(m + 1) |-> g[k]]
    OBVIOUS
  <2> HIDE DEF g
  <2>7. Steps(g, base, next, m + 1)
    BY <2>5, <2>6 DEF Steps
  <2> QED BY <2>2, <2>4, <2>7
<1> HIDE DEF T
<1>3. \A m \in 0 .. (n - 1) : m \in T => m + 1 \in T
  BY <1>2
<1>4. \A m \in 0 .. n : m \in T
  BY <1>1, <1>3, UpTo
<1> QED BY <1>4 DEF T

(***************************************************************************)
(* Policies. Two layers that follow each other fit, and each has an        *)
(* output, so that the emitted C and forward agree on all that counts: the *)
(* C keeps, behind a layer's outputs, entries that no layer reads.         *)
(***************************************************************************)
Layered(layers) ==
  /\ Len(layers) \in Nat
  /\ \A k \in 1 .. Len(layers) :
       /\ Outputs(layers[k].dense) \in Nat /\ Outputs(layers[k].dense) >= 1
       /\ k + 1 <= Len(layers) => Inputs(layers[k + 1].dense) = Outputs(layers[k].dense)

\* The layers' outputs on the host, and what is in the buffer of the C after each.
IsForward(h, layers, x, n) ==
  h = [k \in 0 .. n |-> IF k = 0 THEN x ELSE LayerOut(layers[k], h[k - 1])]

IsBuffer(c, layers, x, n) ==
  c = [k \in 0 .. n |-> IF k = 0 THEN x ELSE Overwrite(c[k - 1], LayerOut(layers[k], c[k - 1]))]

LEMMA ForwardIs ==
  ASSUME NEW layers, NEW x, Len(layers) \in Nat
  PROVE  \E h : IsForward(h, layers, x, Len(layers)) /\ forward(layers, x) = h[Len(layers)]
<1> DEFINE n == Len(layers)
           T == {m \in 0 .. n : \E h : IsForward(h, layers, x, m)}
<1>1. 0 \in T
  <2> DEFINE h == [k \in 0 .. 0 |-> x]
  <2>1. IsForward(h, layers, x, 0)
    BY DEF IsForward
  <2> QED BY <2>1
<1>2. ASSUME NEW m \in 0 .. (n - 1), m \in T PROVE m + 1 \in T
  <2>1. PICK h : IsForward(h, layers, x, m)
    BY <1>2
  <2> DEFINE g == [k \in 0 .. (m + 1) |-> IF k <= m THEN h[k] ELSE LayerOut(layers[m + 1], h[m])]
  <2>2. \A k \in 0 .. (m + 1) : g[k] = IF k = 0 THEN x ELSE LayerOut(layers[k], g[k - 1])
    <3> TAKE k \in 0 .. (m + 1)
    <3>1. CASE k <= m
      <4>1. g[k] = h[k] /\ (k # 0 => g[k - 1] = h[k - 1])
        BY <3>1
      <4>2. h[k] = IF k = 0 THEN x ELSE LayerOut(layers[k], h[k - 1])
        BY <2>1, <3>1 DEF IsForward
      <4> HIDE DEF g
      <4> QED BY <4>1, <4>2
    <3>2. CASE k = m + 1
      <4>1. g[k] = LayerOut(layers[m + 1], h[m]) /\ g[m] = h[m] /\ k - 1 = m /\ k # 0
        BY <3>2
      <4> HIDE DEF g
      <4> QED BY <4>1, <3>2
    <3> QED BY <3>1, <3>2
  <2>3. g = [k \in 0 .. (m + 1) |-> g[k]]
    OBVIOUS
  <2> HIDE DEF g
  <2>4. IsForward(g, layers, x, m + 1)
    BY <2>2, <2>3 DEF IsForward
  <2> QED BY <2>4
<1> HIDE DEF T
<1>3. \A k \in 0 .. (n - 1) : k \in T => k + 1 \in T
  BY <1>2
<1>4. n \in T
  <2>1. n \in Nat /\ n \in 0 .. n
    OBVIOUS
  <2> HIDE DEF n
  <2> QED BY <1>1, <1>3, <2>1, UpTo
<1>5. \E h : IsForward(h, layers, x, n)
  BY <1>4 DEF T
<1>6. forward(layers, x) = (CHOOSE h : IsForward(h, layers, x, n))[n]
  BY DEF forward, IsForward
<1> QED BY <1>5, <1>6

LEMMA BufferIs ==
  ASSUME NEW layers, NEW x, Len(layers) \in Nat
  PROVE  \E c : /\ IsBuffer(c, layers, x, Len(layers))
               /\ \A nu : jx_policy(layers, x, nu) = SubSeq(c[Len(layers)], 1, nu)
<1> DEFINE n == Len(layers)
           T == {m \in 0 .. n : \E c : IsBuffer(c, layers, x, m)}
<1>1. 0 \in T
  <2> DEFINE c == [k \in 0 .. 0 |-> x]
  <2>1. IsBuffer(c, layers, x, 0)
    BY DEF IsBuffer
  <2> QED BY <2>1
<1>2. ASSUME NEW m \in 0 .. (n - 1), m \in T PROVE m + 1 \in T
  <2>1. PICK c : IsBuffer(c, layers, x, m)
    BY <1>2
  <2> DEFINE Over(v, k) == Overwrite(v, LayerOut(layers[k], v))
             g == [k \in 0 .. (m + 1) |-> IF k <= m THEN c[k] ELSE Over(c[m], m + 1)]
  <2>2. \A k \in 0 .. (m + 1) : g[k] = IF k = 0 THEN x ELSE Over(g[k - 1], k)
    <3> TAKE k \in 0 .. (m + 1)
    <3>1. CASE k <= m
      <4>1. g[k] = c[k] /\ (k # 0 => g[k - 1] = c[k - 1])
        BY <3>1
      <4>2. c[k] = IF k = 0 THEN x ELSE Over(c[k - 1], k)
        BY <2>1, <3>1 DEF IsBuffer
      <4> HIDE DEF g, Over
      <4> QED BY <4>1, <4>2
    <3>2. CASE k = m + 1
      <4>1. g[k] = Over(c[m], m + 1) /\ g[m] = c[m] /\ k - 1 = m /\ k # 0
        BY <3>2
      <4> HIDE DEF g, Over
      <4> QED BY <4>1, <3>2
    <3> QED BY <3>1, <3>2
  <2>3. g = [k \in 0 .. (m + 1) |-> g[k]]
    OBVIOUS
  <2> HIDE DEF g
  <2>4. IsBuffer(g, layers, x, m + 1)
    BY <2>2, <2>3 DEF IsBuffer
  <2> QED BY <2>4
<1> HIDE DEF T
<1>3. \A k \in 0 .. (n - 1) : k \in T => k + 1 \in T
  BY <1>2
<1>4. n \in T
  <2>1. n \in Nat /\ n \in 0 .. n
    OBVIOUS
  <2> HIDE DEF n
  <2> QED BY <1>1, <1>3, <2>1, UpTo
<1>5. \E c : IsBuffer(c, layers, x, n)
  BY <1>4 DEF T
<1>6. ASSUME NEW nu
      PROVE  jx_policy(layers, x, nu) = SubSeq((CHOOSE c : IsBuffer(c, layers, x, n))[n], 1, nu)
  BY DEF jx_policy, IsBuffer
<1> QED BY <1>5, <1>6

\* A layer reads of its input as many entries as it has inputs.
LEMMA LayerReads ==
  ASSUME NEW layer, NEW a, NEW b, \A k \in 1 .. Inputs(layer.dense) : a[k] = b[k]
  PROVE  LayerOut(layer, a) = LayerOut(layer, b)
<1> DEFINE d == layer.dense
           Terms(v, j) == [k \in 1 .. Inputs(d) |-> Times(v[k], d.kernel[k][j])]
<1>1. ASSUME NEW j PROVE Terms(a, j) = Terms(b, j)
  OBVIOUS
<1>2. ASSUME NEW v, NEW j PROVE Affine(d, v, j) = Accumulated(d.bias[j], Terms(v, j))
  BY DEF Affine
<1> HIDE DEF Terms
<1>3. ASSUME NEW j PROVE Affine(d, a, j) = Affine(d, b, j)
  <2>1. Affine(d, a, j) = Accumulated(d.bias[j], Terms(a, j))
    BY <1>2
  <2>2. Affine(d, b, j) = Accumulated(d.bias[j], Terms(b, j))
    BY <1>2
  <2> QED BY <1>1, <2>1, <2>2
<1> QED BY <1>3 DEF LayerOut

\* What is written over the front of the buffer is there, and the buffer keeps a length.
LEMMA OverwriteIs ==
  ASSUME NEW cur, Len(cur) \in Nat, NEW n \in Nat, NEW front, front = [j \in 1 .. n |-> front[j]]
  PROVE  /\ \E m \in Nat : DOMAIN Overwrite(cur, front) = 1 .. m /\ m >= n
         /\ \A j \in 1 .. n : Overwrite(cur, front)[j] = front[j]
         /\ Len(Overwrite(cur, front)) \in Nat
<1>1. Len(front) = n
  <2> DEFINE S == {front[j] : j \in 1 .. n}
  <2>1. front \in [1 .. n -> S]
    OBVIOUS
  <2>2. front \in Seq(S)
    BY <2>1, IsASeq
  <2> HIDE DEF S
  <2> QED BY <2>1, <2>2, LenProperties
<1> DEFINE m == IF Len(cur) > n THEN Len(cur) ELSE n
           w == Overwrite(cur, front)
<1>2. m \in Nat /\ m >= n
  OBVIOUS
<1>3. w = [k \in 1 .. m |-> IF k <= n THEN front[k] ELSE cur[k]]
  BY <1>1 DEF Overwrite
<1> HIDE DEF m, w
<1>4. DOMAIN w = 1 .. m /\ \A j \in 1 .. n : w[j] = front[j]
  BY <1>2, <1>3
<1>5. Len(w) \in Nat
  <2> DEFINE S == {w[j] : j \in 1 .. m}
  <2>1. w \in [1 .. m -> S]
    BY <1>3, <1>4
  <2> HIDE DEF S
  <2>2. w \in Seq(S)
    BY ONLY <1>2, <2>1, IsASeq
  <2> QED BY <2>2, IsASeq, LenProperties
<1> QED BY <1>2, <1>4, <1>5 DEF w

\* The first entry that jx_policy answers is the first that forward computes.
LEMMA PolicyAgrees ==
  ASSUME NEW layers, Layered(layers), Len(layers) # 0, NEW x, Len(x) \in Nat
  PROVE  jx_policy(layers, x, 1)[1] = forward(layers, x)[1]
<1> DEFINE n == Len(layers)
<1>0. n \in Nat /\ n # 0
  BY DEF Layered
<1>1. PICK h : IsForward(h, layers, x, n) /\ forward(layers, x) = h[n]
  BY <1>0, ForwardIs
<1>2. PICK c : IsBuffer(c, layers, x, n) /\ \A nu : jx_policy(layers, x, nu) = SubSeq(c[n], 1, nu)
  BY <1>0, BufferIs
<1> DEFINE Out(k) == Outputs(layers[k].dense)
           Agrees(k) == /\ Len(c[k]) \in Nat
                        /\ k = 0 => c[k] = h[k]
                        /\ k # 0 => /\ \A j \in 1 .. Out(k) : c[k][j] = h[k][j]
                                    /\ \E m \in Nat : DOMAIN c[k] = 1 .. m /\ m >= Out(k)
           T == {k \in 0 .. n : Agrees(k)}
<1>3. 0 \in T
  BY <1>0, <1>1, <1>2 DEF IsForward, IsBuffer
<1>4. ASSUME NEW k \in 0 .. (n - 1), k \in T PROVE k + 1 \in T
  <2> DEFINE layer == layers[k + 1]
             L == LayerOut(layer, c[k])
  <2>1. k + 1 \in 1 .. n /\ k + 1 # 0 /\ k + 1 \in 0 .. n /\ Out(k + 1) \in Nat /\ k + 1 - 1 = k
    BY <1>0 DEF Layered
  <2>2. h[k + 1] = LayerOut(layer, h[k])
    BY <1>1, <2>1 DEF IsForward
  <2>3. c[k + 1] = Overwrite(c[k], L)
    BY <1>2, <2>1 DEF IsBuffer
  <2>4. L = LayerOut(layer, h[k])
    <3>1. CASE k = 0
      BY <1>4, <3>1
    <3>2. CASE k # 0
      <4>1. k \in 1 .. n /\ k + 1 <= n
        BY <1>0, <3>2
      <4>2. Inputs(layer.dense) = Out(k)
        BY <4>1 DEF Layered
      <4>3. \A j \in 1 .. Inputs(layer.dense) : c[k][j] = h[k][j]
        BY <1>4, <3>2, <4>2
      <4> HIDE DEF layer
      <4> QED BY <4>3, LayerReads
    <3> QED BY <3>1, <3>2
  <2>5. L = [j \in 1 .. Out(k + 1) |-> L[j]]
    BY DEF LayerOut
  <2>6. Len(c[k]) \in Nat
    BY <1>4
  <2> DEFINE w == Out(k + 1)
  <2>7. w \in Nat /\ L = [j \in 1 .. w |-> L[j]]
    BY <2>1, <2>5
  <2>8. c[k + 1] = Overwrite(c[k], L) /\ h[k + 1] = L
    BY <2>2, <2>3, <2>4
  <2> HIDE DEF L, layer
  <2>9. /\ \E m \in Nat : DOMAIN c[k + 1] = 1 .. m /\ m >= w
        /\ \A j \in 1 .. w : c[k + 1][j] = h[k + 1][j]
        /\ Len(c[k + 1]) \in Nat
    <3> DEFINE v == c[k]
               after == Overwrite(v, L)
    <3>1. after = c[k + 1]
      BY <2>8
    <3>2. Len(v) \in Nat
      BY <2>6
    <3> HIDE DEF w, v
    <3>3. /\ \E m \in Nat : DOMAIN after = 1 .. m /\ m >= w
          /\ \A j \in 1 .. w : after[j] = L[j]
          /\ Len(after) \in Nat
      BY ONLY <2>7, <3>2, OverwriteIs
    <3> HIDE DEF after
    <3> QED BY ONLY <2>8, <3>1, <3>3
  <2> QED BY <2>1, <2>9
<1> HIDE DEF T
<1>5. \A k \in 0 .. (n - 1) : k \in T => k + 1 \in T
  BY <1>4
<1>6. n \in T
  <2>1. n \in Nat /\ n \in 0 .. n
    BY <1>0
  <2> HIDE DEF n
  <2> QED BY <1>3, <1>5, <2>1, UpTo
<1>7. Agrees(n)
  BY <1>6 DEF T
<1>8. Out(n) \in Nat /\ Out(n) >= 1
  BY <1>0 DEF Layered
<1> DEFINE y == c[n]
<1>9. PICK m \in Nat : DOMAIN y = 1 .. m /\ m >= Out(n)
  BY <1>0, <1>7
<1>10. y[1] = h[n][1]
  BY <1>0, <1>7, <1>8
<1>11. jx_policy(layers, x, 1) = SubSeq(y, 1, 1)
  BY <1>2
<1> HIDE DEF y
<1>12. SubSeq(y, 1, 1)[1] = y[1]
  BY SMT
<1> QED BY <1>1, <1>10, <1>11, <1>12

\* Sequences of layers in which each fits the one before.
Fitting(params) ==
  {g \in Seq(params) :
     \A i \in 1 .. Len(g) : i + 1 <= Len(g) => Inputs(g[i + 1]) = Outputs(g[i])}

\* from_flax chains the layers by their shapes, and misses none.
LEMMA FlaxLayered ==
  ASSUME NEW params, IsFiniteSet(params), params # {}, NEW dim, Chained(params, dim),
         \A d \in params : Outputs(d) \in Nat /\ Outputs(d) >= 1
  PROVE  Layered(from_flax(params, dim)) /\ Len(from_flax(params, dim)) # 0
<1> DEFINE n == Cardinality(params)
           V == Fitting(params)
           Follows(g) == {d \in params \ ToSet(g) : Inputs(d) = IF g = <<>> THEN dim ELSE Outputs(Last(g))}
           Next1(g) == IF Follows(g) = {} THEN g ELSE Append(g, CHOOSE d \in Follows(g) : TRUE)
           IsGrown(f) == f = [k \in 0 .. n |-> IF k = 0 THEN <<>> ELSE Next1(f[k - 1])]
           grown == CHOOSE f : IsGrown(f)
<1>1. n \in Nat
  BY FS_CardinalityType
<1>2. << >> \in V
  BY EmptySeq DEF Fitting
<1>3. ASSUME NEW g \in V PROVE Next1(g) \in V
  <2>1. CASE Follows(g) = {}
    BY <2>1
  <2>2. CASE Follows(g) # {}
    <3> DEFINE d == CHOOSE d \in Follows(g) : TRUE
    <3>1. d \in Follows(g)
      BY <2>2
    <3>2. d \in params /\ (g # <<>> => Inputs(d) = Outputs(Last(g)))
      BY <3>1
    <3>3. Next1(g) = Append(g, d)
      BY <2>2
    <3> HIDE DEF d, Next1
    <3>4. g \in Seq(params) /\ Len(g) \in Nat
      BY <1>3, LenProperties DEF Fitting
    <3>5. /\ Append(g, d) \in Seq(params) /\ Len(Append(g, d)) = Len(g) + 1
          /\ \A i \in 1 .. Len(g) : Append(g, d)[i] = g[i]
          /\ Append(g, d)[Len(g) + 1] = d
      BY <3>2, <3>4, AppendProperties
    <3>6. ASSUME NEW i \in 1 .. Len(g) + 1, i + 1 <= Len(g) + 1
          PROVE  Inputs(Append(g, d)[i + 1]) = Outputs(Append(g, d)[i])
      <4>1. CASE i + 1 <= Len(g)
        <5>1. i \in 1 .. Len(g) /\ i + 1 \in 1 .. Len(g)
          BY <3>4, <4>1
        <5>2. Append(g, d)[i] = g[i] /\ Append(g, d)[i + 1] = g[i + 1]
          BY <3>5, <5>1
        <5>3. Inputs(g[i + 1]) = Outputs(g[i])
          BY <1>3, <4>1, <5>1 DEF Fitting
        <5> QED BY <5>2, <5>3
      <4>2. CASE i = Len(g)
        <5>1. g # <<>> /\ i \in 1 .. Len(g)
          BY <3>4, <3>6, <4>2
        <5>2. Last(g) = g[i]
          BY <4>2 DEF Last
        <5>3. Append(g, d)[i] = g[i] /\ Append(g, d)[i + 1] = d
          BY <3>5, <4>2, <5>1
        <5> QED BY <3>2, <5>1, <5>2, <5>3
      <4> QED BY <3>4, <3>6, <4>1, <4>2
    <3> QED BY <3>3, <3>5, <3>6 DEF Fitting
  <2> QED BY <2>1, <2>2
<1>4. Chain(params, dim) = grown[n]
  BY DEF Chain
<1> HIDE DEF V, Next1
<1>5. \E f : IsGrown(f)
  <2> DEFINE next == [e \in V \X (1 .. n) |-> Next1(e[1])]
  <2>1. next \in [V \X (1 .. n) -> V]
    BY <1>3
  <2>2. \A v \in V, k \in 1 .. n : next[<<v, k>>] = Next1(v)
    OBVIOUS
  <2> HIDE DEF next
  <2>3. PICK f \in [0 .. n -> V] : Steps(f, <<>>, next, n)
    BY <1>1, <1>2, <2>1, StepsExist
  <2>4. \A k \in 0 .. n : f[k] = IF k = 0 THEN <<>> ELSE Next1(f[k - 1])
    <3> TAKE k \in 0 .. n
    <3>1. CASE k = 0
      BY <2>3, <3>1 DEF Steps
    <3>2. CASE k # 0
      <4>1. k \in 1 .. n /\ k - 1 \in 0 .. n /\ f[k - 1] \in V
        BY <1>1, <2>3, <3>2
      <4>2. f[k] = next[<<f[k - 1], k>>]
        BY <2>3, <3>2 DEF Steps
      <4> QED BY <2>2, <3>2, <4>1, <4>2
    <3> QED BY <3>1, <3>2
  <2> HIDE DEF n
  <2>5. IsGrown(f)
    BY <2>3, <2>4
  <2> QED BY <2>5
<1>6. IsGrown(grown)
  BY <1>5
<1> HIDE DEF grown, n
<1>7. grown[n] \in V
  <2> DEFINE T == {k \in 0 .. n : grown[k] \in V}
  <2>1. 0 \in T
    BY <1>1, <1>2, <1>6
  <2>2. ASSUME NEW k \in 0 .. (n - 1), k \in T PROVE k + 1 \in T
    <3>1. k + 1 \in 0 .. n /\ k + 1 # 0 /\ k + 1 - 1 = k
      BY <1>1
    <3> DEFINE j == k + 1
    <3>3. \A i \in 0 .. n : grown[i] = IF i = 0 THEN <<>> ELSE Next1(grown[i - 1])
      BY <1>6, Zenon
    <3>4. j \in 0 .. n /\ j # 0 /\ j - 1 = k
      BY <3>1
    <3> HIDE DEF j
    <3>2. grown[j] = Next1(grown[k])
      BY <3>3, <3>4
    <3> USE DEF j
    <3> QED BY <1>3, <2>2, <3>1, <3>2
  <2> HIDE DEF T
  <2>3. \A k \in 0 .. (n - 1) : k \in T => k + 1 \in T
    BY <2>2
  <2>4. n \in 0 .. n
    BY <1>1
  <2>5. n \in T
    BY <1>1, <2>1, <2>3, <2>4, UpTo
  <2> QED BY <2>5 DEF T
<1> DEFINE chain == Chain(params, dim)
           layers == from_flax(params, dim)
<1>8. /\ chain \in Seq(params) /\ Len(chain) \in Nat
      /\ \A i \in 1 .. Len(chain) : i + 1 <= Len(chain) => Inputs(chain[i + 1]) = Outputs(chain[i])
  BY <1>4, <1>7, LenProperties DEF V, Fitting
<1>9. ToSet(chain) = params
  BY DEF Chained
<1> HIDE DEF chain
<1>10. Len(chain) # 0
  BY <1>8, <1>9 DEF ToSet
<1> DEFINE Act(i) == IF i = Len(chain) THEN "identity" ELSE "tanh"
<1>11. layers = [i \in 1 .. Len(chain) |-> [dense |-> chain[i], activation |-> Act(i)]]
  BY <1>8 DEF from_flax, chain
<1> HIDE DEF layers, Act
<1>12. Len(layers) = Len(chain)
  <2> DEFINE S == {layers[i] : i \in 1 .. Len(chain)}
  <2>1. layers \in [1 .. Len(chain) -> S]
    BY <1>11
  <2> HIDE DEF S
  <2>2. layers \in Seq(S)
    BY ONLY <1>8, <2>1, IsASeq
  <2> QED BY <1>8, <2>1, <2>2, LenProperties
<1>13. \A i \in 1 .. Len(chain) : layers[i].dense = chain[i]
  BY <1>11
<1>14. \A i \in 1 .. Len(chain) : Outputs(chain[i]) \in Nat /\ Outputs(chain[i]) >= 1
  BY <1>8, ElementOfSeq
<1>15. Layered(layers)
  BY <1>8, <1>12, <1>13, <1>14 DEF Layered
<1> QED BY <1>10, <1>12, <1>15 DEF layers

(***************************************************************************)
(* What is known of programs, binaries and processes.                      *)
(***************************************************************************)
Ordered(env) ==
  /\ Len(env.input_lower) = Len(env.input_upper)
  /\ \A j \in 1 .. Len(env.input_lower) :
       /\ env.input_lower[j] # NaN /\ env.input_upper[j] # NaN
       /\ env.input_lower[j] <= env.input_upper[j]

EnvelopeOK(env) ==
  /\ env.input_lower \in Seq(Numbers) /\ env.input_upper \in Seq(Numbers)
  /\ env.state_lower \in Seq(Numbers) /\ env.state_upper \in Seq(Numbers)

StateBounded(env) == NaN \notin ToSet(env.state_lower) \union ToSet(env.state_upper)

\* What every design prints, if it prints a trace, and how every plan combines.
TracesKnown ==
  \A o \in Orders, s \in Sessions : o[s].design.trace \subseteq CARTPOLE_LQR_TRACE

ResidualPlans ==
  \A o \in Orders, s \in Sessions : o[s].design.plan.mode = "residual"

ProgramOK(m) ==
  /\ m.x0 \in Seq(Numbers) /\ m.nx \in Nat /\ m.nx >= 2
  /\ TracesKnown => m.trace \subseteq CARTPOLE_LQR_TRACE
  /\ ResidualPlans => m.plan.mode = "residual"
  /\ EnvelopeOK(m.plan.safety_envelope)
  /\ Composed(m) => PlanValid(m.plan) /\ m.trace = CARTPOLE_LQR_TRACE /\ Layered(m.layers)
  /\ ~ Composed(m) => m.layers = <<>>

ExeOK(exe) ==
  /\ ProgramOK(exe.main)
  /\ Composed(exe.main) => /\ Ordered(exe.main.plan.safety_envelope)
                           /\ StateBounded(exe.main.plan.safety_envelope)

CmdOK(exe, cmd) ==
  /\ cmd \in Seq(Numbers) /\ Len(cmd) = 1
  /\ Composed(exe.main) => InBox(exe.main.plan.safety_envelope, cmd)

Rows(exe) ==
  {r \in [x : Seq(Numbers), cmd : Seq(Numbers)] : Len(r.x) >= 2 /\ CmdOK(exe, r.cmd)}

ProcessFields == {"at", "exe", "argv", "rc", "i", "x", "mpc", "cmd", "ran"}

ProcessOK(p) ==
  /\ p = [f \in ProcessFields |-> p[f]]
  /\ ExeOK(p.exe)
  /\ p.x \in Seq(Numbers) /\ Len(p.x) = p.exe.main.nx
  /\ p.at = "combine" => p.mpc \in Seq(Numbers) /\ Len(p.mpc) = 1
  /\ p.at = "emit" => CmdOK(p.exe, p.cmd)
  /\ p.ran \in Seq(Rows(p.exe))

\* What is in order is a process.
LEMMA ProcessRuns ==
  ASSUME NEW p, ProcessOK(p)
  PROVE  p # NoProcess
<1>1. p = [f \in ProcessFields |-> p[f]]
  BY DEF ProcessOK
<1>2. "exe" \in DOMAIN p
  BY <1>1 DEF ProcessFields
<1>3. "exe" \notin DOMAIN NoProcess
  BY DEF NoProcess
<1> QED BY <1>2, <1>3

\* A program that compiles has its bounds in order.
LEMMA CompiledOK ==
  ASSUME NEW m, NEW g, ProgramOK(m), Compiles(m)
  PROVE  ExeOK([main |-> m, gen |-> g])
<1>1. SUFFICES ASSUME Composed(m) PROVE Ordered(m.plan.safety_envelope)
  BY DEF ExeOK, Compiles, StateBounded
<1> DEFINE env == m.plan.safety_envelope
<1>2. /\ env.input_lower \in Seq(Numbers) /\ env.input_upper \in Seq(Numbers)
      /\ Paired(env.input_lower, env.input_upper)
  BY <1>1 DEF ProgramOK, EnvelopeOK, PlanValid, EnvelopeValid
<1>3. NaN \notin ToSet(env.input_lower) /\ NaN \notin ToSet(env.input_upper)
  BY <1>1 DEF Compiles
<1>4. ASSUME NEW j \in 1 .. Len(env.input_lower)
      PROVE  /\ env.input_lower[j] # NaN /\ env.input_upper[j] # NaN
             /\ env.input_lower[j] <= env.input_upper[j]
  <2>1. j \in DOMAIN env.input_lower /\ j \in DOMAIN env.input_upper
    BY <1>2, <1>4 DEF Paired
  <2>2. env.input_lower[j] # NaN /\ env.input_upper[j] # NaN
    BY <1>3, <2>1 DEF ToSet
  <2>3. env.input_lower[j] \in Numbers /\ env.input_upper[j] \in Numbers
    BY <1>2, <2>1, ElementOfSeq
  <2>4. ~ Less(env.input_upper[j], env.input_lower[j])
    BY <1>2, <2>1 DEF Paired
  <2> HIDE DEF env
  <2> QED BY <2>2, <2>3, <2>4, NumbersAssumption DEF Less, Numbers, Finite
<1> QED BY <1>2, <1>4 DEF Ordered, Paired

\* An entry of an array of C that is initialised with numbers is a number.
LEMMA EntryOK ==
  ASSUME NEW initialisers \in Seq(Numbers), NEW k
  PROVE  Entry(initialisers, k) \in Numbers
<1>1. DOMAIN initialisers = 1 .. Len(initialisers)
  BY LenProperties
<1>2. CASE k \in DOMAIN initialisers
  BY <1>1, <1>2, ElementOfSeq DEF Entry
<1>3. CASE k \notin DOMAIN initialisers
  BY <1>3, NumbersAssumption DEF Entry, Numbers, Finite
<1> QED BY <1>2, <1>3

\* The control law of a binary with a policy stays in its box, whatever the policy says.
LEMMA LawInBox ==
  ASSUME NEW p, ExeOK(p.exe), Composed(p.exe.main), p.mpc \in Seq(Numbers), Len(p.mpc) = 1, NEW pol
  PROVE  CmdOK(p.exe, Law(p, pol))
<1> DEFINE env == p.exe.main.plan.safety_envelope
<1>2. CASE Composed(p.exe.main)
  <2> DEFINE u == IF FallsBack(p) THEN p.mpc ELSE Residual(p, pol)
  <2>1. u \in Seq(Numbers) /\ Len(u) = 1
    <3>1. Residual(p, pol) \in Seq(Numbers) /\ Len(Residual(p, pol)) = 1
      <4>1. Residual(p, pol) = [j \in 1 .. Len(p.mpc) |-> Plus(p.mpc[j], pol[j])]
        BY DEF Residual
      <4>2. \A j \in 1 .. Len(p.mpc) : Plus(p.mpc[j], pol[j]) \in Numbers
        BY NumbersClosed
      <4> QED BY <4>1, <4>2, LenProperties, IsASeq
    <3> QED BY <3>1
  <2>2. Law(p, pol) = Clamped(env, u)
    BY DEF Law
  <2> HIDE DEF u
  <2>3. 0 \in Numbers /\ 0 # NaN
    BY NumbersAssumption DEF Numbers, Finite
  <2>4. env.input_lower \in Seq(Numbers) /\ env.input_upper \in Seq(Numbers) /\ Ordered(env)
    BY <1>2 DEF ExeOK, ProgramOK, EnvelopeOK
  <2> HIDE DEF env
  <2>5. \A j \in DOMAIN u : /\ u[j] \in Numbers
                           /\ Entry(env.input_lower, j) \in Numbers
                           /\ Entry(env.input_upper, j) \in Numbers
    <3> SUFFICES ASSUME NEW j \in DOMAIN u
                 PROVE  /\ u[j] \in Numbers
                        /\ Entry(env.input_lower, j) \in Numbers
                        /\ Entry(env.input_upper, j) \in Numbers
      OBVIOUS
    <3>1. DOMAIN u = 1 .. 1
      BY <2>1, LenProperties
    <3>2. u[j] \in Numbers
      BY <2>1, <3>1
    <3>3. Entry(env.input_lower, j) \in Numbers
      BY <2>4, EntryOK
    <3>4. Entry(env.input_upper, j) \in Numbers
      BY <2>4, EntryOK
    <3> QED BY <3>2, <3>3, <3>4
  <2>6. /\ Clamped(env, u) \in Seq(Numbers) /\ Len(Clamped(env, u)) = 1
        /\ DOMAIN Clamped(env, u) = DOMAIN u
    <3>1. \A j \in 1 .. Len(u) :
            Clip(u[j], Entry(env.input_lower, j), Entry(env.input_upper, j)) \in Numbers
      BY <2>1, <2>5, ClipBounds
    <3> QED BY <2>1, <3>1, LenProperties, IsASeq DEF Clamped
  <2>7. InBox(env, Clamped(env, u))
    <3> SUFFICES ASSUME NEW j \in DOMAIN u, j \in DOMAIN env.input_lower,
                        Clamped(env, u)[j] # NaN
                 PROVE  /\ env.input_lower[j] <= Clamped(env, u)[j]
                        /\ Clamped(env, u)[j] <= env.input_upper[j]
      BY <2>6 DEF InBox
    <3>1. j \in DOMAIN env.input_upper /\ j \in 1 .. Len(env.input_lower)
      BY <2>4 DEF Ordered
    <3>2. Clamped(env, u)[j] = Clip(u[j], env.input_lower[j], env.input_upper[j])
      BY <3>1 DEF Clamped, Entry
    <3>3. /\ env.input_lower[j] # NaN /\ env.input_upper[j] # NaN
          /\ env.input_lower[j] <= env.input_upper[j]
      BY <2>4, <3>1 DEF Ordered
    <3>4. u[j] \in Numbers /\ env.input_lower[j] \in Numbers /\ env.input_upper[j] \in Numbers
      BY <2>4, <2>5, <3>1, ElementOfSeq
    <3> QED BY <3>2, <3>3, <3>4, ClipBounds
  <2> QED BY <2>2, <2>6, <2>7 DEF CmdOK, env
<1> QED BY <1>2

\* So does whatever a binary commands.
LEMMA CommandsOK ==
  ASSUME NEW p, ExeOK(p.exe), p.mpc \in Seq(Numbers), Len(p.mpc) = 1, NEW u \in Commands(p)
  PROVE  CmdOK(p.exe, u)
<1>1. CASE ~ Composed(p.exe.main)
  BY <1>1 DEF CmdOK, Commands
<1>2. CASE Composed(p.exe.main)
  <2>1. PICK pol : u = Law(p, pol)
    BY <1>2 DEF Commands
  <2> QED BY <1>2, <2>1, LawInBox
<1> QED BY <1>1, <1>2

\* Whatever a solver answers is one number, or NaN.
LEMMA ControlsOK ==
  ASSUME NEW gen, NEW x, NEW u \in Controls(gen, x)
  PROVE  u \in Seq(Numbers) /\ Len(u) = 1
<1>1. \A v \in Numbers : <<v>> \in Seq(Numbers) /\ Len(<<v>>) = 1
  OBVIOUS
<1>2. CASE u = Control(gen, x)
  BY <1>1, <1>2, NumbersClosed DEF Control
<1>3. CASE u \in [1 .. 1 -> Arbitrary]
  <2>1. u[1] \in Numbers
    BY <1>3, ArbitraryAssumption
  <2>2. u = <<u[1]>>
    BY <1>3
  <2> QED BY <1>1, <2>1, <2>2
<1> QED BY <1>2, <1>3 DEF Controls

\* A process starts with as many entries of state as its plant has.
LEMMA InitialisedOK ==
  ASSUME NEW m, m.x0 \in Seq(Numbers), m.nx \in Nat
  PROVE  Initialised(m) \in Seq(Numbers) /\ Len(Initialised(m)) = m.nx
<1>1. \A k \in 1 .. m.nx : Entry(m.x0, k) \in Numbers
  BY EntryOK
<1>2. Initialised(m) = [k \in 1 .. m.nx |-> Entry(m.x0, k)]
  BY DEF Initialised
<1> QED BY <1>1, <1>2, IsASeq, LenProperties

\* The plant keeps the entries of a state numbers, and as many.
LEMMA PlantIs ==
  ASSUME NEW x \in Seq(Numbers), Len(x) >= 2, NEW u
  PROVE  Plant(x, u) \in Seq(Numbers) /\ Len(Plant(x, u)) = Len(x)
<1> DEFINE v == Plus(x[1], x[2])
           w == Plus(x[2], u[1])
           y == [x EXCEPT ![1] = v]
<1>1. v \in Numbers /\ w \in Numbers /\ Plant(x, u) = [y EXCEPT ![2] = w]
  BY NumbersClosed DEF Plant
<1> HIDE DEF v, w
<1>2. 1 \in 1 .. Len(x) /\ 2 \in 1 .. Len(x)
  BY LenProperties
<1>3. y \in Seq(Numbers) /\ Len(y) = Len(x)
  BY <1>1, <1>2, ExceptSeq
<1> HIDE DEF y
<1>4. [y EXCEPT ![2] = w] \in Seq(Numbers) /\ Len([y EXCEPT ![2] = w]) = Len(y)
  BY <1>1, <1>2, <1>3, ExceptSeq
<1> QED BY <1>1, <1>3, <1>4

(***************************************************************************)
(* A process stays in order, whatever step of main it takes.               *)
(***************************************************************************)

\* The seed moves the first entry of a state, if it has one.
LEMMA SeededOK ==
  ASSUME NEW x \in Seq(Numbers), NEW seed
  PROVE  Seeded(x, seed) \in Seq(Numbers) /\ Len(Seeded(x, seed)) = Len(x)
<1> DEFINE v == Plus(x[1], seed)
<1>1. v \in Numbers /\ Seeded(x, seed) = [x EXCEPT ![1] = v]
  BY NumbersClosed DEF Seeded
<1> HIDE DEF v
<1>2. CASE 1 \in 1 .. Len(x)
  BY <1>1, <1>2, ExceptSeq
<1>3. CASE 1 \notin 1 .. Len(x)
  <2>1. [x EXCEPT ![1] = v] = x
    BY <1>3
  <2> QED BY <1>1, <2>1
<1> QED BY <1>2, <1>3

\* Each step of main.
LEMMA MainStepOK ==
  ASSUME NEW s \in Sessions, proc = [t \in Sessions |-> proc[t]],
         ProcessOK(proc[s]), MainStep(s)
  PROVE  \E q : ProcessOK(q) /\ q.exe = proc[s].exe /\ proc' = [proc EXCEPT ![s] = q]
<1> DEFINE p == proc[s]
           Like(q) == ProcessOK(q) /\ q.exe = p.exe
<1>1. p = [f \in ProcessFields |-> p[f]]
  BY DEF ProcessOK
<1>2. ASSUME NEW v PROVE Like([p EXCEPT !.at = "exited", !.rc = v])
  BY <1>1 DEF ProcessOK, ProcessFields
<1>3. ASSUME NEW rc, Exit(s, rc) PROVE \E q : Like(q) /\ proc' = [proc EXCEPT ![s] = q]
  <2>1. proc' = [proc EXCEPT ![s] = [p EXCEPT !.at = "exited", !.rc = rc]]
    BY <1>3 DEF Exit
  <2> QED BY <1>2, <2>1
<1>4. CASE CheckArguments(s)
  <2>1. CASE Go(s, "create")
    <3>1. proc' = [proc EXCEPT ![s] = [p EXCEPT !.at = "create"]]
      BY <2>1 DEF Go
    <3>2. Like([p EXCEPT !.at = "create"])
      BY <1>1 DEF ProcessOK, ProcessFields
    <3> QED BY <3>1, <3>2
  <2> QED BY <1>3, <1>4, <2>1 DEF CheckArguments
<1>5. CASE Create(s)
  <2> DEFINE q == [p EXCEPT !.at = "solve", !.x = Seeded(@, p.argv.seed)]
  <2>1. ASSUME proc' = [proc EXCEPT ![s] = q]
        PROVE  Like(q)
    <3>1. p.x \in Seq(Numbers) /\ Len(p.x) = p.exe.main.nx
      BY DEF ProcessOK
    <3>2. Seeded(p.x, p.argv.seed) \in Seq(Numbers) /\ Len(Seeded(p.x, p.argv.seed)) = p.exe.main.nx
      BY <3>1, SeededOK
    <3> HIDE DEF p
    <3>3. q = [p EXCEPT !.at = "solve", !.x = Seeded(p.x, p.argv.seed)]
      BY <1>1 DEF ProcessFields
    <3> QED BY <1>1, <3>2, <3>3 DEF ProcessOK, ProcessFields, p
  <2> QED BY <1>3, <1>5, <2>1 DEF Create
<1>6. CASE Solve(s)
  <2>1. ASSUME NEW u \in Controls(p.exe.gen, p.x)
        PROVE  Like([p EXCEPT !.at = "combine", !.mpc = u])
    <3>1. u \in Seq(Numbers) /\ Len(u) = 1
      BY ControlsOK
    <3> QED BY <1>1, <3>1 DEF ProcessOK, ProcessFields
  <2>2. CASE \E u \in Controls(p.exe.gen, p.x) :
               proc' = [proc EXCEPT ![s] = [p EXCEPT !.at = "combine", !.mpc = u]]
    BY <2>1, <2>2
  <2> QED BY <1>3, <1>6, <2>2 DEF Solve
<1>7. CASE Combine(s)
  <2>1. ASSUME NEW u \in Commands(p)
        PROVE  Like([p EXCEPT !.at = "emit", !.cmd = u])
    <3>1. CmdOK(p.exe, u)
      BY <1>7, CommandsOK DEF ProcessOK, Combine
    <3> QED BY <1>1, <3>1 DEF ProcessOK, ProcessFields
  <2>2. CASE \E u \in Commands(p) : proc' = [proc EXCEPT ![s] = [p EXCEPT !.at = "emit", !.cmd = u]]
    BY <2>1, <2>2
  <2> QED BY <1>3, <1>7, <2>2 DEF Combine
<1>8. CASE Emit(s)
  <2> DEFINE q == [p EXCEPT !.at = "advance", !.ran = Append(@, [x |-> p.x, cmd |-> p.cmd])]
  <2>1. [x |-> p.x, cmd |-> p.cmd] \in Rows(p.exe)
    BY <1>8 DEF Rows, ProcessOK, Emit, CmdOK, ExeOK, ProgramOK
  <2>2. Append(p.ran, [x |-> p.x, cmd |-> p.cmd]) \in Seq(Rows(p.exe))
    BY <2>1, AppendProperties DEF ProcessOK
  <2>3. q = [p EXCEPT !.at = "advance", !.ran = Append(p.ran, [x |-> p.x, cmd |-> p.cmd])]
    BY <1>1 DEF ProcessFields
  <2>4. Like(q)
    BY <1>1, <2>2, <2>3 DEF ProcessOK, ProcessFields
  <2> QED BY <1>8, <2>4 DEF Emit
<1>9. CASE Advance(s)
  <2>1. ASSUME NEW d \in Drifts,
               NEW q, q = [p EXCEPT !.x = [Plant(p.x, p.cmd) EXCEPT ![2] = Plus(@, d)], !.i = @ + 1,
                                    !.at = IF p.i + 1 = Cycles(p) THEN "exited" ELSE "solve"]
        PROVE  Like(q)
    <3> DEFINE y == [Plant(p.x, p.cmd) EXCEPT ![2] = Plus(@, d)]
    <3>1. y \in Seq(Numbers) /\ Len(y) = p.exe.main.nx
      <4> DEFINE z == Plant(p.x, p.cmd)
                 v == Plus(z[2], d)
      <4>1. p.x \in Seq(Numbers) /\ Len(p.x) = p.exe.main.nx /\ p.exe.main.nx >= 2
        BY DEF ProcessOK, ExeOK, ProgramOK
      <4>2. z \in Seq(Numbers) /\ Len(z) = p.exe.main.nx /\ 2 \in 1 .. Len(z)
        BY <4>1, PlantIs, LenProperties
      <4>3. v \in Numbers /\ y = [z EXCEPT ![2] = v]
        BY NumbersClosed
      <4> HIDE DEF z, v
      <4>4. [z EXCEPT ![2] = v] \in Seq(Numbers) /\ Len([z EXCEPT ![2] = v]) = Len(z)
        BY <4>2, <4>3, ExceptSeq
      <4> HIDE DEF y
      <4> QED BY <4>2, <4>3, <4>4
    <3>2. q.x = y /\ q.exe = p.exe /\ q.ran = p.ran /\ q.at \in {"exited", "solve"}
      BY <1>1, <2>1 DEF ProcessFields
    <3>3. q = [f \in ProcessFields |-> q[f]]
      BY <1>1, <2>1 DEF ProcessFields
    <3> HIDE DEF y
    <3> QED BY <3>1, <3>2, <3>3 DEF ProcessOK
  <2>2. ASSUME NEW q \in Moved(p) PROVE Like(q)
    BY <2>1, <2>2 DEF Moved
  <2> QED BY <1>3, <1>9, <2>2 DEF Advance
<1> QED BY <1>4, <1>5, <1>6, <1>7, <1>8, <1>9 DEF MainStep

(***************************************************************************)
(* The invariant of the sessions: only generated programs are written to a *)
(* directory, and what is compiled there, or runs, has its bounds in order.*)
(***************************************************************************)
DirFields == {"exists", "main", "gen", "exe", "executable"}

DirOK(dir) ==
  /\ dir = [f \in DirFields |-> dir[f]]
  /\ \A m \in dir.main : ProgramOK(m)
  /\ \A e \in dir.exe : ExeOK(e)

Tables ==
  /\ proc = [s \in Sessions |-> proc[s]]
  /\ at = [s \in Sessions |-> at[s]]
  /\ manifest = [s \in Sessions |-> manifest[s]]
  /\ call = [s \in Sessions |-> call[s]]
  /\ evidence = [s \in Sessions |-> evidence[s]]
  /\ dirs = [d \in DOMAIN dirs |-> dirs[d]]

\* What is generated, and accepted by the host's arbiter if a parity run is asked for.
Accepts(o) ==
  LET d == o.design IN
  /\ Generates(o.job, d)
  /\ o.job = "dual_hil" =>
       /\ Len(d.x0) = d.inputs
       /\ Fits(d.plan, Len(Control(d.controller, d.x0)), Outputs(Last(Chain(d.params, d.inputs))),
               Len(d.x0))

Generated(s) ==
  at[s] \notin {"build", "generate", "done"} \/ call[s] # "none" => Accepts(order[s])

SessionOK(s) ==
  /\ order[s].dir \in DOMAIN dirs
  /\ Generated(s)
  /\ proc[s] = NoProcess \/ ProcessOK(proc[s])

HilInv ==
  /\ order \in Orders
  /\ Tables
  /\ \A s \in Sessions : SessionOK(s)
  /\ \A d \in DOMAIN dirs : DirOK(dirs[d])

LEMMA AcceptsIs ==
  ASSUME NEW s
  PROVE  Accepts(order[s]) <=> Generates(order[s].job, order[s].design) /\ Comparable(s)
BY DEF Accepts, Comparable

\* A program that is accepted is in order.
LEMMA OwnProgramOK ==
  ASSUME order \in Orders, NEW s \in Sessions, Accepts(order[s])
  PROVE  ProgramOK(OwnExe(s).main)
<1> DEFINE d == order[s].design
           m == Program(order[s].job, d)
<1>1. /\ m.x0 = d.x0 /\ m.nx = d.nx /\ m.plan = d.plan /\ m.kind = order[s].job
      /\ m.trace \in {CARTPOLE_LQR_TRACE, d.trace}
  BY DEF Program
<1>2. TracesKnown => m.trace \subseteq CARTPOLE_LQR_TRACE
  BY <1>1 DEF TracesKnown
<1>3. ResidualPlans => m.plan.mode = "residual"
  BY <1>1 DEF ResidualPlans
<1>4. d.x0 \in Seq(Numbers) /\ d.nx \in Nat /\ d.nx >= 2 /\ EnvelopeOK(d.plan.safety_envelope)
  BY OrdersAssumption DEF EnvelopeOK
<1>5. OwnExe(s).main = m
  BY DEF OwnExe
<1>6. ~ Composed(m) => m.layers = <<>>
  BY DEF Program, Composed
<1>7. ASSUME Composed(m)
      PROVE  PlanValid(d.plan) /\ m.trace = CARTPOLE_LQR_TRACE /\ Layered(m.layers)
  <2>1. order[s].job \in {"dual_hil", "dual_bench"}
    BY <1>1, <1>7 DEF Composed
  <2>2. PlanValid(d.plan) /\ Chained(d.params, d.inputs)
    BY <2>1 DEF Generates, Accepts
  <2>3. m.layers = from_flax(d.params, d.inputs) /\ m.trace = CARTPOLE_LQR_TRACE
    BY <2>1 DEF Program
  <2>4. /\ IsFiniteSet(d.params) /\ d.params # {}
        /\ \A l \in d.params : Outputs(l) \in Nat /\ Outputs(l) >= 1
    <3>1. /\ IsFiniteSet(d.params) /\ d.params # {}
          /\ \A l \in d.params : l.bias \in Seq(Numbers) /\ Len(l.bias) >= 1
      BY OrdersAssumption
    <3>2. \A l \in d.params : Len(l.bias) \in Nat
      BY <3>1, LenProperties
    <3> QED BY ONLY <3>1, <3>2 DEF Outputs
  <2> DEFINE dim == d.inputs
             params == d.params
  <2>5. Chained(params, dim) /\ params # {} /\ IsFiniteSet(params)
    BY <2>2, <2>4
  <2>6. \A l \in params : Outputs(l) \in Nat /\ Outputs(l) >= 1
    BY <2>4
  <2> HIDE DEF m, d, dim, params
  <2>7. Layered(from_flax(params, dim))
    BY ONLY <2>5, <2>6, FlaxLayered
  <2> USE DEF dim, params
  <2> QED BY <2>2, <2>3, <2>7
<1> HIDE DEF m, d
<1> QED BY <1>1, <1>2, <1>3, <1>4, <1>5, <1>6, <1>7 DEF ProgramOK

\* The commands of a script come after the generation and before the end.
LEMMA ScriptSteps ==
  ASSUME order \in Orders, NEW s \in Sessions, InScript(s)
  PROVE  at[s] \notin {"build", "generate", "done"}
<1>1. order[s].place \in {"host", "target", "deployed"}
  BY OrdersAssumption
<1>2. Script(s) \in {<<"compile", "run">>, <<"prepare", "ship", "compile", "run">>, <<"copy", "chmod", "run">>}
  BY <1>1 DEF Script
<1>3. at[s] \in ToSet(Script(s))
  BY DEF InScript
<1> QED BY <1>2, <1>3 DEF ToSet

\* What a command leaves in its directory is in order.
LEMMA EffectOK ==
  ASSUME HilInv, NEW s \in Sessions, NEW command, NEW possible, NEW dir,
         command # "none",
         Accepts(order[s]) /\ possible => DirOK(dir),
         Effect(s, command, possible, dir)
  PROVE  HilInv'
<1>1. /\ UNCHANGED <<proc, order, at, manifest, evidence>>
      /\ call' = [call EXCEPT ![s] = "ran"] \/ call' = [call EXCEPT ![s] = "failed"]
      /\ call[s] = command
      /\ dirs' = dirs \/ (possible /\ dirs' = [dirs EXCEPT ![order[s].dir] = dir])
  BY DEF Effect
<1>2. Accepts(order[s])
  BY <1>1 DEF HilInv, SessionOK, Generated
<1>3. order' \in Orders /\ Tables'
  BY <1>1 DEF HilInv, Tables
<1>4. DOMAIN dirs' = DOMAIN dirs /\ \A d \in DOMAIN dirs : DirOK(dirs'[d])
  BY <1>1, <1>2 DEF HilInv, Tables
<1>5. ASSUME NEW t \in Sessions PROVE SessionOK(t)'
  <2>1. SessionOK(t)
    BY DEF HilInv
  <2>2. t # s => call'[t] = call[t]
    BY <1>1 DEF HilInv, Tables
  <2>3. Generated(t)'
    BY <1>1, <1>2, <2>1, <2>2 DEF SessionOK, Generated
  <2> QED BY <1>1, <1>4, <2>1, <2>3 DEF SessionOK
<1> QED BY <1>3, <1>4, <1>5 DEF HilInv

\* Steps that change no directory and no process, and of one session only how far it is.
LEMMA ClientOK ==
  ASSUME HilInv, NEW s \in Sessions, UNCHANGED <<order, dirs>>, Tables',
         \A t \in Sessions : proc'[t] = proc[t] \/ proc'[t] = NoProcess,
         \A t \in Sessions \ {s} : at'[t] = at[t] /\ call'[t] = call[t],
         Generated(s)'
  PROVE  HilInv'
<1>1. ASSUME NEW t \in Sessions PROVE SessionOK(t)'
  <2>1. SessionOK(t)
    BY DEF HilInv
  <2>2. Generated(t)'
    BY <2>1 DEF SessionOK, Generated
  <2>3. proc'[t] = NoProcess \/ ProcessOK(proc'[t])
    BY <2>1 DEF SessionOK
  <2> QED BY <2>1, <2>2, <2>3 DEF SessionOK
<1> QED BY <1>1 DEF HilInv

\* What is executable in a directory was compiled from what is there.
LEMMA LinkedOK ==
  ASSUME NEW dir, DirOK(dir)
  PROVE  \A e \in Linked(dir) : ExeOK(e)
BY CompiledOK DEF Linked, DirOK

\* At the start nothing runs and no directory holds a binary.
LEMMA HilInit == Init => HilInv
<1> SUFFICES ASSUME Init PROVE HilInv
  OBVIOUS
<1>1. order \in Orders /\ Tables
  BY DEF Init, Tables
<1>2. ASSUME NEW s \in Sessions PROVE SessionOK(s)
  BY DEF Init, SessionOK, Generated
<1>3. DirOK(Empty) /\ DirOK(Absent)
  BY DEF DirOK, DirFields, Empty, Absent
<1> QED BY <1>1, <1>2, <1>3 DEF Init, HilInv

\* Every step keeps programs, directories and processes in order.
LEMMA HilStep == HilInv /\ [Next]_vars => HilInv'
<1> SUFFICES ASSUME HilInv, [Next]_vars PROVE HilInv'
  OBVIOUS
<1>1. CASE UNCHANGED vars
  BY <1>1 DEF vars, hilVars, HilInv, Tables, SessionOK, Generated
<1>2. CASE Next
  <2>1. PICK s \in Sessions : Client(s) \/ Machine(s)
    BY <1>2 DEF Next
  <2>2. SessionOK(s) /\ DirOK(Dir(s)) /\ Tables /\ order \in Orders
    BY DEF HilInv, SessionOK, Dir
  <2>3. Accepts(order[s]) => ProgramOK(OwnExe(s).main)
    BY <2>2, OwnProgramOK
  <2>4. InScript(s) => Accepts(order[s])
    BY <2>2, ScriptSteps DEF SessionOK, Generated
  <2>5. CASE Build(s)
    <3>1. order' = order /\ proc' = proc /\ call' = call /\ (dirs' = dirs \/ dirs' = Built(s))
      BY <2>5 DEF Build
    <3>2. /\ at' \in {[at EXCEPT ![s] = "generate"], [at EXCEPT ![s] = "done"]}
          /\ Tables'
      BY <2>2, <2>5 DEF Build, Raise, Publish, Built, Tables
    <3>3. DOMAIN dirs' = DOMAIN dirs /\ \A d \in DOMAIN dirs : DirOK(dirs'[d])
      <4> DEFINE new == [Dir(s) EXCEPT !.gen = {OwnExe(s).gen}]
      <4>1. DirOK(new)
        BY <2>2 DEF DirOK, DirFields
      <4>2. dirs' = dirs \/ dirs' = [dirs EXCEPT ![order[s].dir] = new]
        BY <3>1, <2>2 DEF Built, Dir
      <4> HIDE DEF new
      <4> QED BY <4>1, <4>2 DEF HilInv
    <3>4. ASSUME NEW t \in Sessions PROVE SessionOK(t)'
      <4>1. SessionOK(t)
        BY DEF HilInv
      <4>2. Generated(t)'
        BY <3>1, <3>2, <4>1, <2>2 DEF SessionOK, Generated, Tables
      <4> QED BY <3>1, <3>3, <4>1, <4>2 DEF SessionOK
    <3> QED BY <3>1, <3>2, <3>3, <3>4, <2>2 DEF HilInv
  <2>6. CASE Generate(s)
    <3>1. /\ UNCHANGED <<proc, order, call, dirs>> /\ Tables'
          /\ \A t \in Sessions \ {s} : at'[t] = at[t]
          /\ at'[s] = "done" \/ Accepts(order[s])
      BY <2>2, <2>6, AcceptsIs DEF Generate, Raise, Publish, Tables
    <3>2. Generated(s)'
      BY <3>1, <2>2 DEF Generated, SessionOK
    <3> QED BY <3>1, <3>2, ClientOK
  <2>7. CASE Issue(s)
    <3>1. /\ UNCHANGED <<proc, order, at, manifest, evidence>>
          /\ call' = [call EXCEPT ![s] = at[s]]
          /\ dirs' = dirs \/ dirs' = [dirs EXCEPT ![order[s].dir].main = {OwnExe(s).main}]
          /\ InScript(s)
      BY <2>7 DEF Issue
    <3>2. Tables'
      BY <3>1, <2>2 DEF Tables
    <3>3. DOMAIN dirs' = DOMAIN dirs /\ \A d \in DOMAIN dirs : DirOK(dirs'[d])
      <4> DEFINE new == [Dir(s) EXCEPT !.main = {OwnExe(s).main}]
      <4>1. DirOK(new)
        BY <3>1, <2>2, <2>3, <2>4 DEF DirOK, DirFields
      <4>2. dirs' = dirs \/ dirs' = [dirs EXCEPT ![order[s].dir] = new]
        BY <3>1, <2>2 DEF Dir
      <4> HIDE DEF new
      <4> QED BY <4>1, <4>2 DEF HilInv
    <3>4. ASSUME NEW t \in Sessions PROVE SessionOK(t)'
      <4>1. SessionOK(t)
        BY DEF HilInv
      <4>2. Generated(t)'
        BY <3>1, <4>1, <2>2, <2>4 DEF SessionOK, Generated, Tables
      <4> QED BY <3>1, <3>3, <4>1, <4>2 DEF SessionOK
    <3> QED BY <3>1, <3>2, <3>3, <3>4, <2>2 DEF HilInv
  <2>8. CASE Return(s)
    <3>1. /\ UNCHANGED <<proc, order, dirs>> /\ Tables'
          /\ \A t \in Sessions \ {s} : at'[t] = at[t] /\ call'[t] = call[t]
          /\ InScript(s)
      BY <2>2, <2>8 DEF Return, Raise, Publish, Tables
    <3>2. Generated(s)'
      BY <3>1, <2>4 DEF Generated
    <3> QED BY <3>1, <3>2, ClientOK
  <2>9. CASE TimeOut(s)
    <3>1. /\ UNCHANGED <<order, dirs>> /\ Tables'
          /\ \A t \in Sessions : proc'[t] = proc[t] \/ proc'[t] = NoProcess
          /\ \A t \in Sessions \ {s} : at'[t] = at[t] /\ call'[t] = call[t]
          /\ InScript(s)
      BY <2>2, <2>9 DEF TimeOut, Raise, Publish, Tables
    <3>2. Generated(s)'
      BY <3>1, <2>4 DEF Generated
    <3> QED BY <3>1, <3>2, ClientOK
  <2>10. CASE Conclude(s)
    <3>1. PICK out \in Stdouts(proc[s]) : Publish(s, Attested(s, Read(s, out)))
      BY <2>10 DEF Conclude
    <3>2. /\ UNCHANGED <<proc, order, dirs>> /\ Tables'
          /\ \A t \in Sessions \ {s} : at'[t] = at[t] /\ call'[t] = call[t]
      BY <2>2, <2>10, <3>1 DEF Conclude, Publish, Tables
    <3>3. Generated(s)'
      BY <2>2, <2>10, <3>1, <3>2 DEF Conclude, Publish, Generated, SessionOK, Tables
    <3> QED BY <3>2, <3>3, ClientOK
  <2>11. CASE LinkLost(s)
    <3>1. /\ UNCHANGED <<proc, order, dirs>> /\ Tables'
          /\ \A t \in Sessions \ {s} : at'[t] = at[t] /\ call'[t] = call[t]
          /\ InScript(s)
      BY <2>2, <2>11 DEF LinkLost, Raise, Publish, Tables
    <3>2. Generated(s)'
      BY <3>1, <2>4 DEF Generated
    <3> QED BY <3>1, <3>2, ClientOK
  <2>12. CASE Prepare(s)
    <3>1. DirOK(Empty)
      BY DEF DirOK, DirFields, Empty
    <3> QED BY <3>1, <2>12, EffectOK DEF Prepare
  <2>13. CASE Ship(s)
    <3>1. Accepts(order[s]) =>
            DirOK([Dir(s) EXCEPT !.main = {OwnExe(s).main}, !.gen = {OwnExe(s).gen}])
      BY <2>2, <2>3 DEF DirOK, DirFields
    <3> QED BY <3>1, <2>13, EffectOK DEF Ship
  <2>14. CASE Compile(s)
    <3>1. DirOK([Dir(s) EXCEPT !.exe = Linked(Dir(s)), !.executable = TRUE])
      BY <2>2, LinkedOK DEF DirOK, DirFields
    <3> QED BY <3>1, <2>14, EffectOK DEF Compile
  <2>15. CASE Copy(s)
    <3>1. Accepts(order[s]) /\ Compiles(OwnExe(s).main) => ExeOK(OwnExe(s))
      BY <2>3, CompiledOK DEF OwnExe
    <3>2. Accepts(order[s]) /\ Dir(s).exists /\ Compiles(OwnExe(s).main) =>
            DirOK([Dir(s) EXCEPT !.exe = {OwnExe(s)}, !.executable = @ /\ Dir(s).exe # {}])
      BY <2>2, <3>1 DEF DirOK, DirFields
    <3> QED BY <3>2, <2>15, EffectOK DEF Copy
  <2>16. CASE Chmod(s)
    <3>1. DirOK([Dir(s) EXCEPT !.executable = TRUE])
      BY <2>2 DEF DirOK, DirFields
    <3> QED BY <3>1, <2>16, EffectOK DEF Chmod
  <2>17. ASSUME UNCHANGED <<order, at, manifest, dirs, evidence>>,
                \A t \in Sessions \ {s} : call'[t] = call[t], Tables',
                call'[s] = call[s] \/ call[s] # "none",
                \A t \in Sessions : proc'[t] = proc[t] \/ ProcessOK(proc'[t])
         PROVE  HilInv'
    <3>1. ASSUME NEW t \in Sessions PROVE SessionOK(t)'
      <4>1. SessionOK(t)
        BY DEF HilInv
      <4> QED BY <2>17, <4>1 DEF SessionOK, Generated
    <3> QED BY <2>17, <3>1 DEF HilInv
  <2>18. CASE Run(s)
    <3>1. ASSUME NEW exe \in Dir(s).exe PROVE ProcessOK(Started(exe, Argv(s)))
      <4>1. ExeOK(exe)
        BY <2>2, <3>1 DEF DirOK
      <4>2. Initialised(exe.main) \in Seq(Numbers) /\ Len(Initialised(exe.main)) = exe.main.nx
        BY <4>1, InitialisedOK DEF ExeOK, ProgramOK
      <4> QED BY <4>1, <4>2, EmptySeq DEF ProcessOK, ProcessFields, Started
    <3>2. /\ UNCHANGED <<order, at, manifest, dirs, evidence>> /\ call[s] = "run"
          /\ \/ call' = call /\ \E exe \in Dir(s).exe : proc' = [proc EXCEPT ![s] = Started(exe, Argv(s))]
             \/ call' = [call EXCEPT ![s] = "failed"] /\ proc' = proc
      BY <2>18 DEF Run
    <3> QED BY <3>1, <3>2, <2>2, <2>17 DEF Tables
  <2>19. CASE Execute(s)
    <3>1. MainStep(s) /\ UNCHANGED <<order, at, manifest, call, dirs, evidence>>
      BY <2>19 DEF Execute, hilVars
    <3>2. proc[s] # NoProcess
      BY <3>1 DEF NoProcess, MainStep, CheckArguments, Create, Solve, Combine, Emit, Advance
    <3>3. PICK q : ProcessOK(q) /\ proc' = [proc EXCEPT ![s] = q]
      BY <2>2, <3>1, <3>2, MainStepOK DEF Tables, SessionOK
    <3> QED BY <3>1, <3>3, <2>2, <2>17 DEF Tables
  <2> QED BY <2>1, <2>5, <2>6, <2>7, <2>8, <2>9, <2>10, <2>11, <2>12, <2>13, <2>14, <2>15,
             <2>16, <2>18, <2>19 DEF Client, Machine
<1> QED BY <1>1, <1>2

\* No binary with a policy applies a number outside its plan's actuator box.
LEMMA InEnvelope ==
  ASSUME HilInv, NEW s \in Sessions, Running(s), Composed(Main(s)), NEW k \in DOMAIN proc[s].ran
  PROVE  InBox(Main(s).plan.safety_envelope, proc[s].ran[k].cmd)
<1>1. ProcessOK(proc[s])
  BY DEF HilInv, SessionOK, Running
<1>2. proc[s].ran[k] \in Rows(proc[s].exe)
  BY <1>1, ElementOfSeq DEF ProcessOK
<1> QED BY <1>2 DEF Rows, CmdOK, Main

(***************************************************************************)
(* Sessions that share no directory: what is in a session's directory, and *)
(* what it runs, is its own, and so is its manifest.                       *)
(***************************************************************************)
Separate ==
  \A o \in Orders, s, t \in Sessions : s # t => o[s].dir # o[t].dir

OwnManifest(s, m) ==
  LET o == order[s] IN
  \E when \in Clocks :
    m = Manifest(o.design.source, detect_toolchain_versions(o.target, o.env), o.target,
                 o.design.controller, when)

OwnDir(s, dir) ==
  dir.main \subseteq {OwnExe(s).main} /\ dir.gen \subseteq {OwnExe(s).gen} /\ dir.exe \subseteq {OwnExe(s)}

Published(s) == evidence[s].kind \in {"report", "record"}

Attestation(s) ==
  <<attest_dual_path(manifest[s], OwnExe(s).main.layers, order[s].design.plan)>>

Accounted(s) ==
  /\ at[s] = "done" /\ Running(s) /\ manifest[s] # Nothing
  /\ evidence[s].kind = "report" /\ evidence[s].attestation # <<>> =>
       evidence[s].attestation = Attestation(s)
  /\ evidence[s].kind = "record" => evidence[s].source_manifest_hash = content_hash(manifest[s])

Bound(s) ==
  /\ at[s] = "build" \/ at[s] = "done" \/ manifest[s] # Nothing
  /\ manifest[s] # Nothing => OwnManifest(s, manifest[s])
  /\ OwnDir(s, dirs[order[s].dir])
  /\ Running(s) => proc[s].exe = OwnExe(s)
  /\ Published(s) => Accounted(s)

BindInv == HilInv /\ \A s \in Sessions : Bound(s)

\* A manifest is never the record of there being none.
LEMMA ManifestIsSome ==
  ASSUME NEW s, NEW m, OwnManifest(s, m)
  PROVE  /\ m # Nothing
         /\ DOMAIN m = CONTENT_FIELDS \union {"build_timestamp_utc", "signer_identity", "signature"}
         /\ m.schema_version = SCHEMA_VERSION_V0 /\ m.signer_identity = None /\ m.signature = None
         /\ m.source_attestation_handle = order[s].design.source
         /\ m.toolchain_versions = detect_toolchain_versions(order[s].target, order[s].env)
         /\ m.target_profile_hash = blake3(order[s].target)
         /\ m.artifact_content_hash = blake3(order[s].design.controller)
BY DEF OwnManifest, Manifest, Nothing, CONTENT_FIELDS

\* Equal hashes are of equal contents, equal attestations of equal hashes.
LEMMA HashInjective ==
  ASSUME NEW m, NEW n, content_hash(m) = content_hash(n)
  PROVE  content_payload(m) = content_payload(n)
<1>1. content_hash(m).blake3 = content_hash(n).blake3
  OBVIOUS
<1> QED BY <1>1 DEF content_hash, blake3

\* Equal attestations are of one manifest content, one policy and one plan.
LEMMA AttestationInjective ==
  ASSUME NEW m, NEW n, NEW policy, NEW other, NEW plan, NEW rival,
         attest_dual_path(m, policy, plan) = attest_dual_path(n, other, rival)
  PROVE  /\ content_hash(m) = content_hash(n)
         /\ blake3(policy) = blake3(other) /\ blake3(plan) = blake3(rival)
<1>1. /\ attest_dual_path(m, policy, plan).controller_manifest_hash
           = attest_dual_path(n, other, rival).controller_manifest_hash
      /\ attest_dual_path(m, policy, plan).policy_artifact_hash
           = attest_dual_path(n, other, rival).policy_artifact_hash
      /\ attest_dual_path(m, policy, plan).composition_plan_hash
           = attest_dual_path(n, other, rival).composition_plan_hash
  OBVIOUS
<1> QED BY <1>1 DEF attest_dual_path

\* At the start nothing is published and nothing runs.
LEMMA BindInit == Init => BindInv
<1> SUFFICES ASSUME Init, NEW s \in Sessions PROVE Bound(s)
  BY HilInit DEF BindInv
<1>1. /\ at[s] = "build" /\ manifest[s] = Nothing /\ proc[s] = NoProcess /\ evidence[s] = Nothing
      /\ dirs[order[s].dir] \in {Empty, Absent}
  BY DEF Init
<1>2. OwnDir(s, Empty) /\ OwnDir(s, Absent)
  BY DEF OwnDir, Empty, Absent
<1> QED BY <1>1, <1>2 DEF Bound, Running, Published, Nothing

\* A session is bound still by a step that is not its own.
LEMMA BoundKept ==
  ASSUME BindInv, NEW t \in Sessions, order' = order,
         at'[t] = at[t], manifest'[t] = manifest[t], proc'[t] = proc[t], evidence'[t] = evidence[t],
         dirs'[order[t].dir] = dirs[order[t].dir]
  PROVE  Bound(t)'
<1>1. Bound(t)
  BY DEF BindInv
<1> QED BY <1>1 DEF Bound, OwnManifest, OwnDir, OwnExe, Running, Published, Accounted, Attestation

\* A step of one session leaves the others bound, whose directory is not its own.
LEMMA OthersKept ==
  ASSUME Separate, BindInv, NEW s \in Sessions, Client(s) \/ Machine(s),
         NEW t \in Sessions, t # s
  PROVE  Bound(t)'
<1>1. Tables /\ order \in Orders
  BY DEF BindInv, HilInv
<1>2. order[t].dir # order[s].dir
  BY <1>1 DEF Separate
<1>3. /\ order' = order
      /\ at'[t] = at[t] /\ manifest'[t] = manifest[t] /\ evidence'[t] = evidence[t]
      /\ dirs'[order[t].dir] = dirs[order[t].dir]
  <2>1. order[t].dir \in DOMAIN dirs
    BY DEF BindInv, HilInv, SessionOK
  <2>2. CASE Client(s)
    BY <1>1, <1>2, <2>1, <2>2 DEF Client, Build, Built, Generate, Issue, Return, TimeOut, Conclude,
       Raise, Publish, Tables
  <2>3. CASE Machine(s)
    BY <1>1, <1>2, <2>1, <2>3 DEF Machine, LinkLost, Prepare, Ship, Compile, Copy, Chmod, Effect, Run,
       Execute, hilVars, Raise, Publish, Tables
  <2> QED BY <2>2, <2>3
<1>4. proc'[t] = proc[t]
  <2>1. CASE Client(s)
    BY <1>1, <2>1 DEF Client, Build, Generate, Issue, Return, TimeOut, Conclude, Tables
  <2>2. CASE LinkLost(s) \/ Prepare(s) \/ Ship(s) \/ Compile(s) \/ Copy(s) \/ Chmod(s) \/ Run(s)
    BY <1>1, <2>2 DEF LinkLost, Prepare, Ship, Compile, Copy, Chmod, Effect, Run, Tables
  <2>3. CASE Execute(s)
    BY <1>1, <2>3 DEF Execute, MainStep, CheckArguments, Create, Solve, Combine, Emit, Advance,
       Exit, Go, Tables
  <2> QED BY <2>1, <2>2, <2>3 DEF Machine
<1> QED BY <1>3, <1>4, BoundKept

\* A step that publishes nothing keeps a session bound if its directory stays its own.
LEMMA BoundStep ==
  ASSUME BindInv, NEW s \in Sessions, order' = order, manifest' = manifest, evidence' = evidence,
         at'[s] = at[s] \/ (at'[s] # "build" /\ manifest[s] # Nothing /\ ~ Published(s)),
         OwnDir(s, dirs[order[s].dir])',
         Published(s) => Running(s)',
         Running(s)' => proc'[s].exe = OwnExe(s)
  PROVE  Bound(s)'
<1>1. Bound(s)
  BY DEF BindInv
<1> QED BY <1>1 DEF Bound, OwnManifest, OwnDir, OwnExe, Running, Published, Accounted, Attestation

\* A command that has an effect on its own directory keeps its session bound.
LEMMA BoundEffect ==
  ASSUME BindInv, NEW s \in Sessions, NEW command, NEW possible, NEW dir,
         possible => OwnDir(s, dir),
         Effect(s, command, possible, dir)
  PROVE  Bound(s)'
<1>1. Bound(s) /\ order[s].dir \in DOMAIN dirs
  BY DEF BindInv, HilInv, SessionOK
<1>2. /\ UNCHANGED <<proc, order, at, manifest, evidence>>
      /\ dirs' = dirs \/ (possible /\ dirs' = [dirs EXCEPT ![order[s].dir] = dir])
  BY DEF Effect
<1>3. OwnDir(s, dirs[order[s].dir])'
  BY <1>1, <1>2 DEF Bound, OwnDir, OwnExe
<1> QED BY <1>1, <1>2, <1>3, BoundStep DEF Bound, Running, Accounted

\* A session that raises is bound still.
LEMMA BoundRaise ==
  ASSUME BindInv, NEW s \in Sessions, NEW error, Raise(s, error),
         order' = order, manifest' = manifest, dirs' = dirs,
         proc'[s] = proc[s] \/ proc'[s] = NoProcess
  PROVE  Bound(s)'
<1>1. Bound(s) /\ Tables
  BY DEF BindInv, HilInv
<1>2. at'[s] = "done" /\ evidence'[s] = Failed(error)
  BY <1>1 DEF Raise, Publish, Tables
<1>3. evidence'[s].kind = "raised"
  BY <1>2 DEF Failed
<1> QED BY <1>1, <1>2, <1>3 DEF Bound, OwnManifest, OwnDir, OwnExe, Running, Published, Accounted, Attestation

\* What a session makes of a run is an error, a trace, or accounted for.
LEMMA ReadKinds ==
  ASSUME NEW s, NEW out
  PROVE  LET e == Attested(s, Read(s, out)) IN
         /\ e.kind = "report" /\ e.attestation # <<>> => e.attestation = Attestation(s)
         /\ e.kind = "record" => e.source_manifest_hash = content_hash(manifest[s])
BY DEF Read, Trace, Record, Report, Failed, Attested, Attestation

\* Every step keeps every session bound to its own build and binary.
LEMMA BindStep ==
  ASSUME Separate
  PROVE  BindInv /\ [Next]_vars => BindInv'
<1> SUFFICES ASSUME BindInv, [Next]_vars PROVE BindInv'
  OBVIOUS
<1>1. HilInv'
  BY HilStep DEF BindInv
<1>2. CASE UNCHANGED vars
  BY <1>1, <1>2 DEF vars, hilVars, BindInv, Bound, OwnManifest, OwnDir, OwnExe, Running, Published, Accounted, Attestation
<1>3. CASE Next
  <2>1. PICK s \in Sessions : Client(s) \/ Machine(s)
    BY <1>3 DEF Next
  <2> SUFFICES Bound(s)'
    BY <1>1, <2>1, OthersKept DEF BindInv
  <2>2. /\ Tables /\ order \in Orders /\ Bound(s) /\ order[s].dir \in DOMAIN dirs
        /\ DirOK(Dir(s)) /\ OwnDir(s, Dir(s))
        /\ proc[s] = NoProcess \/ ProcessOK(proc[s])
    BY DEF BindInv, HilInv, SessionOK, Bound, Dir
  <2>3. InScript(s) => /\ at[s] \notin {"build", "generate", "done"}
                       /\ manifest[s] # Nothing /\ ~ Published(s)
    BY <2>2, ScriptSteps DEF Bound, Accounted
  <2>4. CASE Build(s)
    <3>1. CASE Raise(s, "ToolchainError") /\ UNCHANGED <<manifest, dirs>>
      BY <2>4, <3>1, BoundRaise DEF Build
    <3>2. CASE ~ (Raise(s, "ToolchainError") /\ UNCHANGED <<manifest, dirs>>)
      <4>1. PICK when \in Clocks :
              manifest' = [manifest EXCEPT ![s] =
                Manifest(order[s].design.source, detect_toolchain_versions(order[s].target, order[s].env),
                         order[s].target, order[s].design.controller, when)]
        BY <2>4, <3>2 DEF Build
      <4>2. UNCHANGED <<order, proc, evidence>> /\ dirs' = Built(s) /\ at[s] = "build"
        BY <2>4, <3>2 DEF Build
      <4>3. OwnManifest(s, manifest[s])'
        BY <2>2, <4>1, <4>2 DEF OwnManifest, Tables
      <4>4. OwnDir(s, dirs[order[s].dir])'
        BY <2>2, <4>2 DEF Built, OwnDir, OwnExe, Dir, DirOK, DirFields
      <4>5. manifest'[s] # Nothing
        <5>1. manifest'[s] = Manifest(order[s].design.source,
                detect_toolchain_versions(order[s].target, order[s].env), order[s].target,
                order[s].design.controller, when)
          BY <2>2, <4>1 DEF Tables
        <5> QED BY <5>1 DEF Manifest, Nothing
      <4>6. ~ Published(s) /\ (Running(s) => proc[s].exe = OwnExe(s))
        BY <2>2, <4>2 DEF Bound, Accounted
      <4>7. ~ Published(s)' /\ (Running(s)' => proc'[s].exe = OwnExe(s)')
        BY <4>2, <4>6 DEF Published, Running, OwnExe
      <4> QED BY <4>3, <4>4, <4>5, <4>7 DEF Bound
    <3> QED BY <2>4, <3>1, <3>2 DEF Build
  <2>5. CASE Generate(s)
    <3>1. CASE \E error : Raise(s, error)
      BY <2>5, <3>1, BoundRaise DEF Generate
    <3>2. CASE ~ \E error : Raise(s, error)
      <4>1. /\ at[s] = "generate" /\ at' = [at EXCEPT ![s] = Script(s)[1]]
            /\ UNCHANGED <<proc, order, manifest, call, dirs, evidence>>
        BY <2>5, <3>2 DEF Generate
      <4>2. at'[s] # "build"
        <5>1. order[s].place \in {"host", "target", "deployed"}
          BY <2>2, OrdersAssumption
        <5> QED BY <2>2, <4>1, <5>1 DEF Script, Tables
      <4> QED BY <2>2, <4>1, <4>2, BoundStep DEF Bound, Accounted, Dir, OwnDir, OwnExe, Running
    <3> QED BY <3>1, <3>2
  <2>6. CASE Issue(s)
    <3>1. OwnDir(s, dirs[order[s].dir])'
      BY <2>2, <2>6 DEF Issue, OwnDir, OwnExe, Dir, DirOK, DirFields
    <3> QED BY <2>2, <2>3, <2>6, <3>1, BoundStep DEF Issue, Bound, Running
  <2>7. CASE Return(s)
    <3>1. CASE call[s] = "ran"
      <4>1. UNCHANGED <<proc, order, manifest, dirs, evidence>> /\ at' = [at EXCEPT ![s] = Following(s)]
        BY <2>7, <3>1 DEF Return
      <4>2. Bound(s)'
        BY <2>2, <2>3, <2>7, <4>1
           DEF Return, Bound, OwnManifest, OwnDir, OwnExe, Running, Published, Accounted, Attestation
      <4> QED BY <4>2
    <3>2. CASE call[s] # "ran"
      BY <2>7, <3>2, BoundRaise DEF Return
    <3> QED BY <3>1, <3>2
  <2>8. CASE TimeOut(s)
    BY <2>2, <2>8, BoundRaise DEF TimeOut, Tables
  <2>9. CASE LinkLost(s)
    BY <2>9, BoundRaise DEF LinkLost
  <2>10. CASE Conclude(s)
    <3>1. PICK out \in Stdouts(proc[s]) : Publish(s, Attested(s, Read(s, out)))
      BY <2>10 DEF Conclude
    <3>2. /\ UNCHANGED <<proc, order, manifest, dirs>> /\ InScript(s) /\ proc[s].at = "exited"
      <4>1. order[s].place \in {"host", "target", "deployed"}
        BY <2>2, OrdersAssumption
      <4> QED BY <2>10, <4>1 DEF Conclude, InScript, Script, ToSet
    <3>3. at'[s] = "done" /\ evidence'[s] = Attested(s, Read(s, out)) /\ Running(s)
      BY <2>2, <3>1, <3>2 DEF Publish, Tables, Running, NoProcess
    <3> QED BY <2>2, <2>3, <3>2, <3>3, ReadKinds
            DEF Bound, OwnManifest, OwnDir, OwnExe, Running, Published, Accounted, Attestation
  <2>11. CASE Prepare(s)
    <3>1. OwnDir(s, Empty)
      BY DEF OwnDir, Empty
    <3> QED BY <2>11, <3>1, BoundEffect DEF Prepare
  <2>12. CASE Ship(s)
    <3>1. OwnDir(s, [Dir(s) EXCEPT !.main = {OwnExe(s).main}, !.gen = {OwnExe(s).gen}])
      BY <2>2 DEF OwnDir, DirOK, DirFields
    <3> QED BY <2>12, <3>1, BoundEffect DEF Ship
  <2>13. CASE Compile(s)
    <3>1. \A e \in Linked(Dir(s)) : e = OwnExe(s)
      BY <2>2 DEF Linked, OwnDir, OwnExe
    <3>2. OwnDir(s, [Dir(s) EXCEPT !.exe = Linked(Dir(s)), !.executable = TRUE])
      BY <2>2, <3>1 DEF OwnDir, DirOK, DirFields
    <3> QED BY <2>13, <3>2, BoundEffect DEF Compile
  <2>14. CASE Copy(s)
    <3>1. OwnDir(s, [Dir(s) EXCEPT !.exe = {OwnExe(s)}, !.executable = @ /\ Dir(s).exe # {}])
      BY <2>2 DEF OwnDir, DirOK, DirFields
    <3> QED BY <2>14, <3>1, BoundEffect DEF Copy
  <2>15. CASE Chmod(s)
    <3>1. OwnDir(s, [Dir(s) EXCEPT !.executable = TRUE])
      BY <2>2 DEF OwnDir, DirOK, DirFields
    <3> QED BY <2>15, <3>1, BoundEffect DEF Chmod
  <2>16. CASE Run(s)
    <3>1. /\ UNCHANGED <<order, at, manifest, dirs, evidence>>
          /\ proc' = proc \/ \E exe \in Dir(s).exe : proc' = [proc EXCEPT ![s] = Started(exe, Argv(s))]
      BY <2>16 DEF Run
    <3>2. proc'[s] = proc[s] \/ (proc'[s] # NoProcess /\ proc'[s].exe = OwnExe(s))
      BY <2>2, <3>1 DEF Tables, Started, OwnDir, NoProcess
    <3> QED BY <2>2, <3>1, <3>2, BoundStep DEF Bound, Accounted, Running, OwnDir, OwnExe, Dir
  <2>17. CASE Execute(s)
    <3>1. MainStep(s) /\ UNCHANGED <<order, at, manifest, call, dirs, evidence>>
      BY <2>17 DEF Execute, hilVars
    <3>2. proc[s] # NoProcess
      BY <3>1 DEF NoProcess, MainStep, CheckArguments, Create, Solve, Combine, Emit, Advance
    <3>3. PICK q : ProcessOK(q) /\ q.exe = proc[s].exe /\ proc' = [proc EXCEPT ![s] = q]
      BY <2>2, <3>1, <3>2, MainStepOK DEF Tables
    <3>4. q # NoProcess
      BY <3>3, ProcessRuns
    <3>5. proc'[s] # NoProcess /\ proc'[s].exe = OwnExe(s)
      BY <2>2, <3>2, <3>3, <3>4 DEF Tables, Bound, Running
    <3> QED BY <2>2, <3>1, <3>5, BoundStep DEF Running, OwnDir, OwnExe, Dir
  <2> QED
    BY <2>1, <2>4, <2>5, <2>6, <2>7, <2>8, <2>9, <2>10, <2>11, <2>12, <2>13, <2>14, <2>15, <2>16, <2>17
       DEF Client, Machine
<1> QED BY <1>2, <1>3

\* Where no two sessions share a directory, what a session publishes is tied to the
\* binary that ran, and by its attestation to its code, policy and plan.
THEOREM EvidenceBound ==
  ASSUME Separate
  PROVE  Spec => []EvidenceBinds
<1>1. BindInv => EvidenceBinds
  <2> SUFFICES ASSUME BindInv PROVE EvidenceBinds
    OBVIOUS
  <2>1. ASSUME NEW s \in Sessions, Published(s)
        PROVE  /\ proc[s].exe = OwnExe(s) /\ OwnManifest(s, manifest[s]) /\ Accounted(s)
               /\ manifest[s].artifact_content_hash = blake3(proc[s].exe.gen)
    <3>1. proc[s].exe = OwnExe(s) /\ OwnManifest(s, manifest[s]) /\ Accounted(s)
      BY <2>1 DEF BindInv, Bound, Accounted
    <3> QED BY <3>1, ManifestIsSome DEF OwnExe
  <2>2. ASSUME NEW s \in Sessions, NEW t \in Sessions,
               evidence[s].kind = "report", evidence[t].kind = "report",
               evidence[s].attestation # <<>>, evidence[s].attestation = evidence[t].attestation
        PROVE  /\ proc[s].exe.gen = proc[t].exe.gen
               /\ proc[s].exe.main.layers = proc[t].exe.main.layers
               /\ proc[s].exe.main.plan = proc[t].exe.main.plan
    <3>1. /\ content_hash(manifest[s]) = content_hash(manifest[t])
          /\ blake3(OwnExe(s).main.layers) = blake3(OwnExe(t).main.layers)
          /\ blake3(order[s].design.plan) = blake3(order[t].design.plan)
      <4>1. Attestation(s) = Attestation(t)
        BY <2>1, <2>2 DEF Published, Accounted
      <4>2. attest_dual_path(manifest[s], OwnExe(s).main.layers, order[s].design.plan)
              = attest_dual_path(manifest[t], OwnExe(t).main.layers, order[t].design.plan)
        BY <4>1 DEF Attestation
      <4> QED BY <4>2, AttestationInjective
    <3>2. manifest[s].artifact_content_hash = manifest[t].artifact_content_hash
      <4>1. content_payload(manifest[s]) = content_payload(manifest[t])
        BY <3>1, HashInjective
      <4>2. content_payload(manifest[s])["artifact_content_hash"]
              = content_payload(manifest[t])["artifact_content_hash"]
        BY <4>1
      <4> QED BY <4>2 DEF content_payload, CONTENT_FIELDS
    <3>3. blake3(proc[s].exe.gen) = blake3(proc[t].exe.gen)
      BY <2>1, <2>2, <3>2 DEF Published
    <3>4. order[s].design.plan = order[t].design.plan /\ OwnExe(s).main.layers = OwnExe(t).main.layers
      BY <3>1 DEF blake3
    <3>5. proc[s].exe = OwnExe(s) /\ proc[t].exe = OwnExe(t)
      BY <2>1, <2>2 DEF Published
    <3>6. OwnExe(s).main.plan = order[s].design.plan /\ OwnExe(t).main.plan = order[t].design.plan
      BY DEF OwnExe, Program
    <3> QED BY <3>3, <3>4, <3>5, <3>6 DEF blake3
  <2> QED BY <2>1, <2>2 DEF EvidenceBinds, Published
<1> QED BY <1>1, BindInit, BindStep, PTL DEF Spec

\* There a registry that holds a manifest against a published record accepts what
\* was measured and its rebuilds, and nothing of other code.
THEOREM RegistrySound ==
  ASSUME Separate
  PROVE  Spec => []RegistryVerdicts
<1>1. BindInv => RegistryVerdicts
  <2> SUFFICES ASSUME BindInv, NEW s \in Sessions, NEW t \in Sessions,
                      evidence[s].kind = "record", manifest[t] # Nothing
               PROVE  LET Verdict(m) == verify_cli(File(m), TRUE, {evidence[s].source_manifest_hash}) IN
                      /\ \A m \in Received(manifest[t]) :
                           Verdict(m) = 0 => /\ m.artifact_content_hash = blake3(proc[s].exe.gen)
                                             /\ m.signature = None
                      /\ order[t].design = order[s].design /\ order[t].env = order[s].env
                           /\ order[t].target = order[s].target => Verdict(manifest[t]) = 0
    BY DEF RegistryVerdicts
  <2> DEFINE digest == evidence[s].source_manifest_hash
  <2>1. /\ digest = content_hash(manifest[s]) /\ proc[s].exe = OwnExe(s)
        /\ OwnManifest(s, manifest[s]) /\ OwnManifest(t, manifest[t])
    BY DEF BindInv, Bound, Published, Accounted
  <2>2. ASSUME NEW m
        PROVE  verify_cli(File(m), TRUE, {digest}) = 0 <=>
                 /\ m.schema_version = SCHEMA_VERSION_V0 /\ content_hash(m) = digest
                 /\ SignerKnown(m.signer_identity) /\ HashChainVerify(content_hash(m), m.signature)
    BY DEF verify_cli, verify_manifest, File
  <2>3. ASSUME NEW m, verify_cli(File(m), TRUE, {digest}) = 0
        PROVE  m.artifact_content_hash = blake3(proc[s].exe.gen) /\ m.signature = None
    <3>1. content_payload(m) = content_payload(manifest[s])
      BY <2>1, <2>2, <2>3, HashInjective
    <3>2. content_payload(m)["artifact_content_hash"] = content_payload(manifest[s])["artifact_content_hash"]
      BY <3>1
    <3>3. m.artifact_content_hash = manifest[s].artifact_content_hash
      BY <3>2 DEF content_payload, CONTENT_FIELDS
    <3>4. manifest[s].artifact_content_hash = blake3(proc[s].exe.gen)
      BY <2>1, ManifestIsSome DEF OwnExe
    <3> QED BY <2>2, <2>3, <3>3, <3>4 DEF HashChainVerify
  <2>4. ASSUME order[t].design = order[s].design, order[t].env = order[s].env,
               order[t].target = order[s].target
        PROVE  verify_cli(File(manifest[t]), TRUE, {digest}) = 0
    <3>1. content_payload(manifest[t]) = content_payload(manifest[s])
      BY <2>1, <2>4, ManifestIsSome DEF content_payload, CONTENT_FIELDS
    <3>2. content_hash(manifest[t]) = digest
      BY <2>1, <3>1 DEF content_hash
    <3>3. /\ manifest[t].schema_version = SCHEMA_VERSION_V0
          /\ manifest[t].signer_identity = None /\ manifest[t].signature = None
      BY <2>1, ManifestIsSome
    <3> QED BY <2>2, <3>2, <3>3 DEF SignerKnown, HashChainVerify, content_hash, blake3
  <2> QED BY <2>3, <2>4
<1> QED BY <1>1, BindInit, BindStep, PTL DEF Spec

(***************************************************************************)
(* What the host computes, and what a binary prints.                       *)
(***************************************************************************)
\* A report is asked for by a HIL job that is not run for a fallback.
Judged(s) == ~ Benchmark(s) /\ ~ Direct(s)

Row(x, u) == [x |-> x, cmd |-> u]

HostRow(r) ==
  /\ r = Row(r.x, r.cmd)
  /\ r.x \in Seq(Numbers) /\ Len(r.x) >= 2
  /\ r.cmd \in Seq(Numbers) /\ Len(r.cmd) = 1

\* A quantity of the trace has one name, and is one entry of state or command.
LEMMA TraceNames ==
  /\ Quantities(CARTPOLE_LQR_TRACE) = {"joint_position", "joint_velocity", "actuator_torque"}
  /\ \A t \in CARTPOLE_LQR_TRACE, v \in CARTPOLE_LQR_TRACE : t.name = v.name => t = v
BY DEF Quantities, CARTPOLE_LQR_TRACE, Quantity

LEMMA SliceIs ==
  ASSUME NEW t \in CARTPOLE_LQR_TRACE, NEW r, HostRow(r)
  PROVE  /\ Slice(t, r.x, r.cmd) \in Seq(Numbers)
         /\ Len(Slice(t, r.x, r.cmd)) = 1
<1> DEFINE v == IF t.buffer = "x" THEN r.x ELSE r.cmd
<1>1. v \in Seq(Numbers) /\ t.start + 1 \in 1 .. Len(v) /\ t.length = 1 /\ t.start \in Nat
  BY SMTT(30) DEF CARTPOLE_LQR_TRACE, Quantity, HostRow
<1>2. Slice(t, r.x, r.cmd) = SubSeq(v, t.start + 1, t.start + 1)
  BY <1>1 DEF Slice
<1> HIDE DEF v
<1> DEFINE k == t.start + 1
<1>3. k \in 1 .. Len(v) /\ Slice(t, r.x, r.cmd) = SubSeq(v, k, k)
  <2>1. t.start + 1 \in 1 .. Len(v)
    BY <1>1
  <2> QED BY ONLY <2>1, <1>2, Zenon
<1> HIDE DEF k
<1>4. SubSeq(v, k, k) \in Seq(Numbers) /\ Len(SubSeq(v, k, k)) = 1
  BY <1>1, <1>3, SubSeqProperties
<1> QED BY <1>3, <1>4

\* The host's command for a state is one number.
LEMMA HostCommandIs ==
  ASSUME ResidualPlans, order \in Orders, NEW s \in Sessions,
         Generates(order[s].job, order[s].design), Comparable(s), Judged(s),
         NEW x
  PROVE  HostCommand(OwnExe(s), x) \in Seq(Numbers) /\ Len(HostCommand(OwnExe(s), x)) = 1
<1> DEFINE exe == OwnExe(s)
           d == order[s].design
           env == d.plan.safety_envelope
           mpc == Control(exe.gen, x)
<1>1. mpc \in Seq(Numbers) /\ Len(mpc) = 1
  BY NumbersClosed DEF Control
<1>2. CASE exe.main.layers = <<>>
  BY <1>1, <1>2 DEF HostCommand
<1>3. CASE exe.main.layers # <<>>
  <2>1. order[s].job = "dual_hil" /\ exe.main.plan = d.plan
    BY <1>3 DEF OwnExe, Program, Judged, Benchmark
  <2>2. /\ env.input_lower \in Seq(Numbers) /\ env.input_upper \in Seq(Numbers)
        /\ d.plan.mode = "residual"
    BY OrdersAssumption DEF ResidualPlans
  <2>3. Len(env.input_lower) = 1
    <3>1. Len(Control(d.controller, d.x0)) = 1
      BY DEF Control
    <3> QED BY <2>1, <3>1 DEF Comparable, Fits
  <2>4. Len(env.input_upper) = 1
    BY <2>1, <2>2, <2>3 DEF Generates, PlanValid, EnvelopeValid, Paired
  <2>5. env.input_lower[1] \in Numbers /\ env.input_upper[1] \in Numbers
    BY <2>2, <2>3, <2>4
  <2> DEFINE pol == forward(exe.main.layers, x)
             reason == FallbackReason(d.plan, x, FALSE)
             u == IF reason = "none" THEN Combined(d.plan, mpc, pol) ELSE mpc
  <2>6. HostCommand(exe, x) = clamp_input(env, u)
    BY <1>3, <2>1 DEF HostCommand, arbitrate
  <2> HIDE DEF pol, reason, env, mpc
  <2>7. u \in Seq(Numbers) /\ Len(u) = 1
    <3>1. Combined(d.plan, mpc, pol) = [j \in 1 .. 1 |-> Plus(mpc[j], pol[j])]
      BY <1>1, <2>2 DEF Combined
    <3>2. Plus(mpc[1], pol[1]) \in Numbers
      BY NumbersClosed
    <3>3. Combined(d.plan, mpc, pol) \in Seq(Numbers) /\ Len(Combined(d.plan, mpc, pol)) = 1
      BY <3>1, <3>2, IsASeq
    <3> QED BY <1>1, <3>3
  <2> HIDE DEF u
  <2>8. clamp_input(env, u) = [j \in 1 .. 1 |-> Clip(u[j], env.input_lower[j], env.input_upper[j])]
    BY <2>7 DEF clamp_input
  <2>9. Clip(u[1], env.input_lower[1], env.input_upper[1]) \in Numbers
    <3>1. u[1] \in Numbers
      BY <2>7
    <3> QED BY ONLY <2>5, <3>1, ClipBounds
  <2>10. clamp_input(env, u) \in Seq(Numbers) /\ Len(clamp_input(env, u)) = 1
    BY <2>8, <2>9, IsASeq
  <2> QED BY <2>6, <2>10
<1> QED BY <1>2, <1>3

HostValues == {r \in [x : Seq(Numbers), cmd : Seq(Numbers)] : Len(r.x) >= 2 /\ Len(r.cmd) = 1}

LEMMA HostValuesAre == \A r \in HostValues : HostRow(r)
BY DEF HostValues, HostRow, Row

\* The state and the command of every cycle of the host are numbers.
LEMMA HostRowsAre ==
  ASSUME ResidualPlans, order \in Orders, NEW s \in Sessions,
         Generates(order[s].job, order[s].design), Comparable(s), Judged(s),
         NEW n \in Nat, NEW seed
  PROVE  \A i \in 1 .. n : HostRow(HostRows(OwnExe(s), n, seed)[i])
<1> DEFINE exe == OwnExe(s)
           After(x) == [x |-> x, cmd |-> HostCommand(exe, x)]
           first == After(Seeded(exe.main.x0, seed))
           Body(f, i) == IF i = 1 THEN first ELSE After(Plant(f[i - 1].x, f[i - 1].cmd))
           IsRows(f) == f = [i \in 1 .. n |-> Body(f, i)]
           rows == HostRows(exe, n, seed)
<1>1. ASSUME NEW x \in Seq(Numbers), Len(x) >= 2 PROVE After(x) \in HostValues
  BY <1>1, HostCommandIs DEF HostValues
<1>2. first \in HostValues
  <2>1. exe.main.x0 \in Seq(Numbers) /\ Len(exe.main.x0) >= 2
    BY OrdersAssumption DEF OwnExe, Program
  <2> HIDE DEF exe
  <2> QED BY <1>1, <2>1, SeededOK
<1>3. ASSUME NEW r \in HostValues PROVE After(Plant(r.x, r.cmd)) \in HostValues
  <2> DEFINE x == r.x
             u == r.cmd
  <2>2. x \in Seq(Numbers) /\ Len(x) >= 2
    BY DEF HostValues
  <2>3. Plant(x, u) \in Seq(Numbers) /\ Len(Plant(x, u)) = Len(x)
    BY <2>2, PlantIs
  <2>1. Plant(x, u) \in Seq(Numbers) /\ Len(Plant(x, u)) >= 2
    BY ONLY <2>2, <2>3
  <2> HIDE DEF exe, After, x, u
  <2>4. After(Plant(x, u)) \in HostValues
    BY <1>1, <2>1, SMTT(30)
  <2> QED BY <2>4 DEF x, u
<1>4. rows = CHOOSE f : IsRows(f)
  BY DEF HostRows
<1> HIDE DEF exe, rows, first, After
<1>5. \E f : IsRows(f)
  <2> DEFINE next == [e \in HostValues \X (1 .. n) |->
                        IF e[2] = 1 THEN first ELSE After(Plant(e[1].x, e[1].cmd))]
  <2>1. next \in [HostValues \X (1 .. n) -> HostValues]
    BY <1>2, <1>3
  <2>2. \A v \in HostValues, k \in 1 .. n :
          next[<<v, k>>] = IF k = 1 THEN first ELSE After(Plant(v.x, v.cmd))
    OBVIOUS
  <2> HIDE DEF next
  <2>3. PICK p \in [0 .. n -> HostValues] : Steps(p, first, next, n)
    BY <1>2, <2>1, StepsExist
  <2> DEFINE f == [i \in 1 .. n |-> p[i]]
  <2>4. ASSUME NEW i \in 1 .. n PROVE f[i] = Body(f, i)
    <3>1. f[i] = p[i] /\ (i # 1 => f[i - 1] = p[i - 1])
      OBVIOUS
    <3>2. p[i] = next[<<p[i - 1], i>>] /\ p[i - 1] \in HostValues
      BY <2>3 DEF Steps
    <3>3. p[i] = IF i = 1 THEN first ELSE After(Plant(p[i - 1].x, p[i - 1].cmd))
      BY <2>2, <3>2
    <3> HIDE DEF f
    <3> QED BY <3>1, <3>3
  <2>5. f = [i \in 1 .. n |-> f[i]]
    OBVIOUS
  <2> HIDE DEF f
  <2>6. IsRows(f)
    BY <2>4, <2>5
  <2> QED BY <2>6
<1>6. IsRows(rows)
  BY <1>4, <1>5
<1>7. \A i \in 1 .. n : rows[i] \in HostValues
  <2> DEFINE T == {k \in 0 .. n : k # 0 => rows[k] \in HostValues}
  <2>1. ASSUME NEW k \in 0 .. (n - 1), k \in T PROVE k + 1 \in T
    <3>1. k + 1 \in 1 .. n /\ k + 1 \in 0 .. n
      OBVIOUS
    <3>2. rows[k + 1] = IF k + 1 = 1 THEN first ELSE After(Plant(rows[k + 1 - 1].x, rows[k + 1 - 1].cmd))
      BY <1>6, <3>1
    <3>3. CASE k = 0
      BY <1>2, <3>1, <3>2, <3>3
    <3>4. CASE k # 0
      <4>1. rows[k] \in HostValues /\ k + 1 - 1 = k /\ k + 1 # 1
        BY <2>1, <3>4
      <4>2. rows[k + 1] = After(Plant(rows[k].x, rows[k].cmd))
        BY <3>2, <4>1
      <4>3. rows[k + 1] \in HostValues
        BY <1>3, <4>1, <4>2
      <4> QED BY <3>1, <4>3
    <3> QED BY <3>3, <3>4
  <2>2. 0 \in T
    OBVIOUS
  <2>3. \A k \in 0 .. (n - 1) : k \in T => k + 1 \in T
    BY <2>1
  <2> HIDE DEF T
  <2>4. \A k \in 0 .. n : k \in T
    BY <2>2, <2>3, UpTo
  <2> QED BY <2>4 DEF T
<1> QED BY <1>7, HostValuesAre DEF rows, exe

\* So what the host expects is one number for each quantity and cycle.
LEMMA ReferenceIs ==
  ASSUME ResidualPlans, order \in Orders, NEW s \in Sessions,
         Generates(order[s].job, order[s].design), Comparable(s), Judged(s),
         NEW n \in Nat, NEW seed
  PROVE  LET host == Reference(OwnExe(s), n, seed) IN
         /\ DOMAIN host = Quantities(CARTPOLE_LQR_TRACE)
         /\ \A q \in DOMAIN host :
              /\ DOMAIN host[q] = 1 .. n /\ Len(host[q]) = n
              /\ \A i \in 1 .. n : host[q][i] \in Seq(Numbers) /\ Len(host[q][i]) = 1
<1> DEFINE rows == HostRows(OwnExe(s), n, seed)
           host == Reference(OwnExe(s), n, seed)
           T(q) == CHOOSE t \in CARTPOLE_LQR_TRACE : t.name = q
<1>1. host = [q \in Quantities(CARTPOLE_LQR_TRACE) |->
                [i \in 1 .. n |-> Slice(T(q), rows[i].x, rows[i].cmd)]]
  BY DEF Reference
<1>2. \A i \in 1 .. n : HostRow(rows[i])
  BY HostRowsAre
<1>3. \A q \in Quantities(CARTPOLE_LQR_TRACE) : T(q) \in CARTPOLE_LQR_TRACE
  BY DEF Quantities
<1> HIDE DEF rows, host, T
<1>4. ASSUME NEW q \in Quantities(CARTPOLE_LQR_TRACE)
      PROVE  /\ DOMAIN host[q] = 1 .. n /\ Len(host[q]) = n
             /\ \A i \in 1 .. n : host[q][i] \in Seq(Numbers) /\ Len(host[q][i]) = 1
  <2>1. host[q] = [i \in 1 .. n |-> Slice(T(q), rows[i].x, rows[i].cmd)]
    BY <1>1
  <2>2. \A i \in 1 .. n : host[q][i] \in Seq(Numbers) /\ Len(host[q][i]) = 1
    BY <1>2, <1>3, <2>1, SliceIs
  <2>3. DOMAIN host[q] = 1 .. n /\ Len(host[q]) = n
    BY <2>1
  <2> QED BY <2>2, <2>3
<1> QED BY <1>1, <1>4 DEF host

(***************************************************************************)
(* A report that passed.                                                   *)
(***************************************************************************)
Faithful(s) ==
  LET o == order[s]
      host == expected[s]
  IN /\ Len(proc[s].ran) = o.n
     /\ \A q \in DOMAIN host, i \in 1 .. o.n :
          NaN \notin ToSet(host[q][i]) =>
            Close(Tolerances[<<o.family, o.dtype, q>>], host[q][i], Executed(s, q, i))

\* A parsed output has no line in it that is not the binary's.
LEMMA ParsedIsPrinted ==
  ASSUME NEW p, ProcessOK(p), p.rc = 0 \/ ~ Timing(p.exe.main), NEW out \in Stdouts(p), NEW schema, NEW n \in Int, Parses(out, schema, n)
  PROVE  /\ ~ Timing(p.exe.main) /\ Len(p.ran) = n /\ DOMAIN p.ran = 1 .. n
         /\ \A i \in 1 .. n : out[i] = Line(p.exe.main.trace, i - 1, p.ran[i])
<1> DEFINE lines == Printed(p)
           Lines == {lines[i] : i \in DOMAIN lines} \union {Banner}
<1>1. p.ran \in Seq(Rows(p.exe))
  BY DEF ProcessOK
<1>2. \A i \in 1 .. n : out[i].json /\ "step" \in DOMAIN out[i]
  BY DEF Parses
<1>3. Len(out) = n
  BY DEF Parses
<1>4. lines \in Seq(Lines)
  <2>1. \E k \in Nat : DOMAIN lines = 1 .. k /\ lines = [i \in 1 .. k |-> lines[i]]
    <3>1. CASE Timing(p.exe.main)
      <4>1. lines = <<[json |-> TRUE, samples |-> Len(p.ran) - Warmup]>>
        BY <3>1 DEF Printed
      <4> HIDE DEF lines
      <4> QED BY <4>1
    <3>2. CASE ~ Timing(p.exe.main)
      <4>1. DOMAIN p.ran = 1 .. Len(p.ran) /\ Len(p.ran) \in Nat
        BY <1>1, LenProperties
      <4>2. lines = [i \in DOMAIN p.ran |-> Line(p.exe.main.trace, i - 1, p.ran[i])]
        BY <3>2 DEF Printed
      <4> HIDE DEF lines
      <4> QED BY <4>1, <4>2
    <3> QED BY <3>1, <3>2
  <2>2. PICK k \in Nat : DOMAIN lines = 1 .. k /\ lines = [i \in 1 .. k |-> lines[i]]
    BY <2>1
  <2>3. \A i \in 1 .. k : lines[i] \in Lines
    BY <2>2
  <2> HIDE DEF lines, Lines
  <2> QED BY <2>2, <2>3, IsASeq
<1>5. Banner \in Lines /\ ~ Banner.json
  BY DEF Banner
<1>6. out \in {lines, <<Banner>> \o lines, Append(lines, Banner)}
  BY DEF Stdouts
<1> HIDE DEF Lines
<1>7. out = lines
  <2>1. CASE out = <<Banner>> \o lines
    <3>1. <<Banner>> \in Seq(Lines) /\ Len(<<Banner>>) = 1
      BY <1>5
    <3> HIDE DEF lines
    <3>2. Len(out) = 1 + Len(lines) /\ out[1] = Banner
      BY <1>4, <2>1, <3>1, ConcatProperties
    <3>3. 1 \in 1 .. n
      BY <1>3, <1>4, <3>2, LenProperties
    <3> QED BY <1>2, <1>5, <3>2, <3>3
  <2>2. CASE out = Append(lines, Banner)
    <3> HIDE DEF lines
    <3>1. Len(out) = Len(lines) + 1 /\ out[Len(lines) + 1] = Banner /\ Len(lines) \in Nat
      BY <1>4, <1>5, <2>2, AppendProperties, LenProperties
    <3>2. Len(lines) + 1 \in 1 .. n
      BY <1>3, <3>1
    <3> QED BY <1>2, <1>5, <3>1, <3>2
  <2> QED BY <1>6, <2>1, <2>2
<1>8. ~ Timing(p.exe.main)
  <2> SUFFICES ASSUME Timing(p.exe.main) PROVE FALSE
    OBVIOUS
  <2>1. lines = <<[json |-> TRUE, samples |-> Len(p.ran) - Warmup]>>
    BY DEF Printed
  <2>2. 1 \in 1 .. n /\ out[1] = [json |-> TRUE, samples |-> Len(p.ran) - Warmup]
    BY <1>3, <1>7, <2>1
  <2> QED BY <1>2, <2>2
<1>9. out = [i \in DOMAIN p.ran |-> Line(p.exe.main.trace, i - 1, p.ran[i])]
  BY <1>7, <1>8 DEF Printed
<1>10. DOMAIN p.ran = 1 .. Len(p.ran) /\ Len(p.ran) \in Nat
  BY <1>1, LenProperties
<1>11. Len(out) = Len(p.ran)
  BY <1>9, <1>10
<1> QED BY <1>3, <1>8, <1>9, <1>10, <1>11

\* A report is read of a run that exited 0 and whose output parsed, by a comparison
\* of the same quantities and as many steps as the host has.
LEMMA ReportIs ==
  ASSUME NEW s, NEW out, Read(s, out).kind = "report", Read(s, out).passed
  PROVE  LET o == order[s]
             candidate == parse_trace(out, o.schema, o.n)
         IN /\ Judged(s) /\ proc[s].rc = 0 /\ Parses(out, o.schema, o.n)
            /\ DOMAIN candidate = DOMAIN expected[s]
            /\ \A q \in DOMAIN expected[s] :
                 /\ <<o.family, o.dtype, q>> \in DOMAIN Tolerances
                 /\ SameShape(expected[s][q], candidate[q])
                 /\ Passes(Tolerances[<<o.family, o.dtype, q>>], expected[s][q], candidate[q])
<1> DEFINE o == order[s]
           candidate == parse_trace(out, o.schema, o.n)
           verdict == compare(expected[s], candidate, o.family, o.dtype)
<1>1. Judged(s) /\ proc[s].rc = 0 /\ Read(s, out) = Report(s, out)
  BY DEF Read, Trace, Record, Failed, Judged
<1>2. /\ Parses(out, o.schema, o.n)
      /\ verdict.kind # "raised" /\ verdict.passed
  BY <1>1 DEF Report, Failed
<1> HIDE DEF candidate
<1>3. /\ DOMAIN candidate = DOMAIN expected[s]
      /\ \A q \in DOMAIN expected[s] :
           /\ <<o.family, o.dtype, q>> \in DOMAIN Tolerances
           /\ SameShape(expected[s][q], candidate[q])
  BY <1>2 DEF compare, Failed
<1>4. verdict = [kind |-> "report",
                 passed |-> \A q \in DOMAIN expected[s] :
                              Passes(Tolerances[<<o.family, o.dtype, q>>], expected[s][q], candidate[q])]
  BY <1>3 DEF compare
<1> QED BY <1>1, <1>2, <1>3, <1>4 DEF candidate

\* Entries that are no violation, and are numbers, are close.
LEMMA NoViolation ==
  ASSUME NEW tol, tol.abs \in Nat, NEW a \in Seq(Numbers), NEW b \in Seq(Numbers),
         Len(a) = 1, Len(b) = 1, NaN \notin ToSet(a), NaN \notin ToSet(b), ~ StepViolates(tol, a, b)
  PROVE  Close(tol, a, b)
<1>1. a[1] \in Numbers /\ b[1] \in Numbers /\ DOMAIN a = {1} /\ DOMAIN b = {1}
  OBVIOUS
<1>2. a[1] # NaN /\ b[1] # NaN
  BY <1>1 DEF ToSet
<1>3. a[1] \in Int /\ b[1] \in Int
  BY <1>1, <1>2, NumbersAssumption DEF Numbers, Finite
<1>4. ~ AbsExceeds(tol, a[1], b[1]) \/ ~ RelExceeds(tol, a[1], b[1])
  BY <1>1 DEF StepViolates
<1>5. ~ AbsExceeds(tol, a[1], b[1]) => b[1] \in a[1] - tol.abs .. a[1] + tol.abs
  BY <1>3 DEF AbsExceeds, Magnitude
<1> QED BY <1>1, <1>4, <1>5 DEF Close

\* What was printed of a quantity is what the binary had for it.
LEMMA PrintedIsExecuted ==
  ASSUME NEW s, NEW trace \in SUBSET CARTPOLE_LQR_TRACE, NEW q \in Quantities(trace), NEW i, NEW j,
         HostRow(proc[s].ran[i]), Line(trace, j, proc[s].ran[i]).json
  PROVE  LET v == Line(trace, j, proc[s].ran[i]).values[q] IN
         /\ v = Executed(s, q, i) /\ v \in Seq(Numbers) /\ Len(v) = 1 /\ NaN \notin ToSet(v)
<1> DEFINE r == proc[s].ran[i]
           v == Line(trace, j, r).values[q]
           t == CHOOSE t \in trace : t.name = q
           c == CHOOSE c \in CARTPOLE_LQR_TRACE : c.name = q
<1>1. t \in trace /\ t.name = q
  BY DEF Quantities
<1>2. c \in CARTPOLE_LQR_TRACE /\ c.name = q
  BY <1>1
<1> HIDE DEF t, c
<1>3. t = c
  BY <1>1, <1>2, TraceNames
<1>4. v = Slice(t, r.x, r.cmd) /\ NaN \notin ToSet(v)
  BY DEF Line, t
<1>5. Executed(s, q, i) = Slice(c, r.x, r.cmd)
  BY DEF Executed, c
<1>6. Slice(c, r.x, r.cmd) \in Seq(Numbers) /\ Len(Slice(c, r.x, r.cmd)) = 1
  BY <1>2, SliceIs
<1> HIDE DEF v, r
<1> QED BY <1>3, <1>4, <1>5, <1>6 DEF v, r

\* So a report that passed is faithful.
LEMMA ReadFaithful ==
  ASSUME TracesKnown, ResidualPlans, order \in Orders, NEW s \in Sessions,
         ProcessOK(proc[s]), Generates(order[s].job, order[s].design), Comparable(s),
         expected[s] = Reference(OwnExe(s), order[s].nref, order[s].seed),
         NEW out \in Stdouts(proc[s]), Read(s, out).kind = "report", Read(s, out).passed
  PROVE  Faithful(s)
<1> DEFINE o == order[s]
           p == proc[s]
           host == expected[s]
           candidate == parse_trace(out, o.schema, o.n)
           tol(q) == Tolerances[<<o.family, o.dtype, q>>]
<1>1. /\ Judged(s) /\ p.rc = 0 /\ Parses(out, o.schema, o.n)
      /\ DOMAIN candidate = DOMAIN host
      /\ \A q \in DOMAIN host :
           /\ tol(q).abs \in Nat
           /\ SameShape(host[q], candidate[q]) /\ Passes(tol(q), host[q], candidate[q])
  BY ReportIs, ToleranceAssumption
<1>2. o.n \in Int /\ o.nref \in Nat
  BY OrdersAssumption
<1>3. /\ ~ Timing(p.exe.main) /\ Len(p.ran) = o.n /\ DOMAIN p.ran = 1 .. o.n
      /\ \A i \in 1 .. o.n : out[i] = Line(p.exe.main.trace, i - 1, p.ran[i])
  BY <1>1, <1>2, ParsedIsPrinted
<1>4. /\ DOMAIN host = Quantities(CARTPOLE_LQR_TRACE)
      /\ \A q \in DOMAIN host :
           /\ Len(host[q]) = o.nref /\ DOMAIN host[q] = 1 .. o.nref
           /\ \A i \in 1 .. o.nref : host[q][i] \in Seq(Numbers) /\ Len(host[q][i]) = 1
  BY <1>1, <1>2, ReferenceIs, SMTT(30)
<1>5. p.exe.main.trace \in SUBSET CARTPOLE_LQR_TRACE /\ p.ran \in Seq(Rows(p.exe))
  BY DEF ProcessOK, ExeOK, ProgramOK
<1>6. ASSUME NEW q \in DOMAIN host, NEW i \in 1 .. o.n, NaN \notin ToSet(host[q][i])
      PROVE  Close(tol(q), host[q][i], Executed(s, q, i))
  <2>1. candidate = [k \in DOMAIN o.schema |-> [j \in 1 .. o.n |-> out[j].values[k]]]
    BY DEF parse_trace
  <2>2. DOMAIN o.schema = DOMAIN host /\ candidate[q] = [j \in 1 .. o.n |-> out[j].values[q]]
    BY <1>1, <2>1
  <2>3. out[i].json /\ DOMAIN out[i].values = DOMAIN o.schema
    BY <1>1 DEF Parses, Matches
  <2>4. out[i] = Line(p.exe.main.trace, i - 1, p.ran[i])
    BY <1>3
  <2>5. q \in Quantities(p.exe.main.trace)
    BY <2>2, <2>3, <2>4 DEF Line
  <2>6. HostRow(p.ran[i])
    <3>1. p.ran[i] \in Rows(p.exe)
      BY <1>3, <1>5, ElementOfSeq
    <3> QED BY <3>1 DEF Rows, CmdOK, HostRow, Row
  <2> DEFINE v == out[i].values[q]
  <2>7. v = Executed(s, q, i) /\ v \in Seq(Numbers) /\ Len(v) = 1 /\ NaN \notin ToSet(v)
    <3> DEFINE trace == p.exe.main.trace
    <3>1. trace \in SUBSET CARTPOLE_LQR_TRACE
      BY <1>5
    <3>2. q \in Quantities(trace)
      BY <2>5
    <3>3. Line(trace, i - 1, proc[s].ran[i]).json
      BY <2>3, <2>4
    <3>4. HostRow(proc[s].ran[i])
      BY <2>6
    <3>5. v = Line(trace, i - 1, proc[s].ran[i]).values[q]
      BY <2>4
    <3>6. LET e == Line(trace, i - 1, proc[s].ran[i]).values[q] IN
          e = Executed(s, q, i) /\ e \in Seq(Numbers) /\ Len(e) = 1 /\ NaN \notin ToSet(e)
      <4> HIDE DEF trace, v
      <4> QED BY ONLY <3>1, <3>2, <3>3, <3>4, PrintedIsExecuted, ZenonT(30)
    <3> HIDE DEF trace, v
    <3> QED BY <3>5, <3>6
  <2>8. candidate[q][i] = v /\ Len(candidate[q]) = o.n
    BY <1>2, <1>3, <2>2, <1>5, LenProperties
  <2>9. o.nref = o.n
    BY <1>1, <1>4, <2>8 DEF SameShape
  <2>10. ~ StepViolates(tol(q), host[q][i], v)
    BY <1>1, <1>4, <2>8, <2>9 DEF Passes
  <2> HIDE DEF v, candidate, host
  <2> QED BY <1>1, <1>4, <1>6, <2>7, <2>9, <2>10, NoViolation
<1> QED BY <1>3, <1>6 DEF Faithful

\* To attest a report changes nothing of what it says.
LEMMA AttestedIs ==
  ASSUME NEW s, NEW e
  PROVE  /\ Attested(s, e).kind = e.kind
         /\ e.kind = "report" => Attested(s, e).passed = e.passed
BY DEF Attested

\* What is parsed of a run is of numbers, the commands of a binary with a policy too.
LEMMA ReadNumeric ==
  ASSUME order \in Orders, NEW s \in Sessions, ProcessOK(proc[s]), Main(s).kind = "dual_hil",
         NEW out \in Stdouts(proc[s]), Read(s, out).kind \in {"report", "trace"}
  PROVE  Numeric(s)
<1> DEFINE o == order[s]
           p == proc[s]
<1>1. Parses(out, o.schema, o.n)
  BY DEF Read, Trace, Record, Report, Failed
<1>2. p.exe.main.kind = "dual_hil" /\ ~ Timing(p.exe.main) /\ Composed(p.exe.main)
  BY DEF Main, Timing, Composed
<1>3. o.n \in Int
  BY OrdersAssumption
<1>4. /\ DOMAIN p.ran = 1 .. o.n
      /\ \A i \in 1 .. o.n : out[i] = Line(p.exe.main.trace, i - 1, p.ran[i])
  BY <1>1, <1>2, <1>3, ParsedIsPrinted
<1>5. p.exe.main.trace = CARTPOLE_LQR_TRACE /\ p.ran \in Seq(Rows(p.exe))
  BY <1>2 DEF ProcessOK, ExeOK, ProgramOK
<1>6. ASSUME NEW k \in DOMAIN p.ran PROVE NaN \notin ToSet(p.ran[k].cmd)
  <2> DEFINE r == p.ran[k]
             torque == Quantity("actuator_torque", "u", 0, 1)
  <2>1. k \in 1 .. o.n /\ out[k] = Line(CARTPOLE_LQR_TRACE, k - 1, r)
    BY <1>4, <1>5
  <2>2. out[k].json
    BY <1>1, <2>1 DEF Parses
  <2>3. r.cmd \in Seq(Numbers) /\ Len(r.cmd) = 1
    BY <1>5, ElementOfSeq DEF Rows, CmdOK
  <2>4. torque \in CARTPOLE_LQR_TRACE /\ torque.name = "actuator_torque"
    BY DEF CARTPOLE_LQR_TRACE, Quantity
  <2>5. (CHOOSE q \in CARTPOLE_LQR_TRACE : q.name = "actuator_torque") = torque
    BY <2>4, TraceNames
  <2> HIDE DEF r
  <2>6. "actuator_torque" \in Quantities(CARTPOLE_LQR_TRACE)
    BY TraceNames
  <2>7. NaN \notin ToSet(Slice(torque, r.x, r.cmd))
    BY <2>1, <2>2, <2>5, <2>6 DEF Line
  <2>8. Slice(torque, r.x, r.cmd) = SubSeq(r.cmd, 1, 1)
    BY DEF Slice, Quantity
  <2>9. ToSet(r.cmd) = ToSet(SubSeq(r.cmd, 1, 1))
    BY <2>3 DEF ToSet
  <2> QED BY <2>7, <2>8, <2>9 DEF r
<1> QED BY <1>6 DEF Numeric

(***************************************************************************)
(* What was expected stays, and a process whose run was read stays as it   *)
(* was when it was read.                                                   *)
(***************************************************************************)
Expected(s) ==
  expected[s] = IF Generates(order[s].job, order[s].design) /\ Comparable(s) /\ ~ Benchmark(s)
                THEN Reference(OwnExe(s), order[s].nref, order[s].seed) ELSE Nothing

Heard(s) == evidence[s].kind \in {"report", "trace"}

Reported(s) ==
  Heard(s) =>
    /\ at[s] = "done" /\ call[s] = "none"
    /\ proc[s] # NoProcess /\ proc[s].at = "exited"
    /\ Main(s).kind = "dual_hil" => Numeric(s)
    /\ evidence[s].kind = "report" /\ evidence[s].passed /\ TracesKnown /\ ResidualPlans => Faithful(s)

ReportInv ==
  /\ HilInv
  /\ \A s \in Sessions :
       /\ InScript(s) => Comparable(s)
       /\ Expected(s)
       /\ Reported(s)

\* At the start no session has reported.
LEMMA ReportInit == Init => ReportInv
<1> SUFFICES ASSUME Init, NEW s \in Sessions
             PROVE  (InScript(s) => Comparable(s)) /\ Expected(s) /\ Reported(s)
  BY HilInit DEF ReportInv
<1>1. ~ InScript(s)
  <2>1. at[s] = "build" /\ order \in Orders
    BY DEF Init
  <2> QED BY <2>1, ScriptSteps
<1>2. Expected(s)
  BY DEF Init, Expected
<1>3. evidence[s] = Nothing
  BY DEF Init
<1> QED BY <1>1, <1>2, <1>3 DEF Reported, Heard, Nothing

\* A session that a step does not concern.
LEMMA ReportKept ==
  ASSUME ReportInv, NEW t \in Sessions, order' = order, expected' = expected,
         InScript(t)' => InScript(t),
         evidence'[t] = evidence[t], Heard(t) =>
           at'[t] = at[t] /\ call'[t] = call[t] /\ proc'[t] = proc[t]
  PROVE  (InScript(t)' => Comparable(t)') /\ Expected(t)' /\ Reported(t)'
<1>1. (InScript(t) => Comparable(t)) /\ Expected(t) /\ Reported(t)
  BY DEF ReportInv
<1>2. (Comparable(t)' <=> Comparable(t)) /\ Expected(t)'
  BY <1>1 DEF Comparable, Expected, OwnExe, Benchmark
<1>3. Reported(t)'
  BY <1>1 DEF Reported, Heard, Faithful, Executed, Numeric, Main
<1> QED BY <1>1, <1>2, <1>3

\* Every step keeps what was reported.
LEMMA ReportStep == ReportInv /\ [Next]_vars => ReportInv'
<1> SUFFICES ASSUME ReportInv, [Next]_vars PROVE ReportInv'
  OBVIOUS
<1>1. HilInv' /\ HilInv
  BY HilStep DEF ReportInv
<1> DEFINE Kept(t) == (InScript(t)' => Comparable(t)') /\ Expected(t)' /\ Reported(t)'
<1> SUFFICES ASSUME NEW t \in Sessions PROVE Kept(t)
  BY <1>1 DEF ReportInv
<1>2. CASE UNCHANGED vars
  <2>1. UNCHANGED <<order, expected, at, evidence, call, proc>>
    BY <1>2 DEF vars, hilVars
  <2> QED BY <2>1, ReportKept DEF InScript, Script
<1>3. CASE Next
  <2>1. PICK s \in Sessions : Client(s) \/ Machine(s)
    BY <1>3 DEF Next
  <2>2. Tables /\ order \in Orders
    BY <1>1 DEF HilInv
  <2>3. UNCHANGED <<order, expected>>
    BY <2>1 DEF Client, Machine, Build, Generate, Issue, Return, TimeOut, Conclude, LinkLost, Prepare,
       Ship, Compile, Copy, Chmod, Effect, Run, Execute, hilVars
  <2>4. at[s] = "done" /\ call[s] = "none" => ~ Client(s)
    <3>1. InScript(s) => at[s] # "done"
      BY <2>2, ScriptSteps
    <3> QED BY <3>1 DEF Client, Build, Generate, Issue, Return, TimeOut, Conclude
  <2>5. call[s] = "none" /\ ~ InScript(s) /\ proc[s].at = "exited" => ~ Machine(s)
    BY DEF Machine, LinkLost, Prepare, Ship, Compile, Copy, Chmod, Effect, Run, Execute,
       MainStep, CheckArguments, Create, Solve, Combine, Emit, Advance
  <2>6. ~ Heard(s)
    <3> SUFFICES ASSUME Heard(s) PROVE FALSE
      OBVIOUS
    <3>1. at[s] = "done" /\ call[s] = "none" /\ proc[s].at = "exited"
      BY DEF ReportInv, Reported
    <3>2. ~ InScript(s)
      BY <2>2, <3>1, ScriptSteps
    <3> QED BY <2>1, <2>4, <2>5, <3>1, <3>2
  <2>7. CASE t # s
    <3>1. evidence'[t] = evidence[t] /\ at'[t] = at[t] /\ call'[t] = call[t]
      <4>1. CASE Client(s)
        BY <2>2, <2>7, <4>1 DEF Client, Build, Generate, Issue, Return, TimeOut, Conclude,
           Raise, Publish, Tables
      <4>2. CASE Machine(s)
        BY <2>2, <2>7, <4>2 DEF Machine, LinkLost, Prepare, Ship, Compile, Copy, Chmod, Effect, Run,
           Execute, hilVars, Raise, Publish, Tables
      <4> QED BY <2>1, <4>1, <4>2
    <3>2. proc'[t] = proc[t]
      <4>1. CASE Client(s)
        BY <2>2, <2>7, <4>1 DEF Client, Build, Generate, Issue, Return, TimeOut, Conclude, Tables
      <4>2. CASE LinkLost(s) \/ Prepare(s) \/ Ship(s) \/ Compile(s) \/ Copy(s) \/ Chmod(s) \/ Run(s)
        BY <2>2, <2>7, <4>2 DEF LinkLost, Prepare, Ship, Compile, Copy, Chmod, Effect, Run, Tables
      <4>3. CASE Execute(s)
        BY <2>2, <2>7, <4>3 DEF Execute, MainStep, CheckArguments, Create, Solve, Combine, Emit, Advance,
           Exit, Go, Tables
      <4> QED BY <2>1, <4>1, <4>2, <4>3 DEF Machine
    <3> QED BY <2>3, <3>1, <3>2, ReportKept DEF InScript, Script
  <2>8. ASSUME ~ Heard(s)', InScript(s)' => Comparable(s)
        PROVE  Kept(s)
    <3>1. Expected(s)' /\ (Comparable(s)' <=> Comparable(s))
      BY <2>3 DEF ReportInv, Expected, Comparable, OwnExe, Benchmark
    <3> QED BY <2>8, <3>1 DEF Reported
  <2>9. ASSUME evidence' = evidence, InScript(s)' => InScript(s)
        PROVE  Kept(s)
    BY <2>6, <2>8, <2>9 DEF ReportInv, Heard
  <2>10. InScript(s)' => at'[s] \notin {"build", "generate", "done"}
    <3>1. order[s].place \in {"host", "target", "deployed"}
      BY <2>2, OrdersAssumption
    <3>2. Script(s)' \in {<<"compile", "run">>, <<"prepare", "ship", "compile", "run">>,
                          <<"copy", "chmod", "run">>}
      BY <2>3, <3>1 DEF Script
    <3> QED BY <3>2 DEF InScript, ToSet
  <2>11. ASSUME NEW error, Raise(s, error)
         PROVE  Kept(s)
    <3>1. at'[s] = "done" /\ evidence'[s] = Failed(error)
      BY <2>2, <2>11 DEF Raise, Publish, Tables
    <3>2. ~ InScript(s)'
      BY <3>1, <2>10
    <3>3. ~ Heard(s)'
      BY <3>1 DEF Failed, Heard
    <3> QED BY <2>8, <3>2, <3>3
  <2>12. ASSUME evidence' = evidence, Comparable(s) \/ at'[s] \in {"generate", at[s]}
         PROVE  Kept(s)
    <3>1. InScript(s)' => Comparable(s)
      <4>1. CASE at'[s] = at[s]
        BY <2>3, <2>12, <4>1 DEF ReportInv, InScript, Script
      <4>2. CASE at'[s] = "generate"
        BY <2>10, <4>2
      <4> QED BY <2>12, <4>1, <4>2
    <3>2. ~ Heard(s)'
      BY <2>6, <2>12 DEF Heard
    <3> QED BY <2>8, <3>1, <3>2
  <2>13. CASE Build(s)
    <3>1. (\E error : Raise(s, error)) \/ (evidence' = evidence /\ at'[s] = "generate")
      BY <2>2, <2>13 DEF Build, Tables
    <3> QED BY <2>7, <2>11, <2>12, <3>1
  <2>14. CASE Generate(s)
    <3>1. (\E error : Raise(s, error)) \/ (evidence' = evidence /\ Comparable(s))
      BY <2>14 DEF Generate
    <3> QED BY <2>7, <2>11, <2>12, <3>1
  <2>15. CASE Return(s)
    <3>1. (\E error : Raise(s, error)) \/ evidence' = evidence
      BY <2>15 DEF Return
    <3>2. Comparable(s)
      BY <2>15 DEF Return, ReportInv
    <3> QED BY <2>7, <2>11, <2>12, <3>1, <3>2
  <2>16. CASE TimeOut(s) \/ LinkLost(s)
    <3>1. \E error : Raise(s, error)
      BY <2>16 DEF TimeOut, LinkLost
    <3> QED BY <2>7, <2>11, <3>1
  <2>17. CASE \/ Issue(s) \/ Prepare(s) \/ Ship(s) \/ Compile(s) \/ Copy(s) \/ Chmod(s)
             \/ Run(s) \/ Execute(s)
    <3>1. evidence' = evidence /\ at' = at
      BY <2>17 DEF Issue, Prepare, Ship, Compile, Copy, Chmod, Effect, Run, Execute, hilVars
    <3> QED BY <2>7, <2>12, <3>1
  <2>18. CASE Conclude(s)
    <3>1. PICK out \in Stdouts(proc[s]) : Publish(s, Attested(s, Read(s, out)))
      BY <2>18 DEF Conclude
    <3>2. /\ UNCHANGED <<proc, order, expected>> /\ InScript(s) /\ proc[s].at = "exited"
          /\ call' = [call EXCEPT ![s] = "none"]
      <4>1. order[s].place \in {"host", "target", "deployed"}
        BY <2>2, OrdersAssumption
      <4> QED BY <2>18, <4>1 DEF Conclude, InScript, Script, ToSet
    <3>3. at'[s] = "done" /\ evidence'[s] = Attested(s, Read(s, out)) /\ call'[s] = "none"
      BY <2>2, <3>1, <3>2 DEF Publish, Tables
    <3>4. /\ SessionOK(s) /\ at[s] \notin {"build", "generate", "done"}
          /\ Comparable(s) /\ Expected(s)
      BY <1>1, <2>2, <3>2, ScriptSteps DEF HilInv, ReportInv
    <3>5. Generates(order[s].job, order[s].design)
      BY <3>4, AcceptsIs DEF SessionOK, Generated
    <3>6. proc[s] # NoProcess /\ ProcessOK(proc[s])
      BY <3>2, <3>4 DEF SessionOK, NoProcess
    <3> DEFINE e == Attested(s, Read(s, out))
    <3>7. e.kind = "report" /\ e.passed /\ TracesKnown /\ ResidualPlans => Faithful(s)
      <4> SUFFICES ASSUME e.kind = "report", e.passed, TracesKnown, ResidualPlans PROVE Faithful(s)
        OBVIOUS
      <4>1. Read(s, out).kind = "report" /\ Read(s, out).passed
        BY AttestedIs
      <4>2. Judged(s)
        BY <4>1, ReportIs
      <4>3. expected[s] = Reference(OwnExe(s), order[s].nref, order[s].seed)
        BY <3>4, <3>5, <4>2 DEF Expected, Judged
      <4> QED BY <2>2, <3>4, <3>5, <3>6, <4>1, <4>3, ReadFaithful
    <3>8. e.kind \in {"report", "trace"} /\ Main(s).kind = "dual_hil" => Numeric(s)
      <4> SUFFICES ASSUME e.kind \in {"report", "trace"}, Main(s).kind = "dual_hil" PROVE Numeric(s)
        OBVIOUS
      <4>1. Read(s, out).kind \in {"report", "trace"}
        BY AttestedIs
      <4> QED BY <2>2, <3>6, <4>1, ReadNumeric
    <3> HIDE DEF e
    <3>9. (Faithful(s)' <=> Faithful(s)) /\ (Numeric(s)' <=> Numeric(s)) /\ Main(s)' = Main(s)
      BY <3>2 DEF Faithful, Executed, Numeric, Main
    <3>10. Reported(s)'
      BY <3>2, <3>3, <3>6, <3>7, <3>8, <3>9 DEF Reported, Heard, e
    <3>11. Expected(s)' /\ (Comparable(s)' <=> Comparable(s))
      BY <3>2, <3>4 DEF Expected, Comparable, OwnExe, Benchmark
    <3> QED BY <2>7, <3>4, <3>10, <3>11
  <2> QED BY <2>1, <2>7, <2>13, <2>14, <2>15, <2>16, <2>17, <2>18 DEF Client, Machine
<1> QED BY <1>2, <1>3

\* For any sessions, tolerances and controllers, where every plan is residual and
\* every trace is of known quantities, and whoever shares whose directory: a report
\* that passed is about a complete run of a binary whose every printed number was
\* what it had executed, and stayed close to what the session's own host computed.
THEOREM ReportsFaithful ==
  ASSUME TracesKnown, ResidualPlans
  PROVE  Spec => []PassedIsFaithful
<1>1. ReportInv => PassedIsFaithful
  BY DEF ReportInv, Reported, Heard, PassedIsFaithful, Faithful
<1> QED BY <1>1, ReportInit, ReportStep, PTL DEF Spec

\* Whatever solver, policy, target and the other sessions do, and of whatever layers a
\* policy is: no binary with a policy applies a number outside its plan's actuator box,
\* and of none a report or a parsed trace is read whose commands are not all numbers.
THEOREM CommandsSafe == Spec => []CommandsInEnvelope
<1>1. ReportInv => CommandsInEnvelope
  <2> SUFFICES ASSUME ReportInv, NEW s \in Sessions
               PROVE  /\ Running(s) /\ Composed(Main(s)) =>
                           \A k \in DOMAIN proc[s].ran :
                             InBox(Main(s).plan.safety_envelope, proc[s].ran[k].cmd)
                      /\ Heard(s) /\ Main(s).kind = "dual_hil" => Numeric(s)
    BY DEF CommandsInEnvelope, Heard
  <2> QED BY InEnvelope DEF ReportInv, Reported
<1> QED BY <1>1, ReportInit, ReportStep, PTL DEF Spec

(***************************************************************************)
(* The binaries implement ComposedLoop: what each applies is what          *)
(* arbitrate and forward compute for the state it reads.                   *)
(***************************************************************************)

\* The specification that is implemented computes with the same operators.
LEMMA MirrorToSet == \A q : Mirror!ToSet(q) = ToSet(q)
BY DEF Mirror!ToSet, ToSet

LEMMA MirrorControl ==
  ASSUME NEW c, NEW x
  PROVE  Mirror!Control(c, x) = Control(c, x)
BY DEF Mirror!Control, Mirror!Times, Mirror!Plus, Mirror!Rounded, Mirror!Finite,
   Control, Times, Plus, Rounded, Finite

LEMMA MirrorLayer ==
  ASSUME NEW l, NEW x
  PROVE  Mirror!LayerOut(l, x) = LayerOut(l, x)
BY DEF Mirror!LayerOut, Mirror!Affine, Mirror!Accumulated, Mirror!Activate, Mirror!Plus, Mirror!Rounded,
   Mirror!Finite, Mirror!tanh, Mirror!Times, Mirror!Outputs, Mirror!Inputs,
   LayerOut, Affine, Accumulated, Activate, Plus, Rounded, Finite, tanh, Times, Outputs, Inputs

LEMMA MirrorForward ==
  ASSUME NEW layers, NEW x
  PROVE  Mirror!forward(layers, x) = forward(layers, x)
BY MirrorLayer DEF Mirror!forward, forward

LEMMA MirrorArbitrate ==
  ASSUME NEW plan, NEW mpc, NEW pol, NEW x, NEW timedOut
  PROVE  Mirror!arbitrate(plan, mpc, pol, x, timedOut) = arbitrate(plan, mpc, pol, x, timedOut)
BY DEF Mirror!arbitrate, Mirror!FallbackReason, Mirror!state_within, Mirror!AtMost, Mirror!clamp_input,
   Mirror!Clip, Mirror!Less, Mirror!Combined, Mirror!Plus, Mirror!Rounded, Mirror!Finite,
   arbitrate, FallbackReason, state_within, AtMost, clamp_input, Clip, Less, Combined, Plus,
   Rounded, Finite

HostAnswer(j, cycle, x) ==
  LET mpc == Control(j.controller, x) IN
  IF j.layers = <<>> THEN mpc
  ELSE arbitrate(j.plan, mpc, forward(j.layers, x), x, j.fallbackFrom >= 0 /\ cycle >= j.fallbackFrom).command

LEMMA MirrorCommand ==
  ASSUME NEW j, NEW cycle, NEW x
  PROVE  Mirror!Command(j, cycle, x) = HostAnswer(j, cycle, x)
BY MirrorControl, MirrorForward, MirrorArbitrate DEF Mirror!Command, Mirror!TimedOut, HostAnswer

\* Between bounds that are numbers, a state that is one is within or breaches.
LEMMA BreachIs ==
  ASSUME NEW env, NEW x \in Seq(Numbers), NaN \notin ToSet(x),
         env.state_lower \in Seq(Numbers), env.state_upper \in Seq(Numbers),
         Len(env.state_lower) = Len(env.state_upper), Len(x) <= Len(env.state_lower),
         StateBounded(env)
  PROVE  Breach(env, x) <=> ~ state_within(env, x)
<1>1. ASSUME NEW k \in DOMAIN x
      PROVE  /\ Entry(env.state_lower, k) = env.state_lower[k]
             /\ Entry(env.state_upper, k) = env.state_upper[k]
             /\ x[k] \in Numbers /\ x[k] # NaN
             /\ env.state_lower[k] \in Numbers /\ env.state_lower[k] # NaN
             /\ env.state_upper[k] \in Numbers /\ env.state_upper[k] # NaN
  <2>1. k \in 1 .. Len(x) /\ k \in DOMAIN env.state_lower /\ k \in DOMAIN env.state_upper
    <3>1. Len(x) \in Nat /\ Len(env.state_lower) \in Nat
      BY LenProperties
    <3>2. k \in 1 .. Len(x)
      BY LenProperties
    <3>3. k \in 1 .. Len(env.state_lower)
      BY <3>1, <3>2
    <3> QED BY <3>2, <3>3, LenProperties
  <2>2. NaN \notin ToSet(env.state_lower) /\ NaN \notin ToSet(env.state_upper)
    BY DEF StateBounded
  <2> QED BY <2>1, <2>2, ElementOfSeq DEF Entry, ToSet
<1>2. ASSUME NEW k \in DOMAIN x
      PROVE  Less(x[k], Entry(env.state_lower, k)) \/ Less(Entry(env.state_upper, k), x[k])
               <=> ~ (AtMost(env.state_lower[k], x[k]) /\ AtMost(x[k], env.state_upper[k]))
  BY <1>1, NumbersAssumption DEF Less, AtMost, Numbers, Finite
<1> QED BY <1>2 DEF Breach, state_within

\* What a binary in view commands is what the arbiter and the forward pass make of a state.
LEMMA SameCommand ==
  ASSUME ResidualPlans, NEW p, ExeOK(p.exe), HasCounterpart(p.exe.main),
         p.x \in Seq(Numbers), Len(p.x) = p.exe.main.nx, NaN \notin ToSet(p.x),
         p.mpc = Control(p.exe.gen, p.x), NEW command \in Commands(p)
  PROVE  command = HostAnswer(Job(p), p.i, p.x)
<1> DEFINE main == p.exe.main
           plan == main.plan
           env == plan.safety_envelope
           late == Job(p).fallbackFrom >= 0 /\ p.i >= Job(p).fallbackFrom
<1>1. /\ Job(p).plan = plan /\ Job(p).layers = main.layers /\ Job(p).controller = p.exe.gen
  BY DEF Job
<1>2. CASE ~ Composed(main)
  <2>1. command = p.mpc /\ main.layers = <<>>
    BY <1>2 DEF Commands, ExeOK, ProgramOK
  <2> QED BY <1>1, <2>1 DEF HostAnswer
<1>3. CASE Composed(main)
  <2>1. /\ StateBounded(env) /\ EnvelopeOK(env) /\ Layered(main.layers) /\ plan.mode = "residual"
        /\ Len(env.state_lower) = Len(env.state_upper) /\ Len(env.input_lower) = Len(env.input_upper)
    BY <1>3 DEF ExeOK, ProgramOK, PlanValid, EnvelopeValid, Paired
  <2>2. /\ main.layers # <<>> /\ InBuffers(main.layers, main.nx, 1)
        /\ main.nx = Len(env.state_lower) /\ Len(env.input_lower) = 1
    BY <1>3 DEF HasCounterpart
  <2>3. ForcedTimeout(p) <=> late
    BY DEF ForcedTimeout, Job
  <2>4. Len(p.x) \in Nat /\ Len(main.layers) # 0
    BY <2>1, <2>2, LenProperties DEF Layered
  <2>5. Breach(env, p.x) <=> ~ state_within(env, p.x)
    <3> DEFINE y == p.x
    <3>1. /\ env.state_lower \in Seq(Numbers) /\ env.state_upper \in Seq(Numbers)
          /\ Len(env.state_lower) = Len(env.state_upper) /\ StateBounded(env)
      BY <2>1 DEF EnvelopeOK
    <3>2. y \in Seq(Numbers) /\ NaN \notin ToSet(y) /\ Len(y) <= Len(env.state_lower)
      BY <2>2, <2>4
    <3> HIDE DEF env, y
    <3>3. Breach(env, y) <=> ~ state_within(env, y)
      BY ONLY <3>1, <3>2, BreachIs, ZenonT(30)
    <3> QED BY <3>3 DEF y
  <2>6. FallsBack(p) <=> FallbackReason(plan, p.x, late) # "none"
    BY <2>3, <2>5 DEF FallsBack, FallbackReason
  <2>7. p.mpc \in Seq(Numbers) /\ Len(p.mpc) = 1 /\ DOMAIN p.mpc = {1}
    BY NumbersClosed DEF Control
  <2> DEFINE host == forward(main.layers, p.x)
             pol == jx_policy(main.layers, p.x, 1)
             u == IF FallsBack(p) THEN p.mpc ELSE Residual(p, pol)
             v == IF FallbackReason(plan, p.x, late) = "none" THEN Combined(plan, p.mpc, host) ELSE p.mpc
  <2>8. Residual(p, pol) = Combined(plan, p.mpc, host)
    <3>1. pol[1] = host[1]
      BY <2>1, <2>4, PolicyAgrees
    <3> HIDE DEF pol, host
    <3>2. Residual(p, pol) = [j \in {1} |-> Plus(p.mpc[j], pol[j])]
      BY <2>7 DEF Residual
    <3>3. Combined(plan, p.mpc, host) = [j \in {1} |-> Plus(p.mpc[j], host[j])]
      BY <2>1, <2>7 DEF Combined
    <3> QED BY <3>1, <3>2, <3>3
  <2>9. command = Law(p, pol)
    <3>1. PolicyAnswers(main.layers, p.x, 1) = {pol}
      BY <2>2 DEF PolicyAnswers
    <3> QED BY <1>3, <2>7, <3>1 DEF Commands
  <2> HIDE DEF pol, host
  <2>10. u = v /\ DOMAIN u = {1}
    BY <2>6, <2>7, <2>8 DEF Residual
  <2>11. Law(p, pol) = Clamped(env, u)
    BY DEF Law
  <2>12. HostAnswer(Job(p), p.i, p.x) = clamp_input(env, v)
    BY <1>1, <2>2 DEF HostAnswer, arbitrate, host
  <2>13. Entry(env.input_lower, 1) = env.input_lower[1] /\ Entry(env.input_upper, 1) = env.input_upper[1]
    <3>1. /\ env.input_lower \in Seq(Numbers) /\ env.input_upper \in Seq(Numbers)
          /\ Len(env.input_lower) = 1 /\ Len(env.input_upper) = 1
      BY <2>1, <2>2 DEF EnvelopeOK
    <3> HIDE DEF env
    <3>2. 1 \in DOMAIN env.input_lower /\ 1 \in DOMAIN env.input_upper
      BY <3>1, LenProperties
    <3> QED BY <3>2 DEF Entry
  <2> HIDE DEF u, v, env
  <2>14. Clamped(env, u) = clamp_input(env, u)
    <3>1. \A j \in DOMAIN u : Clip(u[j], Entry(env.input_lower, j), Entry(env.input_upper, j))
                             = Clip(u[j], env.input_lower[j], env.input_upper[j])
      BY ONLY <2>10, <2>13
    <3> QED BY ONLY <3>1 DEF Clamped, clamp_input
  <2> QED BY <2>9, <2>10, <2>11, <2>12, <2>14
<1> QED BY <1>2, <1>3

(***************************************************************************)
(* What a process has been through so far, at each point of main.          *)
(***************************************************************************)
Tracks(p) ==
  /\ p.i \in Nat
  /\ p.at \in {"arguments", "create"} => p.i = 0 /\ p.ran = <<>>
  /\ p.at \in {"solve", "combine", "emit"} => Len(p.ran) = p.i
  /\ p.at = "advance" => Len(p.ran) = p.i + 1
  /\ p.at = "combine" /\ NaN \notin ToSet(p.x) => p.mpc = Control(p.exe.gen, p.x)
  /\ p.at = "emit" /\ NaN \notin ToSet(p.x) => p.cmd = HostAnswer(Job(p), p.i, p.x)

\* What a loop of ComposedLoop may do, of the process that shows it.
Shows(p, q) ==
  \/ Job(q) = Job(p) /\ q.x = p.x /\ q.i = p.i /\ q.ran = p.ran
  \/ q.i = 0 /\ q.ran = <<>>
  \/ /\ Len(p.ran) = p.i /\ Len(q.ran) = p.i + 1
     /\ q.ran = Append(p.ran, [x |-> p.x, cmd |-> q.ran[p.i + 1].cmd])
     /\ NaN \notin ToSet(p.x) => q.ran[p.i + 1].cmd = HostAnswer(Job(p), p.i, p.x)
     /\ Job(q) = Job(p) /\ q.x = p.x /\ q.i = p.i
  \/ /\ Len(p.ran) = p.i + 1
     /\ q.i = p.i + 1 /\ Job(q) = Job(p) /\ q.ran = p.ran

MirrorInv == HilInv /\ \A s \in Sessions : InView(s) => Tracks(proc[s])

\* Each step of main.
LEMMA MainStepTracks ==
  ASSUME ResidualPlans, NEW s \in Sessions, proc = [t \in Sessions |-> proc[t]],
         ProcessOK(proc[s]), HasCounterpart(Main(s)), Tracks(proc[s]), MainStep(s)
  PROVE  Tracks(proc'[s]) /\ Shows(proc[s], proc'[s])
<1> DEFINE p == proc[s]
           q == proc'[s]
<1>1. p = [f \in ProcessFields |-> p[f]]
  BY DEF ProcessOK
<1>2. ASSUME NEW rc, Exit(s, rc) PROVE Tracks(q) /\ Shows(p, q)
  <2>1. q = [p EXCEPT !.at = "exited", !.rc = rc]
    BY <1>2 DEF Exit
  <2>2. /\ q.at = "exited" /\ q.i = p.i /\ q.x = p.x /\ q.ran = p.ran /\ q.exe = p.exe /\ q.argv = p.argv
    BY <1>1, <2>1 DEF ProcessFields
  <2>3. p.i \in Nat
    BY DEF Tracks
  <2> HIDE DEF p, q
  <2>4. Job(q) = Job(p)
    BY <2>2 DEF Job
  <2>5. Tracks(q)
    BY <2>2, <2>3 DEF Tracks
  <2>6. Shows(p, q)
    BY <2>2, <2>4 DEF Shows
  <2> QED BY <2>5, <2>6 DEF p, q
<1>3. CASE CheckArguments(s)
  <2>1. CASE Go(s, "create")
    <3>1. q = [p EXCEPT !.at = "create"]
      BY <2>1 DEF Go
    <3>2. /\ q.at = "create" /\ q.i = p.i /\ q.x = p.x /\ q.ran = p.ran /\ q.exe = p.exe /\ q.argv = p.argv
      BY <1>1, <3>1 DEF ProcessFields
    <3>3. p.i = 0 /\ p.ran = <<>>
      BY <1>3 DEF CheckArguments, Tracks
    <3> HIDE DEF p, q
    <3>4. Tracks(q) /\ Shows(p, q)
      BY <3>2, <3>3 DEF Tracks, Shows
    <3> QED BY <3>4 DEF p, q
  <2> QED BY <1>2, <1>3, <2>1 DEF CheckArguments
<1>4. CASE Create(s)
  <2>1. ASSUME proc' = [proc EXCEPT ![s].at = "solve", ![s].x = Seeded(@, proc[s].argv.seed)]
        PROVE  Tracks(q) /\ Shows(p, q)
    <3>1. q = [p EXCEPT !.at = "solve", !.x = Seeded(@, p.argv.seed)]
      BY <2>1
    <3>2. p.i = 0 /\ p.ran = <<>> /\ p.x \in Seq(Numbers)
      BY <1>4 DEF Create, Tracks, ProcessOK
    <3>3. /\ q.at = "solve" /\ q.i = p.i /\ q.x = Seeded(p.x, p.argv.seed) /\ q.ran = p.ran
          /\ q.exe = p.exe
      BY <1>1, <3>1 DEF ProcessFields
    <3>5. Len(<< >>) = 0
      OBVIOUS
    <3> HIDE DEF p, q
    <3> QED BY <3>2, <3>3, <3>5 DEF Tracks, Shows
  <2> QED BY <1>2, <1>4, <2>1 DEF Create
<1>5. CASE Solve(s)
  <2>1. ASSUME NEW u \in Controls(p.exe.gen, p.x),
               proc' = [proc EXCEPT ![s].at = "combine", ![s].mpc = u]
        PROVE  Tracks(q) /\ Shows(p, q)
    <3>1. q = [p EXCEPT !.at = "combine", !.mpc = u]
      BY <2>1
    <3>2. Len(p.ran) = p.i /\ p.i \in Nat
      BY <1>5 DEF Solve, Tracks
    <3>3. /\ q.at = "combine" /\ q.i = p.i /\ q.x = p.x /\ q.ran = p.ran /\ q.exe = p.exe /\ q.argv = p.argv
          /\ q.mpc = u
      BY <1>1, <3>1 DEF ProcessFields
    <3>4. NaN \notin ToSet(p.x) => u = Control(p.exe.gen, p.x)
      BY <2>1 DEF Controls
    <3> HIDE DEF p, q
    <3>5. Job(q) = Job(p)
      BY <3>3 DEF Job
    <3> QED BY <3>2, <3>3, <3>4, <3>5 DEF Tracks, Shows
  <2> QED BY <1>2, <1>5, <2>1 DEF Solve
<1>6. CASE Combine(s)
  <2>1. ASSUME NEW u \in Commands(p), proc' = [proc EXCEPT ![s].at = "emit", ![s].cmd = u]
        PROVE  Tracks(q) /\ Shows(p, q)
    <3>1. q = [p EXCEPT !.at = "emit", !.cmd = u]
      BY <2>1
    <3>2. /\ Len(p.ran) = p.i /\ p.i \in Nat /\ p.x \in Seq(Numbers) /\ Len(p.x) = p.exe.main.nx
          /\ ExeOK(p.exe) /\ HasCounterpart(p.exe.main)
          /\ NaN \notin ToSet(p.x) => p.mpc = Control(p.exe.gen, p.x)
      BY <1>6 DEF Combine, Tracks, ProcessOK, Main
    <3>3. /\ q.at = "emit" /\ q.i = p.i /\ q.x = p.x /\ q.ran = p.ran /\ q.exe = p.exe /\ q.argv = p.argv
          /\ q.cmd = u
      BY <1>1, <3>1 DEF ProcessFields
    <3>4. u \in Commands(p)
      BY <2>1
    <3> HIDE DEF p, q
    <3>5. NaN \notin ToSet(p.x) => u = HostAnswer(Job(p), p.i, p.x)
      BY <3>2, <3>4, SameCommand
    <3>6. Job(q) = Job(p)
      BY <3>3 DEF Job
    <3>7. NaN \notin ToSet(q.x) => q.cmd = HostAnswer(Job(q), q.i, q.x)
      BY <3>3, <3>5, <3>6, Zenon
    <3>8. Tracks(q)
      BY <3>2, <3>3, <3>7 DEF Tracks
    <3>9. Shows(p, q)
      BY <3>3, <3>6 DEF Shows
    <3> QED BY <3>8, <3>9 DEF p, q
  <2> QED BY <1>2, <1>6, <2>1 DEF Combine
<1>7. CASE Emit(s)
  <2>1. q = [p EXCEPT !.at = "advance", !.ran = Append(@, [x |-> p.x, cmd |-> p.cmd])]
    BY <1>7 DEF Emit
  <2>2. /\ Len(p.ran) = p.i /\ p.i \in Nat
        /\ NaN \notin ToSet(p.x) => p.cmd = HostAnswer(Job(p), p.i, p.x)
        /\ p.ran \in Seq(Rows(p.exe)) /\ [x |-> p.x, cmd |-> p.cmd] \in Rows(p.exe)
    BY <1>7 DEF Emit, Tracks, ProcessOK, Rows, CmdOK, ExeOK, ProgramOK
  <2>3. /\ q.at = "advance" /\ q.i = p.i /\ q.x = p.x /\ q.exe = p.exe /\ q.argv = p.argv
        /\ q.ran = Append(p.ran, [x |-> p.x, cmd |-> p.cmd])
    BY <1>1, <2>1 DEF ProcessFields
  <2> HIDE DEF p, q
  <2> DEFINE r == [x |-> p.x, cmd |-> p.cmd]
  <2>4. r \in Rows(p.exe) /\ r.cmd = p.cmd
    BY <2>2
  <2> HIDE DEF r
  <2>5. Len(q.ran) = p.i + 1 /\ q.ran[p.i + 1] = r
    BY <2>2, <2>3, <2>4, AppendProperties DEF r
  <2>6. q.ran[p.i + 1].cmd = p.cmd
    BY <2>4, <2>5
  <2>7. Job(q) = Job(p)
    BY <2>3 DEF Job
  <2>8. Tracks(q)
    BY <2>2, <2>3, <2>5 DEF Tracks
  <2>9. Shows(p, q)
    BY <2>2, <2>3, <2>5, <2>6, <2>7, Zenon DEF Shows
  <2> QED BY <2>8, <2>9 DEF p, q
<1>8. CASE Advance(s)
  <2>1. ASSUME NEW d \in Drifts,
               q = [p EXCEPT !.x = [Plant(p.x, p.cmd) EXCEPT ![2] = Plus(@, d)], !.i = @ + 1,
                             !.at = IF p.i + 1 = Cycles(p) THEN "exited" ELSE "solve"]
        PROVE  Tracks(q) /\ Shows(p, q)
    <3>1. Len(p.ran) = p.i + 1 /\ p.i \in Nat
      BY <1>8 DEF Advance, Tracks
    <3>2. /\ q.at \in {"exited", "solve"} /\ q.i = p.i + 1 /\ q.ran = p.ran
          /\ q.exe = p.exe /\ q.argv = p.argv
      BY <1>1, <2>1 DEF ProcessFields
    <3> HIDE DEF p, q
    <3>3. Job(q) = Job(p)
      BY <3>2 DEF Job
    <3> QED BY <3>1, <3>2, <3>3 DEF Tracks, Shows
  <2>2. ASSUME NEW r \in Moved(p), proc' = [proc EXCEPT ![s] = r] PROVE Tracks(q) /\ Shows(p, q)
    <3>1. q = r
      BY <2>2
    <3> QED BY <2>1, <2>2, <3>1 DEF Moved
  <2> QED BY <1>2, <1>8, <2>2 DEF Advance
<1> QED BY <1>3, <1>4, <1>5, <1>6, <1>7, <1>8 DEF MainStep

\* At the start nothing runs.
LEMMA TrackInit == Init => MirrorInv
BY HilInit DEF Init, MirrorInv, InView, Running

\* Of a step of the sessions, no process hears but by being started, killed, or its own.
LEMMA ProcessSteps ==
  ASSUME HilInv, Next
  PROVE  \/ proc' = proc
         \/ \E s \in Sessions :
              /\ proc' = [proc EXCEPT ![s] = proc'[s]]
              /\ \/ proc'[s] = NoProcess
                 \/ \E exe \in Dir(s).exe : proc'[s] = Started(exe, Argv(s))
                 \/ MainStep(s)
<1>1. PICK s \in Sessions : Client(s) \/ Machine(s)
  BY DEF Next
<1>2. ProcessOK(proc[s]) \/ proc[s] = NoProcess
  BY DEF HilInv, Tables, SessionOK
<1>3. proc = [t \in Sessions |-> proc[t]]
  BY DEF HilInv, Tables
<1>4. CASE TimeOut(s)
  BY <1>3, <1>4 DEF TimeOut
<1>5. CASE Run(s)
  BY <1>3, <1>5 DEF Run
<1>6. CASE Execute(s)
  <2>1. MainStep(s)
    BY <1>6 DEF Execute
  <2>2. proc' = [proc EXCEPT ![s] = proc'[s]]
    BY <1>3, <2>1 DEF MainStep, CheckArguments, Create, Solve, Combine, Emit, Advance, Exit, Go
  <2> QED BY <2>1, <2>2
<1>7. CASE Build(s) \/ Generate(s) \/ Issue(s) \/ Return(s) \/ Conclude(s)
  BY <1>7 DEF Build, Generate, Issue, Return, Conclude
<1>8. CASE LinkLost(s) \/ Prepare(s) \/ Ship(s) \/ Compile(s) \/ Copy(s) \/ Chmod(s)
  BY <1>8 DEF LinkLost, Prepare, Ship, Compile, Copy, Chmod, Effect
<1> QED BY <1>1, <1>4, <1>5, <1>6, <1>7, <1>8 DEF Client, Machine

\* What a process shows of its step: nothing of a step that is not its own.
Shown(s) ==
  \/ proc'[s] = proc[s]
  \/ ~ InView(s)'
  \/ InView(s)' /\ proc'[s].i = 0 /\ proc'[s].ran = <<>>
  \/ InView(s) /\ InView(s)' /\ Shows(proc[s], proc'[s])

LEMMA TrackStep ==
  ASSUME ResidualPlans, MirrorInv, [Next]_vars
  PROVE  /\ MirrorInv'
         /\ \/ proc' = proc
            \/ \E s \in Sessions : Shown(s) /\ \A t \in Sessions \ {s} : proc'[t] = proc[t]
<1>1. HilInv /\ HilInv'
  BY HilStep DEF MirrorInv
<1>2. CASE proc' = proc
  BY <1>1, <1>2 DEF MirrorInv, InView, Running, Main
<1>3. CASE Next /\ proc' # proc
  <2>1. PICK s \in Sessions :
          /\ proc' = [proc EXCEPT ![s] = proc'[s]]
          /\ \/ proc'[s] = NoProcess
             \/ \E exe \in Dir(s).exe : proc'[s] = Started(exe, Argv(s))
             \/ MainStep(s)
    BY <1>1, <1>3, ProcessSteps
  <2>2. \A t \in Sessions \ {s} : proc'[t] = proc[t]
    BY <1>1, <2>1 DEF HilInv, Tables
  <2>3. Shown(s) /\ (InView(s)' => Tracks(proc'[s]))
    <3>1. CASE proc'[s] = NoProcess
      BY <3>1 DEF Shown, InView, Running
    <3>2. CASE \E exe \in Dir(s).exe : proc'[s] = Started(exe, Argv(s))
      <4>1. PICK exe \in Dir(s).exe : proc'[s] = Started(exe, Argv(s))
        BY <3>2
      <4>2. /\ Started(exe, Argv(s)).i = 0 /\ Started(exe, Argv(s)).ran = <<>>
            /\ Started(exe, Argv(s)).at = "arguments"
        BY DEF Started
      <4>3. Tracks(proc'[s])
        BY <4>1, <4>2 DEF Tracks
      <4> QED BY <4>1, <4>2, <4>3 DEF Shown
    <3>3. CASE MainStep(s) /\ proc'[s] # NoProcess
      <4>1. proc[s] # NoProcess
        BY <3>3 DEF NoProcess, MainStep, CheckArguments, Create, Solve, Combine, Emit, Advance
      <4>2. ProcessOK(proc[s]) /\ proc = [t \in Sessions |-> proc[t]]
        BY <1>1, <4>1 DEF HilInv, SessionOK, Tables
      <4>3. proc'[s].exe = proc[s].exe
        <5>1. PICK q : q.exe = proc[s].exe /\ proc' = [proc EXCEPT ![s] = q]
          BY <3>3, <4>2, MainStepOK
        <5> QED BY <4>2, <5>1
      <4>4. Running(s) /\ (InView(s)' <=> InView(s))
        BY <3>3, <4>1, <4>3 DEF InView, Running, Main
      <4>5. CASE InView(s)
        <5>1. HasCounterpart(Main(s)) /\ Tracks(proc[s])
          BY <4>5 DEF MirrorInv, InView
        <5>2. Tracks(proc'[s]) /\ Shows(proc[s], proc'[s])
          BY <3>3, <4>2, <5>1, MainStepTracks
        <5> QED BY <4>4, <4>5, <5>2 DEF Shown
      <4> QED BY <4>4, <4>5 DEF Shown
    <3> QED BY <2>1, <3>1, <3>2, <3>3
  <2>4. \A t \in Sessions : InView(t)' => Tracks(proc'[t])
    <3> TAKE t \in Sessions
    <3>1. CASE t = s
      BY <2>3, <3>1
    <3>2. CASE t # s
      BY <2>2, <3>2 DEF MirrorInv, InView, Running, Main
    <3> QED BY <3>1, <3>2
  <2> QED BY <1>1, <2>2, <2>3, <2>4 DEF MirrorInv
<1> QED BY <1>2, <1>3 DEF vars

\* What the sessions show of their processes at the start, and of a step of one.
LEMMA MirrorStarts == Init => Mirror!Init
BY DEF Init, Mirror!Init, InView, Running, NoProcess

LEMMA MirrorSteps ==
  ASSUME ResidualPlans, MirrorInv, [Next]_vars
  PROVE  [Mirror!Next]_(Mirror!loopVars)
<1> DEFINE job == [t \in Sessions |-> IF InView(t) THEN Job(proc[t]) ELSE Nothing]
           x == [t \in Sessions |-> IF InView(t) THEN proc[t].x ELSE <<>>]
           moved == [t \in Sessions |-> IF InView(t) THEN proc[t].i ELSE 0]
           ran == [t \in Sessions |-> IF InView(t) THEN proc[t].ran ELSE <<>>]
<1>1. \/ proc' = proc
      \/ \E s \in Sessions : Shown(s) /\ \A t \in Sessions \ {s} : proc'[t] = proc[t]
  BY TrackStep
<1>2. ASSUME NEW t \in Sessions, proc'[t] = proc[t]
      PROVE  job'[t] = job[t] /\ x'[t] = x[t] /\ moved'[t] = moved[t] /\ ran'[t] = ran[t]
  BY <1>2 DEF InView, Running, Main
<1>3. /\ job = [t \in Sessions |-> job[t]] /\ job' = [t \in Sessions |-> job'[t]]
      /\ x = [t \in Sessions |-> x[t]] /\ x' = [t \in Sessions |-> x'[t]]
      /\ moved = [t \in Sessions |-> moved[t]] /\ moved' = [t \in Sessions |-> moved'[t]]
      /\ ran = [t \in Sessions |-> ran[t]] /\ ran' = [t \in Sessions |-> ran'[t]]
  OBVIOUS
<1>4. ASSUME NEW t \in Sessions
      PROVE  /\ InView(t) => /\ job[t] = Job(proc[t]) /\ x[t] = proc[t].x
                              /\ moved[t] = proc[t].i /\ ran[t] = proc[t].ran
             /\ InView(t)' => /\ job'[t] = Job(proc'[t]) /\ x'[t] = proc'[t].x
                               /\ moved'[t] = proc'[t].i /\ ran'[t] = proc'[t].ran
             /\ ~ InView(t)' => moved'[t] = 0 /\ ran'[t] = <<>>
  BY DEF Job
<1>5. CASE proc' = proc
  <2>1. UNCHANGED <<job, x, moved, ran>>
    BY <1>2, <1>3, <1>5
  <2> QED BY <2>1 DEF Mirror!loopVars
<1>6. ASSUME NEW s \in Sessions, Shown(s), \A t \in Sessions \ {s} : proc'[t] = proc[t]
      PROVE  \/ UNCHANGED <<job, x, moved, ran>>
             \/ Mirror!OthersStay(s) /\ (Mirror!Begin(s) \/ Mirror!Apply(s) \/ Mirror!Move(s))
  <2>1. Mirror!OthersStay(s)
    BY <1>2, <1>6 DEF Mirror!OthersStay
  <2>2. CASE proc'[s] = proc[s]
    <3>1. \A t \in Sessions : proc'[t] = proc[t]
      BY <1>6, <2>2
    <3>2. UNCHANGED <<job, x, moved, ran>>
      BY <1>2, <1>3, <3>1
    <3> QED BY <3>2
  <2>3. CASE \/ ~ InView(s)'
             \/ InView(s)' /\ proc'[s].i = 0 /\ proc'[s].ran = <<>>
    <3>1. moved'[s] = 0 /\ ran'[s] = <<>>
      BY <1>4, <2>3
    <3>2. Mirror!Begin(s)
      BY <3>1 DEF Mirror!Begin
    <3> QED BY <2>1, <3>2
  <2>4. CASE InView(s) /\ InView(s)' /\ Shows(proc[s], proc'[s])
    <3>1. /\ job[s] = Job(proc[s]) /\ x[s] = proc[s].x
          /\ moved[s] = proc[s].i /\ ran[s] = proc[s].ran
          /\ job'[s] = Job(proc'[s]) /\ x'[s] = proc'[s].x
          /\ moved'[s] = proc'[s].i /\ ran'[s] = proc'[s].ran
      BY <1>4, <2>4
    <3>2. CASE /\ Job(proc'[s]) = Job(proc[s]) /\ proc'[s].x = proc[s].x
               /\ proc'[s].i = proc[s].i /\ proc'[s].ran = proc[s].ran
      <4>1. job'[s] = job[s] /\ x'[s] = x[s] /\ moved'[s] = moved[s] /\ ran'[s] = ran[s]
        BY <3>1, <3>2
      <4> HIDE DEF job, x, moved, ran
      <4>2. \A t \in Sessions : job'[t] = job[t] /\ x'[t] = x[t] /\ moved'[t] = moved[t] /\ ran'[t] = ran[t]
        BY <1>2, <1>6, <4>1
      <4>3. UNCHANGED <<job, x, moved, ran>>
        BY <1>3, <4>2
      <4> QED BY <4>3
    <3>3. CASE proc'[s].i = 0 /\ proc'[s].ran = <<>>
      <4>1. Mirror!Begin(s)
        BY <3>1, <3>3 DEF Mirror!Begin
      <4> QED BY <2>1, <4>1
    <3> DEFINE u == proc'[s].ran[proc[s].i + 1].cmd
    <3>4. CASE /\ Len(proc[s].ran) = proc[s].i /\ Len(proc'[s].ran) = proc[s].i + 1
               /\ proc'[s].ran = Append(proc[s].ran, [x |-> proc[s].x, cmd |-> u])
               /\ NaN \notin ToSet(proc[s].x) => u = HostAnswer(Job(proc[s]), proc[s].i, proc[s].x)
               /\ Job(proc'[s]) = Job(proc[s]) /\ proc'[s].x = proc[s].x /\ proc'[s].i = proc[s].i
      <4>1. Mirror!Command(job[s], moved[s], x[s]) = HostAnswer(Job(proc[s]), proc[s].i, proc[s].x)
        BY <3>1, MirrorCommand
      <4>2. /\ Len(ran[s]) = moved[s] /\ Len(ran'[s]) = moved[s] + 1
            /\ u = ran'[s][moved[s] + 1].cmd
            /\ ran'[s] = Append(ran[s], [x |-> x[s], cmd |-> u])
            /\ NaN \notin ToSet(x[s]) => u = Mirror!Command(job[s], moved[s], x[s])
            /\ job'[s] = job[s] /\ x'[s] = x[s] /\ moved'[s] = moved[s]
        BY <3>1, <3>4, <4>1
      <4> HIDE DEF u
      <4>3. Mirror!Apply(s)
        BY <4>2, MirrorToSet DEF Mirror!Apply
      <4> QED BY <2>1, <4>3
    <3>5. CASE /\ Len(proc[s].ran) = proc[s].i + 1
               /\ proc'[s].i = proc[s].i + 1 /\ Job(proc'[s]) = Job(proc[s])
               /\ proc'[s].ran = proc[s].ran
      <4>1. /\ Len(ran[s]) = moved[s] + 1 /\ moved'[s] = moved[s] + 1
            /\ job'[s] = job[s] /\ ran'[s] = ran[s]
        BY <3>1, <3>5
      <4>2. Mirror!Move(s)
        BY <4>1 DEF Mirror!Move
      <4> QED BY <2>1, <4>2
    <3> QED BY <2>4, <3>2, <3>3, <3>4, <3>5 DEF Shows
  <2> QED BY <1>6, <2>2, <2>3, <2>4 DEF Shown
<1>7. CASE \E s \in Sessions : Shown(s) /\ \A t \in Sessions \ {s} : proc'[t] = proc[t]
  <2>1. PICK s \in Sessions : Shown(s) /\ \A t \in Sessions \ {s} : proc'[t] = proc[t]
    BY <1>7
  <2>2. \/ UNCHANGED <<job, x, moved, ran>>
        \/ Mirror!OthersStay(s) /\ (Mirror!Begin(s) \/ Mirror!Apply(s) \/ Mirror!Move(s))
    BY <1>6, <2>1
  <2> QED BY <2>2 DEF Mirror!Next, Mirror!loopVars
<1> QED BY <1>1, <1>5, <1>7

\* For any sessions, controllers, policies and targets, whose plans correct the solver's
\* control: however the target's arithmetic moves the plant, and however runs fail, are
\* killed or share directories, each binary whose dimensions the host would take and whose
\* layers fit the work buffers applies in each cycle, once, in order, and from a fresh
\* start, the command that the host's arbiter and forward pass compute for the state it
\* read, unless that is not of numbers.
THEOREM BinariesMirrorHost ==
  ASSUME ResidualPlans
  PROVE  Spec => MirrorsHost
<1>1. MirrorInv /\ [Next]_vars => MirrorInv' /\ [Mirror!Next]_(Mirror!loopVars)
  BY TrackStep, MirrorSteps
<1>2. Init => MirrorInv /\ Mirror!Init
  BY TrackInit, MirrorStarts
<1> QED BY <1>1, <1>2, PTL DEF Spec, MirrorsHost, Mirror!Spec
=============================================================================
