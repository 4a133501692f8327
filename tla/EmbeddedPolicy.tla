--------------------------- MODULE EmbeddedPolicy ---------------------------
(***************************************************************************)
(* The policy network of jaxility.compose.codegen: how from_flax orders    *)
(* its layers, what forward computes on the host, and what the emitted C   *)
(* computes in its two work buffers. tanh is abstracted to what the        *)
(* properties need of it: odd, monotone, bounded by one.                   *)
(***************************************************************************)
EXTENDS CompositionPlan, FiniteSets, SequencesExt

CONSTANTS
  WorkBuffer,  \* entries of each of the work buffers of jx_policy, 64 in the C
  Arbitrary    \* what a value that nothing defines may turn out to be

ASSUME ArbitraryAssumption == WorkBuffer \in Nat /\ Arbitrary \subseteq Numbers

Dense(kernel, bias) == [kernel |-> kernel, bias |-> bias]
Inputs(dense)  == Len(dense.kernel)
Outputs(dense) == Len(dense.bias)

tanh(v) == IF v = NaN THEN NaN ELSE IF v > 0 THEN 1 ELSE IF v < 0 THEN -1 ELSE 0

Times(a, b) == IF NaN \in {a, b} THEN NaN ELSE Rounded(a * b)

Accumulated(base, terms) ==
  LET sum[k \in 0 .. Len(terms)] == IF k = 0 THEN base ELSE Plus(sum[k - 1], terms[k])
  IN sum[Len(terms)]

\* b[j] + sum over k of x[k] * W[k][j]
Affine(dense, x, j) ==
  Accumulated(dense.bias[j], [k \in 1 .. Inputs(dense) |-> Times(x[k], dense.kernel[k][j])])

(***************************************************************************)
(* from_flax gets the layers without an order and chains them by their     *)
(* shapes. Two layers of one input dimension, or one off the chain, raise. *)
(***************************************************************************)
Ambiguous(params) == \E a, b \in params : a # b /\ Inputs(a) = Inputs(b)

Chain(params, inputDim) ==
  LET Following(done) ==
        LET cur == IF done = <<>> THEN inputDim ELSE Outputs(Last(done)) IN
        {d \in params \ ToSet(done) : Inputs(d) = cur}
      Grown[k \in 0 .. Cardinality(params)] ==
        IF k = 0 THEN <<>>
        ELSE IF Following(Grown[k - 1]) = {} THEN Grown[k - 1]
        ELSE Append(Grown[k - 1], CHOOSE d \in Following(Grown[k - 1]) : TRUE)
  IN Grown[Cardinality(params)]

Chained(params, inputDim) ==
  ~ Ambiguous(params) /\ ToSet(Chain(params, inputDim)) = params

from_flax(params, inputDim) ==
  LET ordered == Chain(params, inputDim) IN
  [i \in DOMAIN ordered |->
     [dense |-> ordered[i], activation |-> IF i = Len(ordered) THEN "identity" ELSE "tanh"]]

Activate(layer, v) == IF layer.activation = "tanh" THEN tanh(v) ELSE v

LayerOut(layer, h) == [j \in 1 .. Outputs(layer.dense) |-> Activate(layer, Affine(layer.dense, h, j))]

forward(layers, x) ==
  LET h[k \in 0 .. Len(layers)] == IF k = 0 THEN x ELSE LayerOut(layers[k], h[k - 1])
  IN h[Len(layers)]

(***************************************************************************)
(* jx_policy overwrites the front of its buffer cur, which holds the state *)
(* at first, with each layer's outputs, and its answer is the first nu     *)
(* entries of what is then there. The sequence is what has been written.   *)
(***************************************************************************)
Overwrite(cur, front) ==
  [k \in 1 .. IF Len(cur) > Len(front) THEN Len(cur) ELSE Len(front) |->
     IF k <= Len(front) THEN front[k] ELSE cur[k]]

jx_policy(layers, x, nu) ==
  LET cur[k \in 0 .. Len(layers)] ==
        IF k = 0 THEN x ELSE Overwrite(cur[k - 1], LayerOut(layers[k], cur[k - 1]))
  IN SubSeq(cur[Len(layers)], 1, nu)

(***************************************************************************)
(* Nothing in the C keeps a layer's outputs inside the buffers, or what it *)
(* reads to what was written. Where either goes wrong the answer is        *)
(* arbitrary, if there is one.                                             *)
(***************************************************************************)
Written(layers, nx, k, entries) ==
  entries <= nx \/ \E i \in 1 .. k : entries <= Outputs(layers[i].dense)

InBuffers(layers, nx, nu) ==
  /\ nx <= WorkBuffer
  /\ \A k \in 1 .. Len(layers) :
       /\ Outputs(layers[k].dense) <= WorkBuffer
       /\ Written(layers, nx, k - 1, Inputs(layers[k].dense))
  /\ Written(layers, nx, Len(layers), nu)

PolicyAnswers(layers, x, nu) ==
  IF InBuffers(layers, Len(x), nu) THEN {jx_policy(layers, x, nu)} ELSE [1 .. nu -> Arbitrary]
=============================================================================
