----------------------------- MODULE OnnxExport -----------------------------
(***************************************************************************)
(* policy/onnx_export.py: export_policy_to_onnx walks the jaxpr of a       *)
(* policy, through its calls, and appends nodes and initializers to one    *)
(* graph; the environments of the walk hold names of the graph.            *)
(*                                                                         *)
(* As in JaxToCasadi the environment picks the jaxpr an equation at a      *)
(* time, and a variable keeps what it means to JAX, [rank, m], next to the *)
(* name that stands for it. A tensor of the graph is a [rank, m] too.      *)
(***************************************************************************)
EXTENDS Jaxpr, FiniteSets, SequencesExt

CONSTANTS
  Observations,  \* the arguments that the policy may have, sequences of [rank, m]
  Params,        \* sequence of its constants: weights and biases
  Literals,      \* scalars written into equations
  Elementwise,   \* bound: the entrywise primitives that policies use
  Exponents,     \* bound: the exponents of integer powers
  NewSizes,      \* bound: the shapes that reshapes ask for
  MaxEqns,       \* bound: equations of a policy, those of its calls included
  MaxDepth,      \* bound: frames, the outermost included
  MlpOnly        \* only dense layers and conversions between float types?

\* Arrays without an empty axis.
Arrays ==
  {v \in [rank : Nat, m : Seq(Seq(Int))] :
     /\ v.m # <<>>
     /\ \A i \in DOMAIN v.m : v.m[i] # <<>> /\ Len(v.m[i]) = Len(v.m[1])}

ASSUME ExportAssumption ==
  /\ MaxEqns \in Nat /\ MaxDepth \in Nat \ {0} /\ MlpOnly \in BOOLEAN
  /\ Observations \subseteq Seq(Arrays) /\ Params \in Seq(Arrays)
  /\ Literals \subseteq Arrays /\ \A l \in Literals : l.rank = 0
  /\ NewSizes \subseteq Seq(Nat \ {0})

VARIABLES
  obs,         \* the arguments
  builder,     \* _OnnxBuilder: nodes, initializers, op_types, _counter
  frames,      \* the environments of _walk, one for each call under way
  primitives,  \* primitives_used
  eqns,        \* number of equations so far
  export       \* "idle", "walking", "exported", "CoverageError" or "crash"

exportVars == <<obs, builder, frames, primitives, eqns, export>>

-----------------------------------------------------------------------------
(***************************************************************************)
(* The graph. Names are a stem and a number.                               *)
(***************************************************************************)
EmptyBuilder == [nodes |-> <<>>, inits |-> <<>>, ops |-> {}, counter |-> 0]
Name(stem, n) == <<stem, n>>

\* The name that fresh gives next.
fresh(b, stem) == Name(stem, b.counter + 1)

\* Tensors by name, and one more or one in the place of another.
With(known, name, tensor) ==
  [n \in DOMAIN known \union {name} |-> IF n = name THEN tensor ELSE known[n]]

const(b, tensor, stem) ==
  [nodes |-> b.nodes, inits |-> With(b.inits, fresh(b, stem), tensor),
   ops |-> b.ops, counter |-> b.counter + 1]

add_node(b, op, inputs) ==
  [nodes |-> Append(b.nodes, [op |-> op, inputs |-> inputs, out |-> fresh(b, op)]),
   inits |-> b.inits, ops |-> b.ops \union {op}, counter |-> b.counter + 1]

\* What ONNX Runtime computes: a node whose inputs do not fit has no value.
NoTensor == [rank |-> 0, m |-> Raised]

MatMul(a, b) ==
  LET A == IF a.rank = 1 THEN Transpose(a.m) ELSE a.m
      R == MatProduct(A, b.m)
  IN IF 0 \in {a.rank, b.rank} \/ Cols(A) # Rows(b.m) THEN NoTensor
     ELSE [rank |-> a.rank + b.rank - 2, m |-> IF a.rank = 1 THEN Transpose(R) ELSE R]

Operator ==
  [Add |-> "add", Sub |-> "sub", Mul |-> "mul", Div |-> "div", Max |-> "max", Pow |-> "pow",
   Tanh |-> "tanh", Sigmoid |-> "logistic", Exp |-> "exp", Log |-> "log", Sqrt |-> "sqrt"]

Each(a, f(_)) == [rank |-> a.rank, m |-> Grid(Rows(a.m), Cols(a.m), LAMBDA i, j : f(a.m[i][j]))]
Pairwise(prim, a, b) == [rank |-> Wider(a.rank, b.rank), m |-> JaxArith(prim, a.m, b.m)]

Compute(op, args) ==
  LET a == args[1] IN
  CASE \E i \in DOMAIN args : args[i].m = Raised -> NoTensor
    [] op = "Identity" -> a
    [] op = "Neg"      -> Each(a, LAMBDA x : (P - x) % P)
    [] op = "MatMul"   -> MatMul(a, args[2])
    [] op = "Reshape"  -> LET shape == args[2].m[1] IN
                          [rank |-> Len(shape), m |-> RowMajorReshape(a.m, ToRows(shape), ToCols(shape))]
    [] op \in DOMAIN Operator /\ Len(args) = 1 -> Each(a, LAMBDA x : Function(Operator[op], x))
    [] OTHER -> IF Broadcasts(a, args[2]) THEN Pairwise(Operator[op], a, args[2]) ELSE NoTensor

\* The tensors of a graph by name; a node sees what is before it.
Given(b, inputs) ==
  [n \in {Name("in", i) : i \in DOMAIN inputs} \union DOMAIN b.inits |->
     IF n[1] = "in" THEN inputs[n[2]] ELSE b.inits[n]]

Computed(known, node) ==
  LET In(n) == IF n \in DOMAIN known THEN known[n] ELSE NoTensor
  IN With(known, node.out, Compute(node.op, [i \in DOMAIN node.inputs |-> In(node.inputs[i])]))

Tensors(b, inputs) ==
  LET known[k \in 0..Len(b.nodes)] ==
        IF k = 0 THEN Given(b, inputs) ELSE Computed(known[k - 1], b.nodes[k])
  IN known[Len(b.nodes)]

-----------------------------------------------------------------------------
(***************************************************************************)
(* The handlers: the builder afterwards and the name of the result, or a   *)
(* refusal.                                                                *)
(***************************************************************************)
Emitted(b, name) == [kind |-> "emitted", b |-> b, name |-> name]
Refused == [kind |-> "CoverageError", b |-> EmptyBuilder, name |-> Name("", 0)]
Node(b, op, inputs) == Emitted(add_node(b, op, inputs), fresh(b, op))

_HANDLERS ==
  [add |-> "Add", sub |-> "Sub", mul |-> "Mul", div |-> "Div", max |-> "Max",
   tanh |-> "Tanh", logistic |-> "Sigmoid", exp |-> "Exp", log |-> "Log", sqrt |-> "Sqrt"]

\* What has no handler is WalkUnsupported.
ASSUME HandlerAssumption == Elementwise \subseteq DOMAIN _HANDLERS

_unary(b, prim, x)     == Node(b, _HANDLERS[prim], <<x>>)
_binary(b, prim, x, y) == Node(b, _HANDLERS[prim], <<x, y>>)
_neg(b, x)             == Node(b, "Neg", <<x>>)

_integer_pow(b, x, y) ==
  Node(const(b, [rank |-> 0, m |-> Scalar(y)], "pow_exp"), "Pow", <<x, fresh(b, "pow_exp")>>)

\* Deviation: the axis of the right operand is not looked at either.
_dot_generalAny(b, x, y, rhs, batched) ==
  IF batched THEN Refused ELSE Node(b, "MatMul", <<x, y>>)

\* Only the axis of the right operand is looked at.
_dot_general(b, x, y, rhs, batched) ==
  IF batched \/ rhs # 0 THEN Refused ELSE Node(b, "MatMul", <<x, y>>)

_convert_element_type(b, x) == Emitted(b, x)

\* The shape is an initializer of integers.
_reshape(b, x, shape) ==
  Node(const(b, [rank |-> 1, m |-> <<shape>>], "reshape_shape"), "Reshape",
       <<x, fresh(b, "reshape_shape")>>)

-----------------------------------------------------------------------------
(***************************************************************************)
(* The walk.                                                               *)
(***************************************************************************)
Env == frames[Len(frames)]
Var(rank, m, name) == [rank |-> rank, m |-> m, name |-> name]
Value(v) == [rank |-> v.rank, m |-> v.m]

\* An operand of an equation is a variable or a literal.
Operands ==
  IF export = "walking"
  THEN [lit : {FALSE}, v : ToSet(Env)] \union [lit : {TRUE}, v : Literals]
  ELSE {}

\* A literal becomes an initializer of its own at each use.
_resolve(b, o) ==
  IF o.lit THEN [b |-> const(b, o.v, "lit"), name |-> fresh(b, "lit")]
  ELSE [b |-> b, name |-> o.v.name]

Bind(env, v, name) == Append(env, Var(v.rank, v.m, name))

Stop(how) ==
  /\ export' = how
  /\ builder' = EmptyBuilder /\ frames' = <<>> /\ primitives' = {} /\ eqns' = 0
  /\ UNCHANGED obs

Walk(prim, ans, v) ==
  /\ eqns < MaxEqns
  /\ IF ans.kind = "emitted"
     THEN /\ builder' = ans.b
          /\ frames' = [frames EXCEPT ![Len(frames)] = Bind(@, v, ans.name)]
          /\ primitives' = primitives \union {prim}
          /\ eqns' = eqns + 1
          /\ UNCHANGED <<obs, export>>
     ELSE Stop(ans.kind)

Mlp(condition) == MlpOnly => condition

WalkUnary ==
  \E v \in ToSet(Env) :
    \/ \E prim \in Elementwise \intersect ToSet(Functions) :
         Walk(prim, _unary(builder, prim, v.name), Each(v, LAMBDA e : Function(prim, e)))
    \/ Walk("neg", _neg(builder, v.name), Each(v, LAMBDA e : (P - e) % P))
    \/ \E y \in Exponents :
         Walk("integer_pow", _integer_pow(builder, v.name, y), Each(v, LAMBDA e : Power(e, y)))
    \/ \E to \in {"float", "int"} :
         /\ Mlp(to = "float")
         /\ Walk("convert_element_type", _convert_element_type(builder, v.name),
                 IF to = "int" THEN Each(v, Truncated) ELSE Value(v))

WalkBinary ==
  \E o, p \in Operands, prim \in Elementwise \intersect {"add", "sub", "mul", "div", "max"} :
    LET x == _resolve(builder, o)
        y == _resolve(x.b, p)
    IN /\ ~ (o.lit /\ p.lit) /\ Broadcasts(o.v, p.v)
       /\ Walk(prim, _binary(y.b, prim, x.name, y.name), Pairwise(prim, o.v, p.v))

\* A dense layer in any orientation that JAX types.
WalkDot ==
  \E a, b \in ToSet(Env), lc, rc \in {0, 1} :
    LET Extent(v, axis) == IF axis = 0 THEN Rows(v.m) ELSE Cols(v.m)
    IN /\ lc < a.rank /\ rc < b.rank /\ Extent(a, lc) = Extent(b, rc)
       /\ Mlp(lc = a.rank - 1)
       /\ Walk("dot_general", _dot_general(builder, a.name, b.name, rc, FALSE),
               [rank |-> a.rank + b.rank - 2, m |-> JaxDot(a, b, lc, rc)])

WalkBatchedDot ==
  \E a, b \in ToSet(Env) :
    /\ a.rank = 2 /\ b.rank = 2 /\ SameSize(a.m, b.m)
    /\ Walk("dot_general", _dot_general(builder, a.name, b.name, 0, TRUE), NoTensor)

WalkReshape ==
  \E v \in ToSet(Env), shape \in NewSizes :
    /\ Rows(v.m) * Cols(v.m) = ToRows(shape) * ToCols(shape)
    /\ Walk("reshape", _reshape(builder, v.name, shape),
            [rank |-> Len(shape), m |-> RowMajorReshape(v.m, ToRows(shape), ToCols(shape))])

\* A primitive without a handler: comparisons, select_n, transpose...
WalkUnsupported == eqns < MaxEqns /\ Stop("CoverageError")

\* jit, closed_call, custom_jvp_call, custom_vjp_call: the body sees its
\* arguments and constants of its own, and appends to the one graph. What the
\* caller's environment holds besides is under variables no body mentions.
EnterCall ==
  /\ eqns < MaxEqns /\ Len(frames) < MaxDepth
  /\ \E o \in Operands, closes \in {{}} \union {{i} : i \in DOMAIN Params} :
       LET x == _resolve(builder, o)
           own == SetToSeq(closes)
           env == <<Var(o.v.rank, o.v.m, x.name)>>
       IN /\ builder' = IF own = <<>> THEN x.b ELSE const(x.b, Params[own[1]], "param")
          /\ frames' = Append(frames,
                              IF own = <<>> THEN env
                              ELSE Bind(env, Params[own[1]], fresh(x.b, "param")))
  /\ primitives' = primitives \union {"jit"} /\ eqns' = eqns + 1
  /\ UNCHANGED <<obs, export>>

\* The body returns one of its variables, or a literal, which is in no environment.
ReturnCall ==
  /\ Len(frames) > 1
  /\ \/ \E v \in ToSet(Env) :
          frames' = [SubSeq(frames, 1, Len(frames) - 1) EXCEPT ![Len(frames) - 1] = Append(@, v)]
        /\ UNCHANGED <<obs, builder, primitives, eqns, export>>
     \/ Literals # {} /\ Stop("crash")

\* The names of the inputs, then the constants of the outermost jaxpr.
BeginExport ==
  /\ export = "idle"
  /\ \E args \in Observations :
       LET inputs == [i \in DOMAIN args |-> Var(args[i].rank, args[i].m, Name("in", i))]
           Added[i \in 0..Len(Params)] ==
             IF i = 0 THEN [b |-> EmptyBuilder, env |-> inputs]
             ELSE LET before == Added[i - 1] IN
                  [b   |-> const(before.b, Params[i], "param"),
                   env |-> Bind(before.env, Params[i], fresh(before.b, "param"))]
       IN /\ obs' = args
          /\ builder' = Added[Len(Params)].b /\ frames' = <<Added[Len(Params)].env>>
  /\ export' = "walking"
  /\ UNCHANGED <<primitives, eqns>>

\* An output is tied to a name of its own, so it may be an input or a literal.
Tied(o) ==
  LET x == _resolve(builder, o) IN
  [x.b EXCEPT !.nodes = Append(@, [op |-> "Identity", inputs |-> <<x.name>>, out |-> Name("out", 0)])]

Finish(o) ==
  /\ export = "walking" /\ Len(frames) = 1 /\ o \in Operands
  /\ export' = "exported"
  /\ builder' = EmptyBuilder /\ frames' = <<>> /\ primitives' = {} /\ eqns' = 0
  /\ UNCHANGED obs

WalkJaxpr ==
  /\ export = "walking"
  /\ \/ WalkUnary \/ WalkBinary \/ WalkDot \/ WalkBatchedDot \/ WalkReshape
     \/ WalkUnsupported \/ EnterCall \/ ReturnCall

ExportInit ==
  /\ obs = <<>> /\ builder = EmptyBuilder /\ frames = <<>> /\ primitives = {}
  /\ eqns = 0 /\ export = "idle"

-----------------------------------------------------------------------------
(***************************************************************************)
(* Properties.                                                             *)
(***************************************************************************)

\* Through any nesting of calls, each name that an environment holds is the name
\* of a tensor of the graph with the shape and the entries that JAX means: no
\* handler emits a wrong operator, no name is used twice, and no binding of a
\* call is mixed up.
GraphComputesPolicy ==
  LET tensors == Tensors(builder, obs) IN
  \A f \in DOMAIN frames : \A v \in ToSet(frames[f]) :
    v.name \in DOMAIN tensors /\ tensors[v.name] = Value(v)
=============================================================================
