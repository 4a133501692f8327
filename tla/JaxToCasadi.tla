---------------------------- MODULE JaxToCasadi ----------------------------
(***************************************************************************)
(* lowering/jax_to_casadi.py: translate walks the jaxpr of a function and  *)
(* builds a CasADi graph, one handler per primitive.                       *)
(*                                                                         *)
(* The jaxpr is what the environment picks, an equation at a time: any     *)
(* primitive on any variables JAX types it for. A variable is a value as   *)
(* JAX means it, next to the matrix that stands for it in CasADi: m and ca *)
(* below. m is the array laid out as the translator's comments have it, a  *)
(* scalar 1x1 and a rank-1 array a column; rank is what JAX adds.          *)
(***************************************************************************)
EXTENDS Jaxpr, Coverage

CONSTANTS
  Signatures,  \* sequences of arguments to trace with, [rank, m]
  Consts,      \* sequence of the jaxpr's constants, [rank, m]
  Calls,       \* the (family, dtype) that translate is called with
  Dims,        \* sizes of the axes that equations introduce
  Chosen,      \* bound: which of the entrywise primitives jaxprs use
  MaxEqns,     \* bound: equations of a jaxpr, those of its jits included
  MaxDepth,    \* bound: frames, the outermost included
  SoundOnly    \* only the forms that keep the layout?

\* An array of at most two axes, none of them empty.
WellShaped(v) ==
  /\ v.rank \in 0..2
  /\ Rows(v.m) \in Nat \ {0} /\ Cols(v.m) \in Nat \ {0}
  /\ v.m \in [1..Rows(v.m) -> [1..Cols(v.m) -> Field]]
  /\ v.rank < 2 => Cols(v.m) = 1
  /\ v.rank = 0 => Rows(v.m) = 1

ASSUME TranslatorAssumption ==
  /\ Calls \subseteq [family : STRING, dtype : Dtypes]
  /\ \A s \in Signatures \union {Consts} :
       Len(s) \in Nat /\ DOMAIN s = 1..Len(s)
  /\ \A s \in Signatures : \A i \in DOMAIN s : s[i].rank > 2 \/ WellShaped(s[i])
  /\ \A i \in DOMAIN Consts : WellShaped(Consts[i])
  /\ Dims \subseteq Nat \ {0} /\ MaxEqns \in Nat /\ MaxDepth \in Nat \ {0}
  /\ SoundOnly \in BOOLEAN

VARIABLES
  call,     \* what translate was called with
  sig,      \* its in_shapes, with the values the inputs stand for
  frames,   \* the environments of _translate_eqns, one for each open jit
  used,     \* primitives_used
  eqns,     \* number of equations so far
  outcome   \* "idle", "tracing", "walking", "translated", or the error raised

translatorVars == <<call, sig, frames, used, eqns, outcome>>

Outcome(kind, op, c) == [kind |-> kind, op |-> op, family |-> c.family, dtype |-> c.dtype]
Idle == Outcome("idle", "", [family |-> "", dtype |-> ""])
Defaults == [family |-> "mock-cortex-a", dtype |-> "float64"]
Placeholder == [family |-> "host", dtype |-> "float64"]

Frame == frames[Len(frames)]
Env == Frame.env
At(i) == Env[i]
Vars == IF outcome.kind = "walking" THEN DOMAIN Env ELSE {}
Smooth == {"sin", "cos", "tan", "exp", "log", "sqrt"}
Shapes == {<<>>} \union {<<d>> : d \in Dims} \union (Dims \X Dims)

-----------------------------------------------------------------------------
(***************************************************************************)
(* The handlers. A handler returns a matrix, refuses with a CoverageError, *)
(* or lets an error of CasADi or numpy through.                            *)
(***************************************************************************)
Value(m) == [kind |-> IF m = Raised THEN "crash" ELSE "value", ca |-> m, op |-> ""]
Refuse(op) == [kind |-> "CoverageError", ca |-> Raised, op |-> op]

bcast(a, b) ==
  LET r == Wider(Rows(a), Rows(b))
      c == Wider(Cols(a), Cols(b))
  IN IF IsScalar(a) \/ IsScalar(b) \/ SameSize(a, b) THEN <<a, b>>
     ELSE <<Repmat(a, r \div Rows(a), c \div Cols(a)),
            Repmat(b, r \div Rows(b), c \div Cols(b))>>

_arith(prim, a, b) ==
  LET ab == bcast(a, b)
  IN Value(Entrywise(LAMBDA x, y : Apply(prim, x, y), ab[1], ab[2]))

_pow(a, b) == Value(Entrywise(LAMBDA x, y : Power(x, y), a, b))

_neg(a) == Value(Entrywise(LAMBDA x, y : (P - x) % P, a, a))

_integer_pow(a, y) ==
  LET Times(m, n) == Entrywise(LAMBDA p, q : (p * q) % P, m, n)
  IN Value(CASE y = 2 -> Times(a, a)
             [] y = 3 -> Times(Times(a, a), a)
             [] OTHER -> Entrywise(LAMBDA p, q : Power(p, y), a, a))

_smooth(prim, a) == Value(Entrywise(LAMBDA x, y : Function(prim, x), a, a))

_broadcast_in_dim(a, shape, bdims) ==
  LET rows == shape[1]
      cols == ToCols(shape)
  IN CASE bdims = <<>> ->
            Value(IF shape \in {<<>>, <<1>>, <<1, 1>>} THEN a ELSE Repmat(a, rows, cols))
       [] bdims # <<>> /\ Len(shape) <= 1 -> Value(a)
       [] bdims = <<0>> /\ Len(shape) = 2 ->
            Value(IF cols = 1 THEN a ELSE Repmat(a, 1, cols))
       [] bdims = <<1>> /\ Len(shape) = 2 ->
            Value(IF rows = 1 THEN Transpose(a) ELSE Repmat(Transpose(a), rows, 1))
       [] OTHER -> Refuse("broadcast_in_dim")

_squeeze(a) == Value(a)
_convert_element_type(a) == Value(a)

_concatenate(a, b, dim) ==
  CASE dim = 0 -> Value(VertCat(a, b))
    [] dim = 1 -> Value(HorzCat(a, b))

_reshape(a, shape) ==
  CASE shape = <<>> -> Value(a)
    [] Len(shape) \in {1, 2} -> Value(Reshape(a, shape[1], ToCols(shape)))
    [] OTHER -> Refuse("reshape")

_transpose(a, perm) ==
  CASE perm = <<1, 0>> -> Value(Transpose(a))
    [] perm \in {<<0>>, <<0, 1>>} -> Value(a)
    [] OTHER -> Refuse("transpose")

\* Deviation: every product is taken as matrix times vector.
_dot_generalPlain(a, b, lc, batched) ==
  IF batched THEN Refuse("dot_general[batched]") ELSE Value(MTimes(a, b))

\* Only the axis of the left operand is looked at.
_dot_general(a, b, lc, batched) ==
  IF batched THEN Refuse("dot_general[batched]")
  ELSE Value(MTimes(IF lc = 0 THEN Transpose(a) ELSE a, b))

_slice(a, start, limit, strided) ==
  IF strided THEN Refuse("slice[strided]")
  ELSE IF Len(start) = 1 THEN Value(Entries(a, start[1], limit[1]))
  ELSE Value(Block(a, start[1], limit[1], start[2], limit[2]))

_dynamic_slice(a, starts, sizes) ==
  LET s == [i \in DOMAIN starts |-> starts[i].ca[1][1]] IN
  IF \E i \in DOMAIN starts : ~starts[i].np THEN Refuse("dynamic_slice[traced]")
  ELSE IF Len(s) = 1 THEN Value(Entries(a, s[1], s[1] + sizes[1]))
  ELSE Value(Block(a, s[1], s[1] + sizes[1], s[2], s[2] + sizes[2]))

\* A predicate that numpy holds is folded; one with several entries has no item().
_select_n(pred, off, on) ==
  IF ~pred.np THEN Refuse("jnp.where[traced]")
  ELSE IF ~IsScalar(pred.ca) THEN Value(Raised)
  ELSE Value(IF pred.ca[1][1] # 0 THEN on ELSE off)

_REJECTED_PRIMITIVES ==
  [cond |-> "lax.cond[traced]", while |-> "lax.while_loop",
   while_loop |-> "lax.while_loop", scan |-> "lax.scan",
   dynamic_update_slice |-> "dynamic_shape"]

-----------------------------------------------------------------------------
(***************************************************************************)
(* The walk.                                                               *)
(***************************************************************************)
Fail(kind, op, c) ==
  /\ outcome' = Outcome(kind, op, c)
  /\ frames' = <<>> /\ used' = {} /\ eqns' = 0
  /\ UNCHANGED <<call, sig>>

\* A primitive with a handler is translated whatever the coverage table says of it:
\* only those of _REJECTED_PRIMITIVES meet assert_supported. An error of a handler is
\* raised again with the coordinates of its frame.
Translate(prim, ans, rank, m, np) ==
  /\ outcome.kind = "walking" /\ eqns < MaxEqns
  /\ IF ans.kind = "value"
     THEN /\ frames' = [frames EXCEPT ![Len(frames)].env =
                          Append(@, [rank |-> rank, m |-> m, ca |-> ans.ca, np |-> np])]
          /\ used' = used \union {prim}
          /\ eqns' = eqns + 1
          /\ UNCHANGED <<call, sig, outcome>>
     ELSE Fail(ans.kind, ans.op, Frame)

Sound(condition) == SoundOnly => condition

TranslateArith(prim) ==
  \E i, j \in Vars :
    LET a == At(i)  b == At(j) IN
    /\ Broadcasts(a, b)
    /\ Translate(prim, IF prim = "pow" THEN _pow(a.ca, b.ca) ELSE _arith(prim, a.ca, b.ca),
                 Wider(a.rank, b.rank), JaxArith(prim, a.m, b.m), FALSE)

TranslateUnary ==
  \E i \in Vars :
    LET a == At(i)
        Each(f(_)) == Grid(Rows(a.m), Cols(a.m), LAMBDA p, q : f(a.m[p][q]))
    IN \/ Translate("neg", _neg(a.ca), a.rank, Each(LAMBDA x : (P - x) % P), a.np)
       \/ \E y \in {2, 3, -1} :
            Translate("integer_pow", _integer_pow(a.ca, y), a.rank,
                      Each(LAMBDA x : Power(x, y)), a.np)
       \/ \E prim \in Chosen \intersect Smooth :
            Translate(prim, _smooth(prim, a.ca), a.rank, Each(LAMBDA x : Function(prim, x)), FALSE)
       \/ \E to \in {"float", "int"} :
            /\ Sound(to = "float")
            /\ Translate("convert_element_type", _convert_element_type(a.ca), a.rank,
                         IF to = "int" THEN Each(Truncated) ELSE a.m, a.np)

\* A scalar to any shape, a vector to the rows or the columns of a matrix; a
\* vector of one entry stretched along its own axis is passed through as 1x1.
TranslateBroadcast ==
  \E i \in Vars :
    LET a == At(i) IN
    \E shape \in Shapes, bdims \in {<<>>, <<0>>, <<1>>} :
      /\ a.rank = Len(bdims) /\ Len(bdims) <= Len(shape)
      /\ bdims # <<>> => /\ bdims[1] < Len(shape)
                         /\ Rows(a.m) \in {1, shape[bdims[1] + 1]}
      /\ Sound(bdims # <<>> => Rows(a.m) = shape[bdims[1] + 1])
      /\ Translate("broadcast_in_dim", _broadcast_in_dim(a.ca, shape, bdims),
                   Len(shape), JaxBroadcast(a.m, shape, bdims), FALSE)

\* A rank-1 array promoted to three axes.
TranslateRankThree ==
  \E i \in Vars :
    /\ At(i).rank = 1
    /\ \/ Translate("broadcast_in_dim", _broadcast_in_dim(At(i).ca, <<1, 1, Rows(At(i).m)>>, <<2>>),
                    3, Raised, FALSE)
       \/ Translate("reshape", _reshape(At(i).ca, <<1, 1, Rows(At(i).m)>>), 3, Raised, FALSE)

\* A row that loses its leading axis becomes a vector, and stays a row in CasADi.
TranslateSqueeze ==
  \E i \in Vars :
    LET a == At(i) IN
    \/ /\ a.rank > 0 /\ IsScalar(a.m)
       /\ \E rank \in 0..(a.rank - 1) : Translate("squeeze", _squeeze(a.ca), rank, a.m, a.np)
    \/ /\ a.rank = 2 /\ Cols(a.m) = 1 /\ Rows(a.m) > 1
       /\ Translate("squeeze", _squeeze(a.ca), 1, a.m, a.np)
    \/ /\ a.rank = 2 /\ Rows(a.m) = 1 /\ Cols(a.m) > 1 /\ Sound(FALSE)
       /\ Translate("squeeze", _squeeze(a.ca), 1, Transpose(a.m), a.np)

TranslateConcatenate ==
  \E i, j \in Vars, dim \in {0, 1} :
    LET a == At(i)  b == At(j) IN
    /\ a.rank = b.rank /\ dim < a.rank
    /\ IF dim = 0 THEN Cols(a.m) = Cols(b.m) ELSE Rows(a.m) = Rows(b.m)
    /\ Translate("concatenate", _concatenate(a.ca, b.ca, dim), a.rank,
                 IF dim = 0 THEN VertCat(a.m, b.m) ELSE HorzCat(a.m, b.m), FALSE)

\* Counting along rows and down columns agree when either side is a vector of
\* the other's order, that is unless both have a proper matrix among them.
TranslateReshape ==
  \E i \in Vars, shape \in Shapes :
    LET a == At(i) IN
    /\ Rows(a.m) * Cols(a.m) = ToRows(shape) * ToCols(shape)
    /\ Sound(\/ shape = Shape(a)
             \/ /\ 1 \in {Rows(a.m), Cols(a.m)}
                /\ 1 \in {ToRows(shape), ToCols(shape)})
    /\ Translate("reshape", _reshape(a.ca, shape), Len(shape),
                 RowMajorReshape(a.m, ToRows(shape), ToCols(shape)), FALSE)

TranslateTranspose ==
  \E i \in Vars, perm \in {<<>>, <<0>>, <<0, 1>>, <<1, 0>>} :
    LET a == At(i) IN
    /\ a.rank = Len(perm)
    /\ Translate("transpose", _transpose(a.ca, perm), a.rank,
                 IF perm = <<1, 0>> THEN Transpose(a.m) ELSE a.m, a.np)

TranslateDot ==
  \E i, j \in Vars, lc, rc \in {0, 1} :
    LET a == At(i)  b == At(j)
        Extent(v, axis) == IF axis = 0 THEN Rows(v.m) ELSE Cols(v.m)
    IN /\ lc < a.rank /\ rc < b.rank /\ Extent(a, lc) = Extent(b, rc)
       /\ Sound(rc = 0 /\ (a.rank = 1 => b.rank = 1))
       /\ Translate("dot_general", _dot_general(a.ca, b.ca, lc, FALSE),
                    a.rank + b.rank - 2, JaxDot(a, b, lc, rc), FALSE)

TranslateBatchedDot ==
  \E i, j \in Vars :
    /\ At(i).rank = 2 /\ At(j).rank = 2 /\ SameSize(At(i).m, At(j).m)
    /\ Translate("dot_general", _dot_general(At(i).ca, At(j).ca, 1, TRUE), 1, Raised, FALSE)

TranslateSlice ==
  \E i \in Vars, s, l \in {0, 1} \X {1, 2}, strided \in BOOLEAN :
    LET a == At(i)
        start == SubSeq(<<s[1], l[1]>>, 1, a.rank)
        limit == SubSeq(<<s[2], l[2]>>, 1, a.rank)
        m == Block(a.m, s[1], s[2], l[1], l[2])
    IN /\ a.rank > 0 /\ m # Raised
       /\ a.rank = 1 => l = <<0, 1>>
       /\ Translate("slice", _slice(a.ca, start, limit, strided), a.rank, m, a.np)

TranslateDynamicSlice ==
  \E i, s \in Vars, size \in Dims :
    LET a == At(i)
        start == At(s).m[1][1]
        from == Clamped(start, size, Rows(a.m))
    IN /\ a.rank \in {1, 2} /\ At(s).rank = 0 /\ size <= Rows(a.m)
       /\ a.rank = 2 => size <= Cols(a.m)
       /\ Sound(from = start /\ (a.rank = 2 => start + size <= Cols(a.m)))
       /\ Translate("dynamic_slice",
                    _dynamic_slice(a.ca, [k \in 1..a.rank |-> At(s)], [k \in 1..a.rank |-> size]),
                    a.rank,
                    IF a.rank = 1 THEN Block(a.m, from, from + size, 0, 1)
                    ELSE LET across == Clamped(start, size, Cols(a.m))
                         IN Block(a.m, from, from + size, across, across + size),
                    a.np)

TranslateSelect ==
  \E p, i, j \in Vars :
    LET pred == At(p)  off == At(i)  on == At(j)
        Truth(r, c) == (IF pred.rank = 0 THEN pred.m[1][1] ELSE pred.m[r][c]) # 0
    IN /\ Shape(off) = Shape(on) /\ Shape(pred) \in {<<>>, Shape(on)}
       /\ Translate("select_n", _select_n(pred, off.ca, on.ca), on.rank,
                    Grid(Rows(on.m), Cols(on.m),
                         LAMBDA r, c : IF Truth(r, c) THEN on.m[r][c] ELSE off.m[r][c]),
                    on.np /\ off.np)

\* A primitive the table documents as refused.
Reject ==
  /\ outcome.kind = "walking" /\ eqns < MaxEqns
  /\ \E prim \in DOMAIN _REJECTED_PRIMITIVES \ {"while", "while_loop"} :
       /\ assert_supported(_REJECTED_PRIMITIVES[prim], Frame.dtype, Frame.family) = "CoverageError"
       /\ Fail("CoverageError", _REJECTED_PRIMITIVES[prim], Frame)

\* A primitive without a handler: comparisons, scatter, max...
NoHandler ==
  /\ outcome.kind = "walking" /\ eqns < MaxEqns
  /\ Fail("CoverageError", "max", Frame)

\* A jit is entered with its arguments and without the coordinates of the call.
EnterJit ==
  /\ outcome.kind = "walking" /\ eqns < MaxEqns /\ Len(frames) < MaxDepth
  /\ frames' = Append(frames, [env |-> Env, args |-> Len(Env),
                               family |-> Defaults.family, dtype |-> Defaults.dtype])
  /\ UNCHANGED <<call, sig, used, eqns, outcome>>

\* The caller binds the jit's output, the last value of its body.
ReturnJit ==
  /\ outcome.kind = "walking" /\ Len(frames) > 1 /\ Len(Env) > Frame.args
  /\ frames' = [SubSeq(frames, 1, Len(frames) - 1) EXCEPT
                  ![Len(frames) - 1].env = Append(@, At(Len(Env)))]
  /\ UNCHANGED <<call, sig, used, eqns, outcome>>

\* translate: the trace, and the search for a while loop at any depth.
Trace ==
  /\ outcome.kind = "idle"
  /\ \E c \in Calls, s \in Signatures, hasWhile \in BOOLEAN :
       /\ call' = c /\ sig' = s
       /\ outcome' = IF hasWhile THEN Outcome("CoverageError", "lax.while_loop", c)
                                 ELSE Outcome("tracing", "", c)
  /\ UNCHANGED <<frames, used, eqns>>

\* _build_input_symbols, which refuses rank 3 with placeholder coordinates.
BuildInputSymbols ==
  /\ outcome.kind = "tracing"
  /\ IF \E i \in DOMAIN sig : sig[i].rank > 2
     THEN Fail("CoverageError", "input", Placeholder)
     ELSE LET Sym(v, np) == [rank |-> v.rank, m |-> v.m, ca |-> v.m, np |-> np]
              env == [i \in DOMAIN sig |-> Sym(sig[i], FALSE)]
                     \o [i \in DOMAIN Consts |-> Sym(Consts[i], TRUE)]
          IN /\ frames' = <<[env |-> env, args |-> Len(env),
                             family |-> call.family, dtype |-> call.dtype]>>
             /\ outcome' = Outcome("walking", "", call)
             /\ UNCHANGED <<call, sig, used, eqns>>

\* The output is the last value; its shape is the jaxpr's, not CasADi's.
Finish ==
  /\ outcome.kind = "walking" /\ Len(frames) = 1 /\ Len(Env) > Frame.args
  /\ outcome' = Outcome("translated", "", call)
  /\ UNCHANGED <<call, sig, frames, used, eqns>>

WalkEquation ==
  \/ \E prim \in Arith \intersect Chosen : TranslateArith(prim)
  \/ TranslateUnary \/ TranslateBroadcast \/ TranslateRankThree \/ TranslateSqueeze
  \/ TranslateConcatenate \/ TranslateReshape \/ TranslateTranspose
  \/ TranslateDot \/ TranslateBatchedDot \/ TranslateSlice \/ TranslateDynamicSlice
  \/ TranslateSelect \/ Reject \/ NoHandler

TranslatorInit ==
  /\ call = Defaults /\ sig = <<>> /\ frames = <<>> /\ used = {}
  /\ eqns = 0 /\ outcome = Idle

TranslatorNext ==
  Trace \/ BuildInputSymbols \/ WalkEquation \/ EnterJit \/ ReturnJit \/ Finish

-----------------------------------------------------------------------------
(***************************************************************************)
(* Properties.                                                             *)
(***************************************************************************)

\* Every variable of every open frame is held by CasADi as the matrix JAX
\* means, through any chain of handlers and any nesting of jits: no handler
\* leaves a value in a layout the next one reads differently.
LayoutAgrees ==
  \A f \in DOMAIN frames : \A i \in DOMAIN frames[f].env :
    frames[f].env[i].ca = frames[f].env[i].m
=============================================================================
