------------------------------- MODULE Jaxpr --------------------------------
(***************************************************************************)
(* What the primitives of a jaxpr mean to JAX. A value is [rank, m]: m is  *)
(* the array laid out as a matrix, a scalar 1x1 and a rank-1 array a       *)
(* column; rank is what JAX adds.                                          *)
(***************************************************************************)
EXTENDS Matrices

Shape(v) ==
  CASE v.rank = 0 -> <<>> [] v.rank = 1 -> <<Rows(v.m)>> [] OTHER -> <<Rows(v.m), Cols(v.m)>>
ToRows(shape) == IF shape = <<>> THEN 1 ELSE shape[1]
ToCols(shape) == IF Len(shape) < 2 THEN 1 ELSE shape[2]

Power(x, n) ==
  LET p[k \in 0..P] == IF k = 0 THEN 1 ELSE (x * p[k - 1]) % P
  IN IF n >= 0 THEN p[n] ELSE Over(1, p[-n])

Wider(m, n) == IF m >= n THEN m ELSE n

Arith == {"add", "sub", "mul", "div", "pow"}
Apply(prim, x, y) ==
  CASE prim = "add" -> (x + y) % P
    [] prim = "sub" -> (x - y) % P
    [] prim = "mul" -> (x * y) % P
    [] prim = "div" -> Over(x, y)
    [] prim = "pow" -> Power(x, y)
    [] prim = "max" -> Wider(x, y)

\* The smooth functions, as functions of the field that differ.
Functions == <<"sin", "cos", "tan", "exp", "log", "sqrt", "tanh", "logistic">>
Function(prim, x) ==
  LET k == CHOOSE n \in DOMAIN Functions : Functions[n] = prim IN (x * x + k) % P
Truncated(x) == x - (x % 2)

\* Axes of size 1 stretch; ranks agree unless one operand is a scalar.
Stretch(m, i, j) == m[IF Rows(m) = 1 THEN 1 ELSE i][IF Cols(m) = 1 THEN 1 ELSE j]
Broadcasts(a, b) ==
  /\ a.rank = b.rank \/ 0 \in {a.rank, b.rank}
  /\ Rows(a.m) = Rows(b.m) \/ 1 \in {Rows(a.m), Rows(b.m)}
  /\ Cols(a.m) = Cols(b.m) \/ 1 \in {Cols(a.m), Cols(b.m)}
JaxArith(prim, a, b) ==
  Grid(Wider(Rows(a), Rows(b)), Wider(Cols(a), Cols(b)),
       LAMBDA i, j : Apply(prim, Stretch(a, i, j), Stretch(b, i, j)))

JaxBroadcast(a, shape, bdims) ==
  LET Axis(n, i, j) == IF n \in DOMAIN bdims THEN (IF bdims[n] = 0 THEN i ELSE j) ELSE 1
  IN Grid(ToRows(shape), ToCols(shape),
          LAMBDA i, j : Stretch(a, Axis(1, i, j), Axis(2, i, j)))

\* Contraction of one axis of each operand; their free axes are what is left.
JaxDot(a, b, lc, rc) ==
  LET A == IF lc = 0 THEN Transpose(a.m) ELSE a.m
      B == IF rc = 0 THEN b.m ELSE Transpose(b.m)
  IN IF a.rank = 1 THEN Transpose(MatProduct(A, B)) ELSE MatProduct(A, B)

\* dynamic_slice moves a start that leaves no room.
Clamped(start, size, extent) == IF start + size > extent THEN extent - size ELSE start
=============================================================================
