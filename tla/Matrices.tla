------------------------------ MODULE Matrices ------------------------------
(***************************************************************************)
(* What the lowering uses of CasADi: dense matrices, never of rank 0 or 1. *)
(* Entries are numbers modulo a prime P instead of symbolic expressions:   *)
(* sums, products and quotients exist, and entries that a wrong layout     *)
(* moves are told apart. An operation on which CasADi raises yields        *)
(* Raised.                                                                 *)
(***************************************************************************)
EXTENDS Integers, Sequences

CONSTANT P   \* the prime

Field == 0..(P - 1)

\* P is a prime above 2, so that every number but 0 has an inverse.
ASSUME PrimeAssumption ==
  /\ P \in Nat \ {0, 1, 2} /\ \A d \in 2..(P - 1) : P % d # 0
  /\ \A b \in Field \ {0} : \E i \in Field : (b * i) % P = 1

\* The quotient; 0 / 0 and x / 0 are one value, as inf and nan are on both sides.
Over(a, b) == IF b = 0 THEN 0 ELSE (a * (CHOOSE i \in Field : (b * i) % P = 1)) % P

\* The sum of g[1], ..., g[n].
Total(n, g) ==
  LET s[i \in 0..n] == IF i = 0 THEN 0 ELSE (s[i - 1] + g[i]) % P IN s[n]
SumOver(n, f(_)) == Total(n, [k \in 1..n |-> f(k)])

Raised == <<>>
Rows(m) == Len(m)
Cols(m) == Len(m[1])
Grid(r, c, f(_, _)) == [i \in 1..r |-> [j \in 1..c |-> f(i, j)]]
IsScalar(m) == m # Raised /\ Rows(m) = 1 /\ Cols(m) = 1
SameSize(a, b) == Rows(a) = Rows(b) /\ Cols(a) = Cols(b)
Column(s) == [i \in 1..Len(s) |-> <<s[i]>>]
Scalar(x) == <<<<x>>>>

Transpose(m) == Grid(Cols(m), Rows(m), LAMBDA i, j : m[j][i])

Repmat(m, p, q) ==
  Grid(p * Rows(m), q * Cols(m),
       LAMBDA i, j : m[((i - 1) % Rows(m)) + 1][((j - 1) % Cols(m)) + 1])

\* An operator by entries: a 1x1 operand meets every entry of the other.
Entrywise(op(_, _), a, b) ==
  IF IsScalar(a) THEN Grid(Rows(b), Cols(b), LAMBDA i, j : op(a[1][1], b[i][j]))
  ELSE IF IsScalar(b) THEN Grid(Rows(a), Cols(a), LAMBDA i, j : op(a[i][j], b[1][1]))
  ELSE IF SameSize(a, b) THEN Grid(Rows(a), Cols(a), LAMBDA i, j : op(a[i][j], b[i][j]))
  ELSE Raised

\* The product of matrices that fit.
MatProduct(a, b) ==
  Grid(Rows(a), Cols(b), LAMBDA i, j : SumOver(Cols(a), LAMBDA k : a[i][k] * b[k][j]))

\* ca.mtimes: a 1x1 operand scales the other.
MTimes(a, b) ==
  IF IsScalar(a) \/ IsScalar(b) THEN Entrywise(LAMBDA x, y : (x * y) % P, a, b)
  ELSE IF Cols(a) = Rows(b) THEN MatProduct(a, b) ELSE Raised

\* ca.reshape counts entries down the columns, JAX and numpy along the rows.
Reshape(m, r, c) ==
  LET At(k) == m[(k % Rows(m)) + 1][(k \div Rows(m)) + 1] IN
  IF r * c # Rows(m) * Cols(m) THEN Raised
  ELSE Grid(r, c, LAMBDA i, j : At((j - 1) * r + (i - 1)))

RowMajorReshape(m, r, c) ==
  LET At(k) == m[(k \div Cols(m)) + 1][(k % Cols(m)) + 1] IN
  IF r * c # Rows(m) * Cols(m) THEN Raised
  ELSE Grid(r, c, LAMBDA i, j : At((i - 1) * c + (j - 1)))

VertCat(a, b) == IF Cols(a) = Cols(b) THEN a \o b ELSE Raised
HorzCat(a, b) ==
  IF Rows(a) = Rows(b) THEN [i \in 1..Rows(a) |-> a[i] \o b[i]] ELSE Raised

\* m[r0:r1, c0:c1], counted from 0.
Block(m, r0, r1, c0, c1) ==
  IF 0 <= r0 /\ r0 < r1 /\ r1 <= Rows(m) /\ 0 <= c0 /\ c0 < c1 /\ c1 <= Cols(m)
  THEN Grid(r1 - r0, c1 - c0, LAMBDA i, j : m[r0 + i][c0 + j])
  ELSE Raised

\* m[a:b] with one index runs down the columns; of a row it is a row.
Entries(m, a, b) ==
  LET whole == Reshape(m, Rows(m) * Cols(m), 1)
      part  == Block(whole, a, b, 0, 1)
  IN IF part # Raised /\ Rows(m) = 1 THEN Transpose(part) ELSE part
=============================================================================
