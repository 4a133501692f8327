---------------------------- MODULE Equivalence -----------------------------
(***************************************************************************)
(* The two readers of a run: parse_trace, which turns stdout into a        *)
(* trajectory or refuses it, and compare, which holds a trajectory against *)
(* a reference under the tolerance table. A trajectory is a function from  *)
(* quantity names to one vector per step.                                  *)
(***************************************************************************)
EXTENDS ControlBinary

CONSTANTS
  Tolerances  \* the table: a function of family, dtype and quantity to the two bounds

ASSUME ToleranceAssumption == \A row \in DOMAIN Tolerances : Tolerances[row].abs \in Nat

Scale == 100  \* relative bounds are in hundredths

Failed(error) == [kind |-> "raised", error |-> error]

(***************************************************************************)
(* parse_trace. A schema is a function from names to lengths.              *)
(***************************************************************************)
Matches(line, schema) ==
  /\ DOMAIN line.values = DOMAIN schema
  /\ \A q \in DOMAIN schema : Len(line.values[q]) = schema[q]

Parses(lines, schema, n) ==
  /\ Len(lines) = n
  /\ \A i \in 1 .. n :
       lines[i].json /\ "step" \in DOMAIN lines[i] /\ lines[i].step = i - 1 /\ Matches(lines[i], schema)

parse_trace(lines, schema, n) ==
  [q \in DOMAIN schema |-> [i \in 1 .. n |-> lines[i].values[q]]]

(***************************************************************************)
(* compare. A step violates its tolerance when the largest absolute and    *)
(* the largest relative error of its entries, which need not be of one     *)
(* entry, both exceed theirs; a NaN among the errors exceeds nothing. The  *)
(* quantities are taken by their names' order, and the first that has no   *)
(* row in the table, or other shapes, raises.                              *)
(***************************************************************************)
Magnitude(v) == IF v < 0 THEN -v ELSE v
Larger(a, b) == IF a > b THEN a ELSE b

\* Deviation: the sign of the difference is kept.
AbsExceedsSigned(tol, a, b) == a - b > tol.abs

AbsExceeds(tol, a, b) == Magnitude(a - b) > tol.abs

RelExceeds(tol, a, b) == Magnitude(a - b) * Scale > tol.rel * Larger(Magnitude(a), Magnitude(b))

StepViolates(tol, a, b) ==
  /\ NaN \notin ToSet(a) \union ToSet(b)
  /\ \E k \in DOMAIN a : AbsExceeds(tol, a[k], b[k])
  /\ \E k \in DOMAIN a : RelExceeds(tol, a[k], b[k])

SameShape(a, b) == Len(a) = Len(b) /\ \A i \in DOMAIN a : Len(a[i]) = Len(b[i])

Passes(tol, source, candidate) ==
  \A i \in DOMAIN source : ~ StepViolates(tol, source[i], candidate[i])

Turn == [actuator_torque |-> 1, joint_position |-> 2, joint_velocity |-> 3]

compare(source, candidate, family, dtype) ==
  LET names == DOMAIN source
      Row(q) == <<family, dtype, q>>
      Unlisted  == {q \in names : Row(q) \notin DOMAIN Tolerances}
      Misshapen == {q \in names : ~ SameShape(source[q], candidate[q])}
      first == CHOOSE q \in Unlisted \union Misshapen :
                 \A r \in Unlisted \union Misshapen : Turn[q] <= Turn[r]
  IN IF DOMAIN candidate # names THEN Failed("EquivalenceError")
     ELSE IF Unlisted \union Misshapen # {}
          THEN Failed(IF first \in Unlisted THEN "KeyError" ELSE "EquivalenceError")
     ELSE [kind   |-> "report",
           passed |-> \A q \in names : Passes(Tolerances[Row(q)], source[q], candidate[q])]

(***************************************************************************)
(* The host's reference: the same solver and policy around the host's own  *)
(* arithmetic. It does not look at the solver's status and goes on with    *)
(* NaN, and the arbiter refuses a policy of another dimension.             *)
(***************************************************************************)
HostCommand(exe, x) ==
  LET mpc == Control(exe.gen, x) IN
  IF exe.main.layers = <<>> THEN mpc
  ELSE arbitrate(exe.main.plan, mpc, forward(exe.main.layers, x), x, FALSE).command

HostRows(exe, n, seed) ==
  LET Row[i \in 1 .. n] ==
        LET x == IF i = 1 THEN Seeded(exe.main.x0, seed) ELSE Plant(Row[i - 1].x, Row[i - 1].cmd)
        IN [x |-> x, cmd |-> HostCommand(exe, x)]
  IN Row

Reference(exe, n, seed) ==
  LET rows == HostRows(exe, n, seed) IN
  [q \in Quantities(CARTPOLE_LQR_TRACE) |->
     [i \in 1 .. n |-> Slice(CHOOSE t \in CARTPOLE_LQR_TRACE : t.name = q, rows[i].x, rows[i].cmd)]]
=============================================================================
