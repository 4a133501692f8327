-------------------------- MODULE GeneratedSolver ---------------------------
(***************************************************************************)
(* The solver and the plant that acados generates for a controller, as     *)
(* far as those who call them can tell: a feedback law and an integrator   *)
(* are enough for what a control loop makes of them. The plant's further   *)
(* entries, if it has any, stay. At a state that is not of numbers the     *)
(* solver may still report success, with any control.                      *)
(***************************************************************************)
EXTENDS EmbeddedPolicy

Control(controller, x) == <<Times(-controller.gain, Plus(x[1], x[2]))>>
Controls(controller, x) ==
  IF NaN \in ToSet(x) THEN [1 .. 1 -> Arbitrary] ELSE {Control(controller, x)}

Plant(x, u) == [x EXCEPT ![1] = Plus(x[1], x[2]), ![2] = Plus(x[2], u[1])]
=============================================================================
