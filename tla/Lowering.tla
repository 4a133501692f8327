------------------------------ MODULE Lowering ------------------------------
(***************************************************************************)
(* The lowering pipeline: dynamics come from a JAX function that translate *)
(* walks, or from a robot description; a template turns them and a cost    *)
(* into a specification, build_ocp into a problem, acados into a solver.   *)
(* What the stages share is a CasadiFunction: the shapes it declares and   *)
(* the expressions it holds.                                               *)
(***************************************************************************)
EXTENDS JaxToCasadi, RigidBody, Ocp

vars == <<translatorVars, rbdVars, ocpVars>>

Init == TranslatorInit /\ RigidBodyInit /\ OcpInit

Fresh == outcome.kind = "idle" /\ stage = "none" /\ phase = "none"

CasadiFunction(ins, out, size) == [ins |-> ins, out |-> out, outs |-> 1, size |-> size]

\* The declared shape is the jaxpr's; the expression is CasADi's.
Translated ==
  LET result == At(Len(Env)) IN
  CasadiFunction([i \in DOMAIN sig |-> Shape(sig[i])], Shape(result),
                 <<Rows(result.ca), Cols(result.ca)>>)

\* Deviation: the derivative is the accelerations without the velocities.
GeneratedAccelerations ==
  CasadiFunction(<<<<2 * dofs>>, <<dofs>>>>, <<2 * dofs>>,
                 <<IF stage = "wrapped" THEN 2 * dofs ELSE Len(qdd), 1>>)

\* Positions and velocities of what is in the tree, declared by what the model
\* counts. Pinocchio's own expression is of the size it declares.
Generated ==
  CasadiFunction(<<<<2 * dofs>>, <<dofs>>>>, <<2 * dofs>>,
                 <<IF stage = "wrapped" THEN 2 * dofs ELSE 2 * Len(qdd), 1>>)

Deliver(d) ==
  /\ phase = "none" /\ phase' = "dynamics" /\ dyn' = d
  /\ UNCHANGED <<asked, spec, ocp, yref, given, cut>>

\* What the producers held is dropped with the hand-over.
DeliverTranslated ==
  /\ outcome.kind = "walking" /\ Finish
  /\ Deliver(Translated)
  /\ UNCHANGED rbdVars

ForgetTranslation ==
  /\ outcome.kind = "translated" /\ frames # <<>>
  /\ frames' = <<>> /\ used' = {} /\ eqns' = 0
  /\ UNCHANGED <<call, sig, outcome, rbdVars, ocpVars>>

DeliverGenerated ==
  /\ stage \in {"emitted", "wrapped"} /\ Deliver(Generated)
  /\ robot' = <<>> /\ tree' = <<>> /\ stage' = "delivered"
  /\ vel' = <<>> /\ cor' = <<>> /\ IA' = <<>> /\ pA' = <<>> /\ U' = <<>> /\ D' = <<>>
  /\ uacc' = <<>> /\ acc' = <<>> /\ qdd' = <<>>
  /\ source' = "none" /\ geared' = FALSE /\ damped' = FALSE
  /\ UNCHANGED <<step, dofs, translatorVars>>

Next ==
  \/ Fresh /\ Trace /\ UNCHANGED <<rbdVars, ocpVars>>
  \/ BuildInputSymbols /\ UNCHANGED <<rbdVars, ocpVars>>
  \/ WalkEquation /\ UNCHANGED <<rbdVars, ocpVars>>
  \/ EnterJit /\ UNCHANGED <<rbdVars, ocpVars>>
  \/ ReturnJit /\ UNCHANGED <<rbdVars, ocpVars>>
  \/ DeliverTranslated \/ ForgetTranslation
  \/ outcome.kind = "idle" /\ RigidBodyNext /\ UNCHANGED <<translatorVars, ocpVars>>
  \/ DeliverGenerated
  \/ frames = <<>> /\ OcpNext /\ UNCHANGED <<translatorVars, rbdVars>>

Spec == Init /\ [][Next]_vars
=============================================================================
