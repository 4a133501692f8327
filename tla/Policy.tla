------------------------------- MODULE Policy -------------------------------
(***************************************************************************)
(* The learned-policy path: what export_policy_to_onnx yields is what the  *)
(* converters get.                                                         *)
(***************************************************************************)
EXTENDS OnnxExport, PolicyArtifacts

vars == <<exportVars, artifactVars>>

Init == ExportInit /\ ArtifactInit

\* Deliver the outputs of the graph, not of the jaxpr.
Output(o) == Tensors(Tied(o), obs)[Name("out", 0)]
Flat(tensor) == [i \in 1..Rows(tensor.m) |-> tensor.m[i][1]]

DeliverPolicy ==
  \E o \in Operands :
    /\ Finish(o)
    /\ Cols(Output(o).m) = 1
    /\ policy' = Flat(Output(o)) /\ at' = "ready"
    /\ UNCHANGED <<calls, want, temp, kept, model, report>>

Next ==
  \/ BeginExport /\ UNCHANGED artifactVars
  \/ WalkJaxpr /\ UNCHANGED artifactVars
  \/ DeliverPolicy
  \/ ArtifactNext /\ UNCHANGED exportVars

Spec == Init /\ [][Next]_vars
=============================================================================
