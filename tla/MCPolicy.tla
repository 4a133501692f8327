------------------------------ MODULE MCPolicy ------------------------------
(***************************************************************************)
(* Policies of one observation with two entries and a 2x2 weight.          *)
(***************************************************************************)
EXTENDS Policy

Array(rank, m) == [rank |-> rank, m |-> m]
MCObservations == {<<Array(1, Column(<<2, 3>>))>>}
MCParams       == <<Array(2, <<<<1, 3>>, <<5, 6>>>>)>>
MCLiterals     == {Array(0, Scalar(0))}
MCNewSizes     == {<<>>, <<4>>, <<1, 2>>}

\* tanh(x @ W), and the policy that is a constant.
MCConverted == {<<17, 25>>, <<0>>}
MCOthers    == {<<9, 8>>}
MCErrors    == {0, -3, NaN}
=============================================================================
