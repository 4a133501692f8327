---------------------------- MODULE MCLowering -----------------------------
(***************************************************************************)
(* Functions of a two-entry state and a one-entry input, with a scalar and *)
(* a matrix among the constants; every tree of three bodies; problems of   *)
(* two stages.                                                             *)
(***************************************************************************)
EXTENDS Lowering

Array(rank, m) == [rank |-> rank, m |-> m]
MCSignatures ==
  {<<Array(1, Column(<<2, 3>>)), Array(1, Column(<<4>>))>>, <<Array(3, Raised)>>}
MCConsts == <<Array(0, Scalar(1)), Array(2, <<<<1, 3>>, <<5, 6>>>>)>>
MCCalls  == {[family |-> "cortex-a76", dtype |-> "float32"]}

Body(b, parent, joints, offset) ==
  [parent |-> parent, joints |-> joints, offset |-> offset,
   mass |-> b + 1, com |-> 2 * b + 1, ic |-> b + 4, shift |-> 3 * b + 1, scale |-> b + 1,
   q |-> 2 * b, qd |-> b + 2, tau |-> 5 * b + 3, armature |-> b, damping |-> 2 * b]
Trees(n) == {f \in [1..n -> 0..(n - 1)] : \A b \in 1..n : f[b] < b}
Robot(f, j) == [b \in DOMAIN f |-> Body(b, f[b], j[b], FALSE)]
Floating == <<Body(1, 0, <<"free">>, FALSE), Body(2, 1, <<"hinge">>, FALSE)>>
Offset   == <<Body(1, 0, <<"hinge">>, TRUE)>>
MCRobots ==
  {Robot(f, j) : f \in Trees(3), j \in [1..3 -> {<<>>, <<"hinge">>, <<"slide">>}]}
    \union {Floating, Offset}

MCVectors == {<<2>>, <<3, 1>>, <<2, 3, 1>>, <<1, 2, 3, 4, 5, 6>>}
MCBoxes   == {<<<<-1>>, <<2>>>>, <<<<-1, -2>>, <<1, 3>>>>}
MCOptions ==
  {[Qe |-> None, ubox |-> None, xbox |-> None],
   [Qe |-> <<3, 1>>, ubox |-> <<<<-1>>, <<2>>>>, xbox |-> <<<<-1, -2>>, <<1, 3>>>>],
   [Qe |-> None, ubox |-> None, xbox |-> <<<<-1>>, <<2>>>>],
   [Qe |-> <<2>>, ubox |-> <<<<-1, -2>>, <<1, 3>>>>, xbox |-> None]}
WbcTask(p, sw, iw, xr, ur) == Task(p, sw, iw, xr, ur)
MCTasks ==
  {<<>>, <<WbcTask(2, <<1, 3>>, <<2>>, <<4, 1>>, <<3>>)>>,
   <<WbcTask(2, <<1, 3>>, <<2>>, <<4, 1>>, <<3>>), WbcTask(3, <<2, 0>>, <<1>>, <<1, 5>>, <<2>>)>>,
   <<WbcTask(1, <<0, 3>>, <<0>>, <<4, 1>>, <<3>>), WbcTask(5, <<0, 2>>, <<0>>, <<1, 5>>, <<2>>)>>,
   <<WbcTask(1, <<1, 3>>, <<2, 1>>, <<4, 1>>, <<3, 1>>)>>}
MCStances == {<<TRUE>>, <<FALSE>>}
MCTrajectories ==
  {<<<<1, 2>>, <<3, 4>>>>, <<<<1, 2>>, <<3, 4>>, <<5, 6>>>>, <<<<6, 5>>, <<4>>, <<2, 1>>>>,
   <<<<5, 5>>, <<6, 6>>, <<8>>>>, <<<<7, 7>>, <<7, 7>>, <<7, 7>>>>}
=============================================================================
