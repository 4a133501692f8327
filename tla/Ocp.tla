-------------------------------- MODULE Ocp --------------------------------
(***************************************************************************)
(* From dynamics to an optimal control problem: the templates (lqr,        *)
(* tracking_mpc, centroidal_mpc and its multi-contact form, wbc) that fill *)
(* an OcpTemplateSpec, build_ocp of casadi_to_acados.py, and               *)
(* set_reference_trajectory, which writes references into a live solver.   *)
(*                                                                         *)
(* Weights and references are numbers modulo P, so that averages exist.    *)
(* Bounds are ordered integers. An optional argument that is left out is   *)
(* <<>>; an option that the solver reads and nothing here depends on, such *)
(* as the integrator, is left out.                                         *)
(***************************************************************************)
EXTENDS Matrices

CONSTANTS
  Vectors,       \* weight and reference vectors that callers pass
  Boxes,         \* pairs of bounds that callers pass, <<lower, upper>>
  Options,       \* optional arguments that the templates share, as callers pass them
  Tasks,         \* sequences of WBC tasks that callers pass
  Stances,       \* contact flags, a sequence of BOOLEAN
  Trajectories,  \* sequences of state references
  Factor,        \* Q_terminal_factor
  Horizon,       \* horizon_steps
  OneSided       \* do callers of OcpTemplateSpec give one bound without the other?

None == <<>>

ASSUME OcpAssumption ==
  Factor \in Field /\ Horizon \in Nat \ {0} /\ OneSided \in BOOLEAN

\* A box has both bounds, and neither is one that is left out.
ASSUME BoxAssumption ==
  /\ Options \subseteq
       [Qe : Vectors \union {None}, ubox : Boxes \union {None}, xbox : Boxes \union {None}]
  /\ \A box \in Boxes : box = <<box[1], box[2]>> /\ <<>> \notin {box[1], box[2]}
  /\ Stances \subseteq Seq(BOOLEAN)

\* A WBCTask; its validator compares the lengths.
WBCTask ==
  {t \in [priority : Field, sw : Seq(Field), iw : Seq(Field),
          xr : Seq(Field), ur : Seq(Field)] :
     Len(t.sw) = Len(t.xr) /\ Len(t.iw) = Len(t.ur)}
Weights(tasks, weight, i) == [k \in DOMAIN tasks |-> tasks[k].priority * tasks[k][weight][i]]

\* Weights and references are numbers modulo P, and a vector that is given is
\* not one that is left out. Callers' weights are not negative (WBCTask checks
\* that of the priority only), so they sum to 0 only where each of them is 0.
ASSUME WeightsAssumption ==
  /\ Vectors \subseteq Seq(Field) \ {<<>>}
  /\ Trajectories \subseteq Seq(Seq(Field) \ {<<>>})
  /\ Tasks \subseteq Seq(WBCTask)
  /\ \A tasks \in Tasks \ {<<>>}, weight \in {"sw", "iw"} : \A i \in DOMAIN tasks[1][weight] :
       /\ \A k \in DOMAIN tasks : Len(tasks[k][weight]) = Len(tasks[1][weight])
       /\ Total(Len(tasks), Weights(tasks, weight, i)) = 0
       => \A k \in DOMAIN tasks : Weights(tasks, weight, i)[k] % P = 0

VARIABLES
  dyn,     \* the CasadiFunction: its declared shapes and its expression's size
  phase,   \* "none", "dynamics", "spec", "ocp", "solver", "refused"
  asked,   \* history: the tasks, bounds and weights that the caller has in mind
  spec,    \* the OcpTemplateSpec
  ocp,     \* the AcadosOcp
  yref,    \* the solver's references, stages 0..Horizon
  given,   \* history: the references accepted last, at first the problem's own
  cut      \* history: the pushes that were cut short since

ocpVars == <<dyn, phase, asked, spec, ocp, yref, given, cut>>

Nothing == [none |-> TRUE]
Zeros(n) == [i \in 1..n |-> 0]
Scaled(k, v) == [i \in DOMAIN v |-> (k * v[i]) % P]
Fits(v, n) == v = None \/ Len(v) = n
Default(v, d) == IF v = None THEN d ELSE v
Lower(box) == IF box = None THEN None ELSE box[1]
Upper(box) == IF box = None THEN None ELSE box[2]

-----------------------------------------------------------------------------
(***************************************************************************)
(* The specification and the templates. A template yields the set of the   *)
(* specs it returns: none when it raises.                                  *)
(***************************************************************************)
_consistent_lengths(s) ==
  LET nx == Len(s.Q)  nu == Len(s.R) IN
  /\ Len(s.Qe) = nx /\ Len(s.xref) = nx /\ Len(s.uref) = nu /\ Len(s.x0) = nx
  /\ Fits(s.ul, nu) /\ Fits(s.uu, nu) /\ Fits(s.xl, nx) /\ Fits(s.xu, nx)

OcpTemplateSpec(Q, R, Qe, xref, uref, x0, ul, uu, xl, xu) ==
  {s \in {[Q |-> Q, R |-> R, Qe |-> Qe, xref |-> xref, uref |-> uref, x0 |-> x0,
           ul |-> ul, uu |-> uu, xl |-> xl, xu |-> xu, N |-> Horizon]} :
     _consistent_lengths(s)}

RankOneInputs(d) == Len(d.ins) = 2 /\ Len(d.ins[1]) = 1 /\ Len(d.ins[2]) = 1

lqr(d, Q, R, xref, uref, x0, opt) ==
  LET nx == d.ins[1][1]  nu == d.ins[2][1] IN
  IF /\ RankOneInputs(d)
     /\ Len(Q) = nx /\ Len(R) = nu /\ Len(x0) = nx
     /\ Fits(xref, nx) /\ Fits(uref, nu) /\ Fits(opt.Qe, nx)
     /\ Fits(Lower(opt.ubox), nu) /\ Fits(Upper(opt.ubox), nu)
     /\ Fits(Lower(opt.xbox), nx) /\ Fits(Upper(opt.xbox), nx)
  THEN OcpTemplateSpec(Q, R, Default(opt.Qe, Scaled(Factor, Q)),
                       Default(xref, Zeros(nx)), Default(uref, Zeros(nu)), x0,
                       Lower(opt.ubox), Upper(opt.ubox), Lower(opt.xbox), Upper(opt.xbox))
  ELSE {}

\* Deviation: the bounds of the state are not passed on.
tracking_mpcUnbounded(d, Q, R, uref, x0, refs, opt) ==
  IF refs = <<None>> THEN {}
  ELSE lqr(d, Q, R, IF refs = None THEN None ELSE refs[1], uref, x0, [opt EXCEPT !.xbox = None])

\* The first entry of the trajectory seeds the reference.
tracking_mpc(d, Q, R, uref, x0, refs, opt) ==
  IF refs = <<None>> THEN {}   \* supplied, and empty
  ELSE lqr(d, Q, R, IF refs = None THEN None ELSE refs[1], uref, x0, opt)

\* lqr under other names: opt.ubox is wrench_bounds.
centroidal_mpc(d, Q, R, target, wrench, x0, opt) == lqr(d, Q, R, target, wrench, x0, opt)

\* Three forces a foot; fz_max is 3 and mu 2/3.
friction_box_bounds(stance) ==
  LET Foot(i) == ((i - 1) \div 3) + 1
      Vertical(i) == i % 3 = 0
      n == 3 * Len(stance)
  IN <<[i \in 1..n |-> IF stance[Foot(i)] /\ ~Vertical(i) THEN -2 ELSE 0],
       [i \in 1..n |-> IF ~stance[Foot(i)] THEN 0 ELSE IF Vertical(i) THEN 3 ELSE 2]>>

\* It has no bounds of its own to pass on.
multi_contact_centroidal_mpc(d, Q, R, target, force, x0, stance, Qe) ==
  centroidal_mpc(d, Q, R, target, force, x0,
                 [Qe |-> Qe, ubox |-> friction_box_bounds(stance), xbox |-> None])

\* Deviation: the mean counts priorities and not weights.
_combine_tasksUnweighted(tasks, weight, reference, n) ==
  LET Sum(i, f(_)) == SumOver(Len(tasks), LAMBDA t : f(tasks[t]))
      W == [i \in 1..n |-> Sum(i, LAMBDA t : t.priority * t[weight][i])]
      Ps == [i \in 1..n |-> Sum(i, LAMBDA t : t.priority)]
      M == [i \in 1..n |-> Sum(i, LAMBDA t : t.priority * t[reference][i])]
  IN [weights |-> W, means |-> [i \in 1..n |-> IF W[i] = 0 THEN 0 ELSE Over(M[i], Ps[i])]]

\* A weighted sum of quadratics is a quadratic about the weighted mean. Of numbers
\* modulo P none is positive, so "> 0" is "# 0" here (weights are not negative, see
\* WeightsAssumption); the 1e-9 that a weight of 0 is replaced by stays 0.
_combine_tasks(tasks, weight, reference, n) ==
  LET Sum(i, f(_)) == SumOver(Len(tasks), LAMBDA t : f(tasks[t]))
      W == [i \in 1..n |-> Sum(i, LAMBDA t : t.priority * t[weight][i])]
      M == [i \in 1..n |-> Sum(i, LAMBDA t : t.priority * t[weight][i] * t[reference][i])]
  IN [weights |-> W, means |-> [i \in 1..n |-> IF W[i] = 0 THEN 0 ELSE Over(M[i], W[i])]]

\* Deviation: the terminal weights that were passed are not used.
wbcOwnTerminal(d, tasks, x0, opt) ==
  LET nx == d.ins[1][1]  nu == d.ins[2][1]
      x == _combine_tasks(tasks, "sw", "xr", nx)
      u == _combine_tasks(tasks, "iw", "ur", nu)
  IN IF /\ tasks # <<>> /\ RankOneInputs(d) /\ Len(x0) = nx /\ Fits(opt.Qe, nx)
        /\ \A t \in DOMAIN tasks : Len(tasks[t].sw) = nx /\ Len(tasks[t].iw) = nu
     THEN OcpTemplateSpec(x.weights, u.weights, Scaled(Factor, x.weights),
                          x.means, u.means, x0, Lower(opt.ubox), Upper(opt.ubox),
                          Lower(opt.xbox), Upper(opt.xbox))
     ELSE {}

\* Bounds are not checked here but by the spec.
wbc(d, tasks, x0, opt) ==
  LET nx == d.ins[1][1]  nu == d.ins[2][1]
      x == _combine_tasks(tasks, "sw", "xr", nx)
      u == _combine_tasks(tasks, "iw", "ur", nu)
  IN IF /\ tasks # <<>> /\ RankOneInputs(d) /\ Len(x0) = nx /\ Fits(opt.Qe, nx)
        /\ \A t \in DOMAIN tasks : Len(tasks[t].sw) = nx /\ Len(tasks[t].iw) = nu
     THEN OcpTemplateSpec(x.weights, u.weights, Default(opt.Qe, Scaled(Factor, x.weights)),
                          x.means, u.means, x0, Lower(opt.ubox), Upper(opt.ubox),
                          Lower(opt.xbox), Upper(opt.xbox))
     ELSE {}

-----------------------------------------------------------------------------
(***************************************************************************)
(* build_ocp.                                                              *)
(***************************************************************************)
Diagonal(v) == Grid(Len(v), Len(v), LAMBDA i, j : IF i = j THEN v[i] ELSE 0)
Eye(r, c, shift) == Grid(r, c, LAMBDA i, j : IF i = j + shift THEN 1 ELSE 0)

\* Two bounds or none: a bound without its partner is not passed on.
Box(lower, upper) ==
  IF lower # None /\ upper # None THEN <<lower, upper>> ELSE None

\* The declared shapes are compared, not the sizes of the expressions.
_signature_matches(d, s) ==
  /\ Len(d.ins) = 2 /\ d.outs = 1
  /\ d.ins = <<<<Len(s.Q)>>, <<Len(s.R)>>>> /\ d.out = <<Len(s.Q)>>

OcpOf(d, s) ==
  LET nx == Len(s.Q)  nu == Len(s.R) IN
  [f |-> d.size, W |-> Diagonal(s.Q \o s.R), We |-> Diagonal(s.Qe),
   Vx |-> Eye(nx + nu, nx, 0), Vu |-> Eye(nx + nu, nu, nx), Vxe |-> Eye(nx, nx, 0),
   yref |-> s.xref \o s.uref, yrefe |-> s.xref, x0 |-> s.x0,
   bu |-> Box(s.ul, s.uu), bx |-> Box(s.xl, s.xu), bxe |-> Box(s.xl, s.xu), N |-> s.N]

-----------------------------------------------------------------------------
(***************************************************************************)
(* The steps of a caller.                                                  *)
(***************************************************************************)
Task(priority, sw, iw, xr, ur) ==
  [priority |-> priority, sw |-> sw, iw |-> iw, xr |-> xr, ur |-> ur]
Want(tasks, opt, swing) ==
  [tasks |-> tasks, Qe |-> opt.Qe, ubox |-> opt.ubox, xbox |-> opt.xbox, swing |-> swing]

Take(specs, want) ==
  /\ phase = "dynamics"
  /\ IF specs = {} THEN phase' = "refused" /\ UNCHANGED <<spec, asked>>
     ELSE phase' = "spec" /\ spec' \in specs /\ asked' = want
  /\ UNCHANGED <<dyn, ocp, yref, given, cut>>

CallLqr ==
  \E Q, R, xref \in Vectors, opt \in Options :
    Take(lqr(dyn, Q, R, xref, None, Q, opt),
         Want(<<Task(1, Q, R, xref, Zeros(Len(R)))>>, opt, {}))

CallTracking ==
  \E Q, R, uref \in Vectors, refs \in Trajectories \union {None, <<None>>}, opt \in Options :
    Take(tracking_mpc(dyn, Q, R, uref, Q, refs, opt),
         Want(<<Task(1, Q, R, IF refs = None THEN Zeros(Len(Q)) ELSE refs[1], uref)>>, opt, {}))

CallCentroidal ==
  \E Q, R, wrench \in Vectors, opt \in Options :
    Take(centroidal_mpc(dyn, Q, R, None, wrench, Q, opt),
         Want(<<Task(1, Q, R, Zeros(Len(Q)), wrench)>>, opt, {}))

CallMultiContact ==
  \E Q, R, target \in Vectors, stance \in Stances, Qe \in Vectors \union {None} :
    Take(multi_contact_centroidal_mpc(dyn, Q, R, target, None, Q, stance, Qe),
         Want(<<Task(1, Q, R, target, Zeros(Len(R)))>>,
              [Qe |-> Qe, ubox |-> None, xbox |-> None], {f \in DOMAIN stance : ~stance[f]}))

CallWbc ==
  \E tasks \in Tasks, x0 \in Vectors, opt \in Options :
    Take(wbc(dyn, tasks, x0, opt), Want(tasks, opt, {}))

\* A spec written by hand, for any lengths of its vectors.
WriteSpec ==
  \E Q, R, Qe, xref \in Vectors, box \in Boxes, l, u \in BOOLEAN :
    LET lower == IF l THEN box[1] ELSE None
        upper == IF u THEN box[2] ELSE None
        ubox == IF l \/ u THEN <<lower, upper>> ELSE None
    IN /\ l # u => OneSided
       /\ Take(OcpTemplateSpec(Q, R, Qe, xref, Zeros(Len(R)), Q, lower, upper, None, None),
               Want(<<Task(1, Q, R, xref, Zeros(Len(R)))>>,
                    [Qe |-> Qe, ubox |-> ubox, xbox |-> None], {}))

build_ocp ==
  /\ phase = "spec"
  /\ IF _signature_matches(dyn, spec)
     THEN phase' = "ocp" /\ ocp' = OcpOf(dyn, spec)
     ELSE phase' = "refused" /\ UNCHANGED ocp
  /\ UNCHANGED <<dyn, asked, spec, yref, given, cut>>

\* The acados solver takes its references from the problem.
MakeSolver ==
  /\ phase = "ocp"
  /\ phase' = "solver"
  /\ yref' = [k \in 0..ocp.N |-> IF k = ocp.N THEN ocp.yrefe ELSE ocp.yref]
  /\ given' = [traj |-> [k \in 1..(ocp.N + 1) |-> spec.xref], u |-> spec.uref]
  /\ UNCHANGED <<dyn, asked, spec, ocp, cut>>

\* Does a push get as far as stage k before an entry of the wrong length?
Reaches(push, k) == \A i \in 0..k : Len(push.traj[i + 1]) = Len(spec.Q)
Reference(push, k) == IF k = ocp.N THEN push.traj[k + 1] ELSE push.traj[k + 1] \o push.u

\* Deviation: the terminal stage is not written.
set_reference_trajectoryInterior(traj, uref) ==
  LET n == ocp.N
      push == [traj |-> traj, u |-> Default(uref, Zeros(Len(spec.R)))]
  IN /\ phase = "solver"
     /\ IF Len(traj) < n + 1 \/ Len(push.u) # Len(spec.R)
        THEN UNCHANGED <<yref, given, cut>>
        ELSE /\ yref' = [k \in 0..n |-> IF k < n /\ Reaches(push, k) THEN Reference(push, k)
                                        ELSE yref[k]]
             /\ IF Reaches(push, n) THEN given' = push /\ cut' = {}
                ELSE cut' = cut \union {push} /\ UNCHANGED given
     /\ UNCHANGED <<dyn, phase, asked, spec, ocp>>

\* A stage of the wrong length raises when the loop comes to it: the stages
\* before it have been written.
set_reference_trajectory(traj, uref) ==
  LET n == ocp.N
      push == [traj |-> traj, u |-> Default(uref, Zeros(Len(spec.R)))]
  IN /\ phase = "solver"
     /\ IF Len(traj) < n + 1 \/ Len(push.u) # Len(spec.R)
        THEN UNCHANGED <<yref, given, cut>>
        ELSE /\ yref' = [k \in 0..n |-> IF Reaches(push, k) THEN Reference(push, k) ELSE yref[k]]
             /\ IF Reaches(push, n) THEN given' = push /\ cut' = {}
                ELSE cut' = cut \union {push} /\ UNCHANGED given
     /\ UNCHANGED <<dyn, phase, asked, spec, ocp>>

PushReferences ==
  \E traj \in Trajectories, uref \in Vectors \union {None} :
    phase = "solver" /\ set_reference_trajectory(traj, uref)

OcpInit ==
  /\ dyn = Nothing /\ phase = "none" /\ asked = Nothing /\ spec = Nothing
  /\ ocp = Nothing /\ yref = <<>> /\ given = Nothing /\ cut = {}

OcpNext ==
  CallLqr \/ CallTracking \/ CallCentroidal \/ CallMultiContact \/ CallWbc \/ WriteSpec
  \/ build_ocp \/ MakeSolver \/ PushReferences

-----------------------------------------------------------------------------
(***************************************************************************)
(* Properties.                                                             *)
(***************************************************************************)
Built == phase \in {"ocp", "solver"}

\* The gradient at z of half the square of V z - y, weighted by W.
GradientOf(V, W, y, z) ==
  LET r == Entrywise(LAMBDA a, b : (a - b) % P, MTimes(V, Column(z)), Column(y))
  IN MTimes(Transpose(V), MTimes(W, r))

\* The gradient of the stage cost that acados is given, at the state and input z,
\* and of the terminal cost at the state z.
Gradient(z) ==
  GradientOf([i \in 1..Rows(ocp.Vx) |-> ocp.Vx[i] \o ocp.Vu[i]], ocp.W, ocp.yref, z)
TerminalGradient(z) == GradientOf(ocp.Vxe, ocp.We, ocp.yrefe, z)

\* The gradient of the sum of what the tasks ask for.
Wanted(z) ==
  LET n == Len(spec.Q)
      Pull(t, i) == IF i <= n THEN t.priority * t.sw[i] * (z[i] - t.xr[i])
                              ELSE t.priority * t.iw[i - n] * (z[i] - t.ur[i - n])
  IN [i \in 1..Len(z) |->
        <<SumOver(Len(asked.tasks), LAMBDA k : Pull(asked.tasks[k], i))>>]

\* The pull of the tasks' state costs on component i, and their weight there.
StatePull(z, i) ==
  SumOver(Len(asked.tasks),
          LAMBDA k : asked.tasks[k].priority * asked.tasks[k].sw[i] * (z[i] - asked.tasks[k].xr[i]))
StateWeight(i) ==
  SumOver(Len(asked.tasks), LAMBDA k : asked.tasks[k].priority * asked.tasks[k].sw[i])

\* The origin and the unit vectors: affine functions that agree on them are equal.
Unit(n, j) == [i \in 1..n |-> IF i = j THEN 1 ELSE 0]
Corners(n) == {Unit(n, j) : j \in 0..n}

\* The cost of the problem is the sum of the costs of the tasks, up to a
\* constant: they have the same gradient everywhere, that is at the corners of
\* the space. Weighted task merging, defaults, Vx, Vu, W and yref agree on what a
\* component is.
CostIsTasks ==
  Built => \A z \in Corners(Len(spec.Q) + Len(spec.R)) : Gradient(z) = Wanted(z)

\* At the end of the horizon the problem pulls where the tasks pull: by
\* Q_terminal_factor times their weights, or by the Q_terminal of the caller, whichever
\* template it went through and however the references of the tasks were merged.
TerminalCostIsTasks ==
  Built => \A z \in Corners(Len(spec.Q)), i \in 1..Len(spec.Q) :
    LET g == TerminalGradient(z)[i][1] IN
    IF asked.Qe = None THEN g = (Factor * StatePull(z, i)) % P
    ELSE (g * StateWeight(i)) % P = (asked.Qe[i] * StatePull(z, i)) % P

\* Bounds that were asked for hold at every stage where they apply, the
\* terminal one included, and a swing foot exerts no force.
BoxesEnforced ==
  Built =>
    /\ asked.ubox # None => ocp.bu = asked.ubox
    /\ asked.xbox # None => ocp.bx = asked.xbox /\ ocp.bxe = asked.xbox
    /\ \A f \in asked.swing, i \in 1..3 :
         ocp.bu[1][3 * (f - 1) + i] = 0 /\ ocp.bu[2][3 * (f - 1) + i] = 0

\* Every stage tracks the trajectory accepted last (the problem's own reference
\* before the first), unless a push was cut short since: then the stages that a cut
\* push came to track one such push, and the others, the terminal one always among
\* them, what was accepted. A solver never tracks anything else.
TracksWhatWasAccepted ==
  phase = "solver" => \A k \in 0..ocp.N :
    LET came == {push \in cut : Reaches(push, k)} IN
    IF came = {} THEN yref[k] = Reference(given, k)
    ELSE k < ocp.N /\ yref[k] \in {Reference(push, k) : push \in came}

\* The expression given to acados is a column of nx rows, as its state is.
DynamicsFitState == Built => ocp.f = <<Len(spec.Q), 1>>
=============================================================================
