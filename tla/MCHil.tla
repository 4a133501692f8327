------------------------------- MODULE MCHil --------------------------------
(***************************************************************************)
(* Two sessions around a two-entry plant with one input.                   *)
(***************************************************************************)
EXTENDS HilMirror

CONSTANTS a, b

Envelope == [state_lower |-> <<-3, -2>>, state_upper |-> <<3, 2>>,
             input_lower |-> <<-2>>, input_upper |-> <<2>>]
Plan(mode, breach) ==
  [mpc_period_ns |-> 1, policy_period_ns |-> 2, mode |-> mode, safety_envelope |-> Envelope,
   fallback_on_timeout |-> TRUE, fallback_on_envelope_breach |-> breach]

\* Two of 2 -> 1 -> 1, two that do not chain, and 2 -> 2.
Good      == {Dense(<<<<1>>, <<1>>>>, <<0>>), Dense(<<<<2>>>>, <<1>>)}
Other     == {Dense(<<<<1>>, <<1>>>>, <<0>>), Dense(<<<<2>>>>, <<0>>)}
Twice     == {Dense(<<<<1>>, <<1>>>>, <<0>>), Dense(<<<<1>>, <<2>>>>, <<0>>)}
Unchained == {Dense(<<<<1>>, <<1>>>>, <<0>>), Dense(<<<<1>>, <<2>>, <<0>>>>, <<0>>)}
Wide      == {Dense(<<<<1, 1>>, <<1, 0>>>>, <<0, 0>>)}

Design(plan, params, gain) ==
  [plan |-> plan, params |-> params, inputs |-> 2, controller |-> [gain |-> gain],
   x0 |-> <<2, 1>>, nx |-> 2, trace |-> CARTPOLE_LQR_TRACE, source |-> "robot"]
Dual == Design(Plan("residual", TRUE), Good, 1)

Schema == [joint_position |-> 1, joint_velocity |-> 1, actuator_torque |-> 1]
Target == [name |-> "pi5", toolchain |-> "gcc-14"]
Host   == [acados |-> "v0.5.4", template |-> "0.5.1", casadi |-> "3.6"]

Order(design, job, place, dir) ==
  [design |-> design, job |-> job, place |-> place, dir |-> dir, env |-> Host, target |-> Target,
   family |-> "cortex-a76", dtype |-> "float64", n |-> 3, seed |-> 0, fallbackFrom |-> <<>>,
   schema |-> Schema, nref |-> 3]

\* One session alone: the other one's build raises.
Idle    == [Order(Dual, "controller_bench", "host", 9) EXCEPT !.env.acados = "git-hangs"]
Solo(o) == [s \in Sessions |-> IF s = a THEN o ELSE Idle]
Pair(o, p) == [s \in Sessions |-> IF s = a THEN o ELSE p]

DualHil  == Order(Dual, "dual_hil", "host", 1)
Alone    == Order(Design(Plan("residual", TRUE), Good, 2), "controller_hil", "host", 1)
Unbacked == Design(Plan("residual", FALSE), Good, 1)

Kinds ==
  {Order(Dual, "dual_hil", p, 1) : p \in {"host", "target", "deployed"}}
    \union {Order(Unbacked, j, "host", 1) :
              j \in {"dual_hil", "controller_hil", "dual_bench", "controller_bench"}}
    \union {Order(Design(Plan("residual", TRUE), p, 1), "dual_hil", "host", 1) : p \in {Twice, Unchained, Wide}}

\* States off the envelope, off the range of numbers, and controls off it.
Strayed ==
  {[DualHil EXCEPT !.seed = 4], [DualHil EXCEPT !.seed = 20], [Alone EXCEPT !.seed = 20],
   Order(Design(Plan("residual", TRUE), Good, 8), "dual_hil", "host", 1)}

Misused ==
  {[DualHil EXCEPT !.design.plan.safety_envelope.input_upper = <<NaN>>],
   [DualHil EXCEPT !.fallbackFrom = <<1>>], [DualHil EXCEPT !.nref = 2], [DualHil EXCEPT !.family = "host"],
   [DualHil EXCEPT !.job = "dual_bench", !.fallbackFrom = <<1>>],
   [DualHil EXCEPT !.job = "dual_bench", !.design.params = Wide],
   [Alone EXCEPT !.n = 0], [Alone EXCEPT !.n = 6], [Alone EXCEPT !.env.acados = "no-git"],
   [Alone EXCEPT !.design.trace = {}], [Alone EXCEPT !.design.x0 = <<1, 0, 0>>]}

\* Two that end in evidence, one cycle each, and differ in one of the things it is of.
Short(o, d) == [o EXCEPT !.n = 1, !.nref = 1, !.dir = d]

\* Designs whose policy, JX_NX and initial state do not agree: a layer of more outputs than
\* a work buffer has, one that reads what is not written, and states that are shorter or
\* longer than JX_NX.
Outgrown == {Dense(<<<<1, 1, 1, 1>>, <<1, 1, 1, 1>>>>, <<0, 0, 0, 0>>), Dense(<<<<1>>, <<1>>, <<1>>, <<1>>>>, <<0>>)}
Greedy   == {Dense(<<<<1>>, <<1>>, <<1>>>>, <<0>>)}
Disagreeing ==
  {Short([DualHil EXCEPT !.design.params = Outgrown], 1),
   [DualHil EXCEPT !.design.nx = 3],
   [DualHil EXCEPT !.job = "dual_bench", !.n = 1, !.design.params = Greedy, !.design.inputs = 3],
   [DualHil EXCEPT !.job = "dual_bench", !.n = 1, !.design.x0 = <<2, 1, 3>>],
   Short([DualHil EXCEPT !.design.x0 = <<2, NaN>>], 1),
   Short([DualHil EXCEPT !.design.params = {Dense(<<<<1>>, <<NaN>>>>, <<0>>)}], 1)}
Pairs ==
  {Pair(Short(DualHil, 1), Short(Order(Unbacked, "dual_hil", "host", 2), 2)),
   Pair(Short(DualHil, 1),
        Short(Order(Design(Plan("residual", TRUE), Other, 1), "dual_hil", "host", 2), 2)),
   Pair(Short(Order(Dual, "controller_bench", "host", 1), 1),
        Short(Order(Dual, "controller_bench", "target", 2), 2)),
   Pair(Short(Order(Dual, "controller_bench", "host", 1), 1),
        Short([Alone EXCEPT !.job = "controller_bench"], 2))}

MCOrders == {Solo(o) : o \in Kinds \union Strayed \union Misused \union Disagreeing} \union Pairs

\* Benchmarks of two states of the code, both on one target, in the one directory.
MCOrdersBench ==
  {Pair(Short(Order(Dual, "controller_bench", "target", 1), 1),
        Short(Order(Design(Plan("residual", TRUE), Good, 2), "controller_bench", "target", 1), 1))}

Rows == {<<"cortex-a76", "float64", q>> : q \in DOMAIN Schema}
MCTolerances == [r \in Rows |-> [abs |-> 1, rel |-> 40]]
=============================================================================
