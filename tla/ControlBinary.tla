--------------------------- MODULE ControlBinary ----------------------------
(***************************************************************************)
(* The closed-loop programs that jaxility generates in C: a controller     *)
(* alone or with a policy, as a HIL binary that prints a trace or as a     *)
(* benchmark that prints solve times. One process per session, which takes *)
(* the steps of main one at a time; whatever acados returns may be a       *)
(* failure, and then main returns 1. A process that outgrows its buffers   *)
(* may be killed.                                                          *)
(***************************************************************************)
EXTENDS GeneratedSolver

CONSTANTS
  Sessions,  \* who runs a binary
  Drifts,    \* what the target's arithmetic may add to the host's in a cycle
  MaxSteps,  \* the most cycles main accepts
  Warmup     \* untimed cycles of a benchmark

VARIABLE proc  \* each session's process

NoProcess == [at |-> "none"]

Composed(program) == program.kind \in {"dual_hil", "dual_bench"}
Timing(program)   == program.kind \in {"controller_bench", "dual_bench"}

(***************************************************************************)
(* Generation. The C of a composed program holds the envelope, the two     *)
(* fallback flags and the layers; the plan is kept whole beside them for   *)
(* the properties, and main reads nothing else of it. JX_NX, the initial   *)
(* state and the policy are written as they are given, and may not agree.  *)
(***************************************************************************)
Quantity(name, buffer, start, length) ==
  [name |-> name, buffer |-> buffer, start |-> start, length |-> length]

CARTPOLE_LQR_TRACE ==
  {Quantity("joint_position", "x", 0, 1), Quantity("joint_velocity", "x", 1, 1),
   Quantity("actuator_torque", "u", 0, 1)}

Program(kind, d) ==
  LET dual == kind \in {"dual_hil", "dual_bench"} IN
  [kind |-> kind, plan |-> d.plan, x0 |-> d.x0, nx |-> d.nx,
   layers |-> IF dual THEN from_flax(d.params, d.inputs) ELSE <<>>,
   trace  |-> IF dual THEN CARTPOLE_LQR_TRACE ELSE d.trace]

Generates(kind, d) ==
  IF kind \in {"dual_hil", "dual_bench"}
  THEN PlanValid(d.plan) /\ Chained(d.params, d.inputs)
  ELSE Len(d.x0) = d.nx

\* What is not a number is written as a word that is none of C.
Compiles(program) ==
  /\ NaN \notin ToSet(program.x0)
  /\ Composed(program) =>
       LET env == program.plan.safety_envelope IN
       /\ NaN \notin ToSet(env.state_lower) \union ToSet(env.state_upper)
                      \union ToSet(env.input_lower) \union ToSet(env.input_upper)
       /\ \A k \in DOMAIN program.layers :
            LET dense == program.layers[k].dense IN
            NaN \notin ToSet(dense.bias) \union UNION {ToSet(row) : row \in ToSet(dense.kernel)}

(***************************************************************************)
(* main                                                                    *)
(***************************************************************************)
\* What C makes of an array with fewer initialisers than entries, or with more.
Entry(initialisers, k) == IF k \in DOMAIN initialisers THEN initialisers[k] ELSE 0

Initialised(main) == [k \in 1 .. main.nx |-> Entry(main.x0, k)]

Started(exe, argv) ==
  [at |-> "arguments", exe |-> exe, argv |-> argv, rc |-> 0, i |-> 0,
   x |-> Initialised(exe.main), mpc |-> <<>>, cmd |-> <<>>, ran |-> <<>>]

Main(s)     == proc[s].exe.main
Exit(s, rc) == proc' = [proc EXCEPT ![s].at = "exited", ![s].rc = rc]
Go(s, at)   == proc' = [proc EXCEPT ![s].at = at]

Cycles(p) == p.argv.n + IF Timing(p.exe.main) THEN Warmup ELSE 0

\* Only the HIL binary with a policy takes the cycle of a forced time-out.
Usage(p) == p.argv.fallbackFrom = <<>> \/ p.exe.main.kind = "dual_hil"

CheckArguments(s) ==
  /\ proc[s].at = "arguments"
  /\ IF Usage(proc[s]) /\ proc[s].argv.n \in 1 .. MaxSteps THEN Go(s, "create") ELSE Exit(s, 2)

Seeded(x, seed) == [x EXCEPT ![1] = Plus(@, seed)]

Create(s) ==
  /\ proc[s].at = "create"
  /\ \/ Exit(s, 1)
     \/ proc' = [proc EXCEPT ![s].at = "solve", ![s].x = Seeded(@, proc[s].argv.seed)]

Solve(s) ==
  /\ proc[s].at = "solve"
  /\ \/ Exit(s, 1)
     \/ \E u \in Controls(proc[s].exe.gen, proc[s].x) :
          proc' = [proc EXCEPT ![s].at = "combine", ![s].mpc = u]

ForcedTimeout(p) ==
  p.argv.fallbackFrom # <<>> /\ p.argv.fallbackFrom[1] >= 0 /\ p.i >= p.argv.fallbackFrom[1]

\* state_within of the C asks whether an entry is outside, which NaN is not.
Breach(env, x) ==
  \E k \in DOMAIN x : Less(x[k], Entry(env.state_lower, k)) \/ Less(Entry(env.state_upper, k), x[k])

Clamped(env, u) ==
  [j \in DOMAIN u |-> Clip(u[j], Entry(env.input_lower, j), Entry(env.input_upper, j))]

\* Deviation: the policy is trusted whatever the state.
FallsBackOnTimeout(p) == ForcedTimeout(p) /\ p.exe.main.plan.fallback_on_timeout

FallsBack(p) ==
  LET plan == p.exe.main.plan IN
  \/ ForcedTimeout(p) /\ plan.fallback_on_timeout
  \/ Breach(plan.safety_envelope, p.x) /\ plan.fallback_on_envelope_breach

Residual(p, pol) == [j \in DOMAIN p.mpc |-> Plus(p.mpc[j], pol[j])]

\* Deviation: the fallback command goes out as the solver gave it.
LawFallbackUnclamped(p, pol) ==
  IF FallsBack(p) THEN p.mpc ELSE Clamped(p.exe.main.plan.safety_envelope, Residual(p, pol))

Law(p, pol) ==
  Clamped(p.exe.main.plan.safety_envelope, IF FallsBack(p) THEN p.mpc ELSE Residual(p, pol))

\* A policy is asked in every cycle, in those that fall back too.
Commands(p) ==
  IF Composed(p.exe.main)
  THEN {Law(p, pol) : pol \in PolicyAnswers(p.exe.main.layers, p.x, Len(p.mpc))}
  ELSE {p.mpc}

Overruns(p) == Composed(p.exe.main) /\ ~ InBuffers(p.exe.main.layers, Len(p.x), Len(p.mpc))

Killed == 139

Combine(s) ==
  /\ proc[s].at = "combine"
  /\ \/ Overruns(proc[s]) /\ Exit(s, Killed)
     \/ \E u \in Commands(proc[s]) : proc' = [proc EXCEPT ![s].at = "emit", ![s].cmd = u]

\* The trace line is printed, or the sample stored, before the plant moves.
Emit(s) ==
  /\ proc[s].at = "emit"
  /\ proc' = [proc EXCEPT ![s].at = "advance",
                          ![s].ran = Append(@, [x |-> proc[s].x, cmd |-> proc[s].cmd])]

Moved(p) == {[p EXCEPT !.x = [Plant(p.x, p.cmd) EXCEPT ![2] = Plus(@, d)],
                       !.i = @ + 1,
                       !.at = IF p.i + 1 = Cycles(p) THEN "exited" ELSE "solve"] : d \in Drifts}

Advance(s) ==
  /\ proc[s].at = "advance"
  /\ \/ Exit(s, 1)
     \/ \E p \in Moved(proc[s]) : proc' = [proc EXCEPT ![s] = p]

MainStep(s) ==
  CheckArguments(s) \/ Create(s) \/ Solve(s) \/ Combine(s) \/ Emit(s) \/ Advance(s)

(***************************************************************************)
(* What is on stdout when main returns. A slice of the state or of the     *)
(* command is printed under each quantity's name; printf writes a NaN in a *)
(* form that is not JSON.                                                  *)
(***************************************************************************)
Slice(q, x, u) == SubSeq(IF q.buffer = "x" THEN x ELSE u, q.start + 1, q.start + q.length)

Quantities(trace) == {q.name : q \in trace}

Line(trace, i, r) ==
  LET values == [n \in Quantities(trace) |->
                   Slice(CHOOSE q \in trace : q.name = n, r.x, r.cmd)] IN
  [json   |-> \A n \in DOMAIN values : NaN \notin ToSet(values[n]),
   step   |-> i, values |-> values]

Printed(p) ==
  IF Timing(p.exe.main)
  THEN IF p.rc = 0 THEN <<[json |-> TRUE, samples |-> Len(p.ran) - Warmup]>> ELSE <<>>
  ELSE [i \in DOMAIN p.ran |-> Line(p.exe.main.trace, i - 1, p.ran[i])]
=============================================================================
