----------------------------- MODULE HilMirror ------------------------------
(***************************************************************************)
(* The binaries of the sessions implement ComposedLoop: each process shows *)
(* the job it was compiled and started for, and the states and commands it *)
(* has been through. A policy whose C the host has no counterpart for is   *)
(* not shown: the host refuses its dimensions, or it outgrows its buffers. *)
(***************************************************************************)
EXTENDS Hil

HasCounterpart(m) ==
  Composed(m) =>
    LET env == m.plan.safety_envelope IN
    /\ m.layers # <<>>
    /\ {m.nx} = {Inputs(m.layers[1].dense), Len(env.state_lower)}
    /\ {1} = {Outputs(Last(m.layers).dense), Len(env.input_lower)}
    /\ InBuffers(m.layers, m.nx, 1)

InView(s) == Running(s) /\ HasCounterpart(Main(s))

Job(p) ==
  [plan |-> p.exe.main.plan, layers |-> p.exe.main.layers, controller |-> p.exe.gen,
   fallbackFrom |-> IF p.argv.fallbackFrom = <<>> THEN -1 ELSE p.argv.fallbackFrom[1]]

Mirror == INSTANCE ComposedLoop WITH
  Loops <- Sessions,
  job   <- [s \in Sessions |-> IF InView(s) THEN Job(proc[s]) ELSE Nothing],
  x     <- [s \in Sessions |-> IF InView(s) THEN proc[s].x ELSE <<>>],
  moved <- [s \in Sessions |-> IF InView(s) THEN proc[s].i ELSE 0],
  ran   <- [s \in Sessions |-> IF InView(s) THEN proc[s].ran ELSE <<>>]

\* Each binary in view applies, cycle by cycle, the commands that arbitrate and forward
\* compute on the host for the states it reads, as long as they are of numbers.
MirrorsHost == Mirror!Spec
=============================================================================
