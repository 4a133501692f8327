---------------------------- MODULE ComposedLoop ----------------------------
(***************************************************************************)
(* What control binaries promise whoever compares them with a host run:    *)
(* cycle after cycle each applies, to the state it reads, the command the  *)
(* reference computes there. With a policy on board that is what arbitrate *)
(* answers to the solver's control and the policy's forward pass; without  *)
(* one it is the solver's control. At a state that is not of numbers       *)
(* nothing is promised of the command: the box test of the C lets a NaN    *)
(* pass, that of the reference does not.                                   *)
(***************************************************************************)
EXTENDS GeneratedSolver

CONSTANT Loops  \* the binaries

\* All four are functions of the loops.
VARIABLES
  job,    \* what is run: plan, layers, controller, and the cycle of a forced time-out
  x,      \* the plant's state
  moved,  \* how often the plant has moved
  ran     \* the states read and the commands applied to them

loopVars == <<job, x, moved, ran>>

TimedOut(j, cycle) == j.fallbackFrom >= 0 /\ cycle >= j.fallbackFrom

Command(j, cycle, state) ==
  LET mpc == Control(j.controller, state) IN
  IF j.layers = <<>> THEN mpc
  ELSE arbitrate(j.plan, mpc, forward(j.layers, state), state, TimedOut(j, cycle)).command

OthersStay(l) ==
  \A k \in Loops \ {l} :
    job'[k] = job[k] /\ x'[k] = x[k] /\ moved'[k] = moved[k] /\ ran'[k] = ran[k]

\* A run begins; one that is killed ends so too.
Begin(l) == moved'[l] = 0 /\ ran'[l] = <<>>

Apply(l) ==
  /\ Len(ran[l]) = moved[l]
  /\ Len(ran'[l]) = moved[l] + 1
  /\ LET cmd == ran'[l][moved[l] + 1].cmd IN
     /\ ran'[l] = Append(ran[l], [x |-> x[l], cmd |-> cmd])
     /\ NaN \notin ToSet(x[l]) => cmd = Command(job[l], moved[l], x[l])
  /\ job'[l] = job[l] /\ x'[l] = x[l] /\ moved'[l] = moved[l]

Move(l) ==
  /\ Len(ran[l]) = moved[l] + 1
  /\ moved'[l] = moved[l] + 1
  /\ job'[l] = job[l] /\ ran'[l] = ran[l]

Init == \A l \in Loops : moved[l] = 0 /\ ran[l] = <<>>
Next == \E l \in Loops : OthersStay(l) /\ (Begin(l) \/ Apply(l) \/ Move(l))
Spec == Init /\ [][Next]_loopVars
=============================================================================
