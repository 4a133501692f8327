-------------------------- MODULE CompositionPlan --------------------------
(***************************************************************************)
(* The dual-path contract of jaxility.compose.plan: the safety envelope,   *)
(* the two rates, and the reference arbiter. Numbers are integers of a     *)
(* bounded range with a NaN beside them, which is what a computation that  *)
(* leaves the range yields; comparisons with it are false, as in IEEE 754. *)
(***************************************************************************)
EXTENDS Integers, Sequences

CONSTANTS
  Largest,  \* the largest finite number
  NaN       \* not a number

ASSUME NumbersAssumption == Largest \in Nat /\ NaN \in Int /\ NaN \notin -Largest .. Largest

Finite  == -Largest .. Largest
Numbers == Finite \union {NaN}

Rounded(v)  == IF v \in Finite THEN v ELSE NaN
Plus(a, b)  == IF NaN \in {a, b} THEN NaN ELSE Rounded(a + b)
Less(a, b)  == NaN \notin {a, b} /\ a < b
AtMost(a, b) == NaN \notin {a, b} /\ a <= b

(***************************************************************************)
(* SafetyEnvelope                                                          *)
(***************************************************************************)
\* Of a pair with a NaN neither side is the greater.
Paired(lower, upper) ==
  /\ Len(lower) = Len(upper)
  /\ \A i \in DOMAIN lower : ~ Less(upper[i], lower[i])

EnvelopeValid(env) ==
  Paired(env.state_lower, env.state_upper) /\ Paired(env.input_lower, env.input_upper)

state_within(env, s) ==
  \A i \in DOMAIN s : AtMost(env.state_lower[i], s[i]) /\ AtMost(s[i], env.state_upper[i])

Clip(v, lower, upper) ==
  IF Less(v, lower) THEN lower ELSE IF Less(upper, v) THEN upper ELSE v

clamp_input(env, u) == [j \in DOMAIN u |-> Clip(u[j], env.input_lower[j], env.input_upper[j])]

(***************************************************************************)
(* CompositionPlan                                                         *)
(***************************************************************************)
PlanValid(plan) ==
  /\ plan.mpc_period_ns > 0 /\ plan.policy_period_ns > 0
  /\ EnvelopeValid(plan.safety_envelope)
  /\ plan.policy_period_ns >= plan.mpc_period_ns
  /\ plan.policy_period_ns % plan.mpc_period_ns = 0

(***************************************************************************)
(* arbitrate: the command, or the fallback and its reason. It refuses      *)
(* vectors of other dimensions than the envelope's.                        *)
(***************************************************************************)
Fits(plan, mpcWidth, policyWidth, stateWidth) ==
  LET env == plan.safety_envelope IN
  /\ {mpcWidth, policyWidth} = {Len(env.input_lower)}
  /\ stateWidth = Len(env.state_lower)

FallbackReason(plan, st, timedOut) ==
  IF timedOut /\ plan.fallback_on_timeout THEN "timeout"
  ELSE IF ~ state_within(plan.safety_envelope, st) /\ plan.fallback_on_envelope_breach
       THEN "envelope" ELSE "none"

Combined(plan, mpc, pol) ==
  IF plan.mode = "residual" THEN [j \in DOMAIN mpc |-> Plus(mpc[j], pol[j])] ELSE pol

arbitrate(plan, mpc, pol, st, timedOut) ==
  LET reason == FallbackReason(plan, st, timedOut) IN
  [command |-> clamp_input(plan.safety_envelope,
                           IF reason = "none" THEN Combined(plan, mpc, pol) ELSE mpc),
   path    |-> IF reason = "none" THEN "dual" ELSE "mpc_fallback",
   reason  |-> reason]
=============================================================================
