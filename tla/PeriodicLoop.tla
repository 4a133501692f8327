---------------------------- MODULE PeriodicLoop -----------------------------
(***************************************************************************)
(* What the contract in cycle.h promises the caller of jx_cycle_run,       *)
(* without saying how: tick bodies follow one another, the k-th never      *)
(* begins before k periods have passed, a stop lets at most one more body  *)
(* begin and then ends the run with 0, and a non-zero tick code ends it    *)
(* with that code.                                                         *)
(***************************************************************************)
EXTENDS Integers

CONSTANTS Periods, TickCodes

VARIABLES
  clock,   \* the monotonic clock
  period,  \* the configured period
  epoch,   \* when the run began
  phase,   \* "stopped", "waiting" between bodies, or in a "body"
  begun,   \* bodies begun in this run
  stop,    \* a stop has been requested
  owed,    \* bodies that may still begin after it
  result   \* what the last run returned

loopVars == <<clock, period, epoch, phase, begun, stop, owed, result>>

Init ==
  /\ clock = 0 /\ period = 0 /\ epoch = 0
  /\ phase = "stopped"
  /\ begun = 0 /\ stop = FALSE /\ owed = 0 /\ result = 0

Configure(p) ==
  /\ phase = "stopped"
  /\ p # 0
  /\ period' = p /\ stop' = FALSE /\ owed' = 0 /\ begun' = 0
  /\ UNCHANGED <<clock, epoch, phase, result>>

Begin ==
  /\ phase = "stopped"
  /\ period # 0
  /\ phase' = "waiting" /\ epoch' = clock /\ begun' = 0
  /\ UNCHANGED <<clock, period, stop, owed, result>>

Refuse ==
  /\ phase = "stopped"
  /\ period = 0
  /\ result' = -1
  /\ UNCHANGED <<clock, period, epoch, phase, begun, stop, owed>>

RequestStop ==
  /\ ~ stop
  /\ stop' = TRUE
  /\ owed' \in {0} \union (IF phase = "waiting" THEN {1} ELSE {})
  /\ UNCHANGED <<clock, period, epoch, phase, begun, result>>

Fire ==
  /\ phase = "waiting"
  /\ stop => owed = 1
  /\ clock >= epoch + begun * period
  /\ phase' = "body" /\ begun' = begun + 1 /\ owed' = 0
  /\ UNCHANGED <<clock, period, epoch, stop, result>>

Finish(code) ==
  /\ phase = "body"
  /\ IF code = 0 THEN phase' = "waiting" /\ UNCHANGED result
                 ELSE phase' = "stopped" /\ result' = code
  /\ UNCHANGED <<clock, period, epoch, begun, stop, owed>>

Quit ==
  /\ phase = "waiting"
  /\ stop
  /\ phase' = "stopped" /\ result' = 0
  /\ UNCHANGED <<clock, period, epoch, begun, stop, owed>>

Pass ==
  /\ clock' > clock
  /\ UNCHANGED <<period, epoch, phase, begun, stop, owed, result>>

Next ==
  \/ \E p \in Periods : Configure(p)
  \/ Begin \/ Refuse \/ RequestStop \/ Fire \/ Quit \/ Pass
  \/ \E code \in TickCodes : Finish(code)

Spec == Init /\ [][Next]_loopVars
==============================================================================
