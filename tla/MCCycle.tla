------------------------------- MODULE MCCycle -------------------------------
(***************************************************************************)
(* The cycle scheduler with two periods and a tick that may end the run.   *)
(***************************************************************************)
EXTENDS Cycle

MCPeriods   == {0, 2}
MCTickCodes == {0, 42}
==============================================================================
