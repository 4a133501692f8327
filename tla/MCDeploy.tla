------------------------------ MODULE MCDeploy -------------------------------
(***************************************************************************)
(* The launcher over a 13-byte and an 18-byte slab: with the smaller one   *)
(* the controller's own blocks may leave no room for the scheduler.        *)
(***************************************************************************)
EXTENDS Deploy

MCPlatforms == {"linux", "apple", "baremetal"}
MCPaths     == {"NULL", "controller.so"}
MCPath      == {"controller.so"}
MCCores     == {-1, 1, 2}
MCNoCore    == {-1}
MCPriorities == {-1, 0, 1, 3}
MCNoPriority == {-1}
MCFifo      == 1 .. 2
MCStepCodes == {0, 1}
MCNegativeCodes == {0, -1}
MCInitCodes == {0, 1}
MCPeriods   == {0, 2}
MCBases     == {0, 3}
MCCapacities == {0, 13, 18}
MCSizes     == {2, 5}
MCAligns    == {1, 4}
==============================================================================
