------------------------------- MODULE MCArena -------------------------------
(***************************************************************************)
(* The arena on a five-bit machine: slabs aligned and unaligned, one that  *)
(* ends exactly at the end of the address space, requests that overflow.   *)
(***************************************************************************)
EXTENDS Arena

MCBases      == {0, 8, 21}
MCCapacities == {0, 11}
MCSizes      == {0, 2, 8, 30}
MCAligns     == {1, 4, 6}
==============================================================================
