--------------------------- MODULE MCArtifactCache ---------------------------
(***************************************************************************)
(* Two processes, two payloads, two builds of each.                        *)
(***************************************************************************)
EXTENDS ArtifactCache, TLC

CONSTANTS p1, p2, x, y, built, rebuilt

MCProcs    == {p1, p2}
MCPayloads == {x, y}
MCOrigins  == {built, rebuilt}
Symmetry   == Permutations(MCProcs) \union Permutations(MCPayloads)
                \union Permutations(MCOrigins)
==============================================================================
