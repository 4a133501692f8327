------------------------------ MODULE MCBuild ------------------------------
(***************************************************************************)
(* Builds in directories of their own; those that share no directory are   *)
(* explored apart.                                                         *)
(***************************************************************************)
EXTENDS Build, TLC

CONSTANTS p1, p2, genuine, patched, newer

Job(kind, dir, what, uses, sha) ==
  [kind |-> kind, dir |-> dir, what |-> what, uses |-> uses, sha |-> sha]

Deps     == Job("deps", "prefix", "acados v0", {}, FALSE)
Checked  == Job("cross", "work", "robot", {Deps}, TRUE)
Trusting == Job("cross", "work 2", "other robot", {}, FALSE)
Runtime  == Job("runtime", "rt", "cortex-a76", {}, FALSE)
Deployer == Job("launcher", "bin", "cortex-a76", {Runtime}, FALSE)
Native   == Job("host", "builds", "robot", {}, FALSE)

MCProcs     == {p1, p2}
MCJobs      == {Deps, Checked, Trusting, Runtime, Deployer, Native}
Families    == {{Deps, Checked}, {Deps, Trusting}, {Runtime, Deployer}, {Native}}
MCGenerated == [w \in {"robot", "other robot"} |->
                  IF w = "robot" THEN {"solver.c", "constraints.c"} ELSE {"solver.c"}]
MCRuntimeObjects == <<"arena.o", "cycle.o">>
MCDepArchives    == <<"acados.a", "blasfeo.a">>
MCTools     == {genuine, patched, newer}
MCPinned    == {genuine, patched}
OneFamily   ==
  \E F \in Families :
    /\ \A p \in Procs : job[p] \in F \union {None}
    /\ \A f \in Paths : fs[f] # None => \E j \in F : f[1] = j.dir
    /\ \A w \in late : \E j \in F : w.file[1] = j.dir
    /\ Cardinality(late) <= 1
Symmetry    == Permutations(MCProcs)
=============================================================================
