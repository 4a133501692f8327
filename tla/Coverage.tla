------------------------------ MODULE Coverage ------------------------------
(***************************************************************************)
(* lowering/coverage.py: the table of operations by precision and target   *)
(* family, and the gate that every emitted operation should pass. Hints,   *)
(* reasons and suggestions are wording.                                    *)
(***************************************************************************)

Dtypes == {"float32", "float64"}
SmoothOps ==
  {"add", "sub", "mul", "div", "pow", "jnp.sin", "jnp.cos", "jnp.tan", "jnp.exp",
   "jnp.log", "jnp.sqrt", "matmul", "slice[static]", "dynamic_slice[static]"}
UnsupportedOps ==
  {"jnp.where[traced]", "lax.cond[traced]", "lax.while_loop",
   "dynamic_slice[traced]", "dynamic_shape"}

\* family, dtype -> numerical grade
DtypeGrade ==
  {[family |-> "mock-cortex-a", dtype |-> "float64", grade |-> "ulp-bounded"],
   [family |-> "mock-cortex-a", dtype |-> "float32", grade |-> "approximate"],
   [family |-> "mock-cortex-m", dtype |-> "float32", grade |-> "approximate"]}

CoverageTable ==
  UNION {{[op |-> o, family |-> g.family, dtype |-> g.dtype,
           supported |-> o \notin UnsupportedOps,
           grade |-> IF o \in UnsupportedOps THEN "none" ELSE g.grade] :
            o \in SmoothOps \union {"jnp.where[static]"} \union UnsupportedOps} :
          g \in DtypeGrade}

lookup(op, dtype, family) ==
  {e \in CoverageTable : e.op = op /\ e.dtype = dtype /\ e.family = family}

\* What the gate answers; a miss is refused as loudly as a refusal.
assert_supported(op, dtype, family) ==
  IF \E e \in lookup(op, dtype, family) : e.supported THEN "supported" ELSE "CoverageError"
=============================================================================
