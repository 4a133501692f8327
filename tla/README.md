# Jaxility: specifications, model checks and proofs

Jaxility turns a JAX model of a robot and an optimal-control template into a
controller that runs on a target board, together with a signed record of where
it came from. This directory holds TLA+ modules for the parts of it whose
correctness depends on order, failure, concurrency or machine arithmetic, the
TLC configurations that check them on small instances, and TLAPS proofs of
what holds for every instance. Paths below are relative to the repository.

Run from this directory:

    tlc -config MCArena.cfg MCArena        # any run of the table below
    tlapm ArenaProofs.tla                  # the proofs

## The system

| part | where | state it keeps | operations |
|---|---|---|---|
| bump arena | `runtime-c/src/arena.c` | base, capacity, used | init, alloc, alloc_aligned, reset, save/restore of `used` |
| cycle scheduler | `runtime-c/src/cycle_posix.c` | period, counters, stop flag | init, run, stop, stats |
| thread placement | `runtime-c/src/rt_posix.c` | affinity and scheduling class of the thread | pin, raise |
| launcher | `runtime-c/src/deploy_posix.c`, `deploy_main.c` | the arena, the dlopen handle, the running loop | jx_deploy_run |
| D-cache maintenance | `runtime-c/src/dcache_*.c` | none | clean, invalidate |
| artifact cache | `jaxility/manifest/artifact.py` | directories on disk | store, load, has |
| manifest, signer, verifier | `jaxility/manifest/` | none; values are frozen | detect toolchain, content hash, sign, verify, CLI exit code |
| host build | `jaxility/builder.py`, `cli/build_cmd.py` | the work directory, the working directory of the process | build_for_target |
| cross build | `jaxility/builder_cross.py`, `builder_deps.py` | work directory, install prefix, the toolchain on PATH | plan, verify toolchain, build dependencies, compile, package |
| runtime archive | `jaxility/runtime/` | build directory | compile and archive runtime-c, build the launcher |
| dual path | `jaxility/compose/` | none in Python; plant state, command and cycle in the C programs it generates | arbitrate, extract the policy, emit C, attest |
| hardware in the loop | `jaxility/hil/` | directories and processes on the target | build there or deploy, run, parse the trace, report |
| equivalence gate | `jaxility/testing/` | none | compare, tolerances |
| lowering | `jaxility/lowering/jax_to_casadi.py`, `coverage.py`, `casadi_to_acados.py` | the environments and the list of primitives of the walk; the solver's references | translate, coverage gate, build_ocp |
| rigid-body dynamics | `jaxility/lowering/pinocchio_rbd.py` | the tree and the lists of the three passes | generate_dynamics |
| templates | `jaxility/templates/` | none; `set_reference_trajectory` writes into a live solver | lqr, tracking, centroidal, multi-contact, wbc |
| policy export | `jaxility/policy/` | the ONNX graph under construction; the directory of a conversion | export, convert, quantise, check parity |
| targets, zoo | `jaxility/targets`, `zoo` | none (frozen data) | look-ups |
| benchmarks | `jaxility/bench` | the fixed remote directory | generate, run, record |
| CLI, MCP | `jaxility/cli`, `mcp` | none | argument handling and reports |

How they meet: a build lowers the model (lowering, templates), generates and
compiles C in a work directory (host or cross build, with dependencies and the
runtime archive), wraps the library as an `Artifact` with a `Manifest`, and the
artifact may go to the artifact cache. On the target the launcher loads that
library, gives it the arena, and drives its step from the cycle scheduler. The
hardware-in-the-loop harness starts such a binary through local or ssh
subprocesses, parses its trace and hands it to the equivalence gate; a
benchmark runs a timing program the same way and publishes a record with the
manifest's hash. A learned policy goes either into the generated C program or,
as an ONNX graph, to an external converter whose file is read back and checked.

What is hard about it:

* concurrency: signals, preemption and stop requests around the scheduler;
  processes that share the artifact cache, a work directory or a directory of
  the target;
* remote work: commands that fail, links that drop, time-outs after which the
  command goes on; output that is cut short or mixed with other lines;
* crashes and partial failure: a store that dies between three file-system
  calls; a launcher stage that fails after the controller is loaded;
* order and time: drift correction after overruns, a sleep that is interrupted;
* one law written twice: the arbiter and the policy in Python and in C, JAX's
  arrays and CasADi's matrices, a robot's joints and the emitted recursion;
* machine arithmetic: address sums that wrap, unsigned differences, NaN;
* stale state: reused work directories, files of an earlier conversion,
  provenance recorded before use.

`PROJECT.json` lists each hazard at its line with the properties that cover it.

## Modules

| module | models | kind |
|---|---|---|
| `Arena` | arena.c, and the checkpoint idiom of arena.h | specification |
| `ArenaProofs` | | proofs about `Arena` |
| `PeriodicLoop` | the contract in the header comment of cycle.h | abstract specification |
| `Cycle` | cycle_posix.c | detailed specification, implements `PeriodicLoop` |
| `CycleProofs` | | proofs about `Cycle` |
| `Deploy` | deploy_posix.c and what it uses of rt_posix.c; composes `Arena` and `PeriodicLoop` | specification |
| `DeployProofs` | | proofs about `Deploy` |
| `WriteOnce` | the promise of the class comment of ArtifactCache | abstract specification |
| `ArtifactCache` | manifest/artifact.py | detailed specification, implements `WriteOnce` |
| `ArtifactCacheProofs` | | proofs about `ArtifactCache` |
| `Build` | builder.py, builder_cross.py, builder_deps.py, runtime/c_runtime.py, runtime/deploy.py | specification |
| `BuildProofs` | | proofs about `Build` |
| `Matrices` | CasADi's matrices and what is done with them (external) | operators |
| `Jaxpr` | what the primitives of a jaxpr mean to JAX (external) | operators |
| `Coverage` | lowering/coverage.py | operators |
| `JaxToCasadi` | lowering/jax_to_casadi.py | specification |
| `RigidBody` | lowering/pinocchio_rbd.py | specification |
| `Ocp` | templates/, lowering/casadi_to_acados.py | specification |
| `Lowering` | the pipeline: composes `JaxToCasadi`, `RigidBody` and `Ocp` | specification |
| `LoweringProofs` | | proofs about `Lowering` |
| `OnnxExport` | policy/onnx_export.py | specification |
| `PolicyArtifacts` | policy/litert.py, quantize.py, executorch.py | specification |
| `Policy` | the learned-policy path: composes `OnnxExport` and `PolicyArtifacts` | specification |
| `PolicyProofs` | | proofs about `Policy` |
| `CompositionPlan` | compose/plan.py | operators |
| `EmbeddedPolicy` | the policy of compose/codegen.py, on the host and in C | operators |
| `GeneratedSolver` | the solver and the plant that acados generates for a problem (external) | operators |
| `ComposedLoop` | what control binaries promise: the commands of the host's arbiter | abstract specification |
| `ControlBinary` | main of the C programs of compose/codegen.py, hil/controller.py and bench/controller_bench.py | actions of a process |
| `Equivalence` | hil/trace.py, testing/equivalence.py | operators |
| `Manifest` | manifest/models.py, signer.py, verify.py, toolchain_detect.py, compose/attest.py | operators |
| `Hil` | hil/, bench/: sessions, remote commands, evidence; composes the four above | specification |
| `HilMirror` | | shows that each binary of `Hil` implements `ComposedLoop` |
| `HilProofs` | | proofs about `Hil` |
| `MC*` | | instances for TLC |

Operators whose comment begins with "Deviation:" are deliberate bugs next to
the operator they distort. Each property of a passing run is known to fail
when one of them takes the place of the real definition; `PROJECT.json`
("mutants") says which.

### Arena

State: the three fields of `jx_arena_t` as words of `Width` bits, and for the
client the blocks it holds (`live`), the checkpoints it has saved (`saved`) and
its last `call`. Every sum and difference of arena.c is formed modulo
`2^Width` where the C forms it: `align_up`, `AlignedUsed`, `Exhausted`,
`Available`. One action per function, plus `Save` and `Restore` for the idiom
arena.h describes ("save `arena->used` and restore it"). The only thing assumed
of a caller is that the slab is a C object, so base + capacity does not exceed
the address space (`SlabExists`), and that a restored value was saved since
the last reset and not undone. Calls with a NULL arena return at once and are
left out.

### PeriodicLoop and Cycle

`PeriodicLoop` is the caller's view: tick bodies follow one another, the k-th
not before k periods have passed, a stop lets at most one more body begin and
ends the run with 0, a non-zero tick code ends it with that code.

`Cycle` has the struct (`period_ns`, `stats`, `stop_requested`,
`initialised`), the locals of `jx_cycle_run`, the clock `now` and a program
counter with one place per read of the clock or the stop flag:
`test` (the while condition), `stamp` (tick_target and tick_start), `body`,
`account` (the read of `after` and what follows), `remainder` and `nap` (the
loop of `sleep_until_ns`). The clock may advance between any two steps, so
preemption is everywhere; `Interrupt` is EINTR, `Stop` may come at any point.
`ticked` records what each body did and `grace` that the loop had passed its
test when the stop came; no action of the code looks at them. nanosleep with a
valid timespec has no error besides EINTR, so the code's early return on other
errors is left out. Fresh struct memory is taken as zeroed, as the unit tests
assume.

### Deploy

One action per stage of `jx_deploy_run`, each with its failure. The arena is
an instance of `Arena` whose client is both the launcher and the controller;
the loop is an instance of `PeriodicLoop`, which `Cycle` implements. The
controller is arbitrary: its init and each step may allocate and undo, it may
return any code and declare any period. Two assumptions about it are named in
the hazards: a step undoes only what it allocated itself, and it returns.
`platform` selects the branch of the preprocessor.

### WriteOnce and ArtifactCache

The disk is `dirs`, `payload_bin` and `artifact_json`: which entries exist and what their two
files hold. A step is one file-system call: mkdir, the open that truncates and the write
that completes each of the two files, the existence test, and the two reads
of load. Processes may die at any step (`Crash`). The owner of the directory
may delete an entry call by call, rename it, or damage payload.bin, while loads
but no stores are under way at it. A hash is identified with its payload
(BLAKE3 is taken as collision-free). A file is absent, `Torn` or whole; a torn
artifact.json does not parse and a torn payload.bin does not hash to its name.

### Build

The five builds are written the way the code writes them, as a plan and its
execution. `HostPlan`, `CrossPlan`, `DepsPlan`, `RuntimePlan` and
`LauncherPlan` list what each function does in its order; there is one action
per kind of step (`Which`, `VerifyVersion`, `VerifyIntegrity`, `Generate`,
`Discover`, `Command`, `Normalise`, `Clean`, `Check`, `Read`, `Return`), each
with its exceptions. A process executes one plan at a time and shares with the
others the file system `fs` and the compiler `tool` that PATH names.

A file is the tree of what it was made of: build and name, compiler, inputs,
and whether ar stamped it with the time. So two files have one content exactly
when a deterministic compiler would make the same bytes, and a hash is the
content itself. `links` are the archives whose hashes the caller holds
(`CrossBuiltDeps.archive_hashes`, `RuntimeArchive.content_hash`) and that the
cross manifest records. `late` are writes of children that survive the kill of
a timed-out driver. A command writes a file in one step. Taken as data: flags,
include directories, and the search for the host library by a part of its name.

`Exclusive` is what the docstrings ask of callers ("Empty directory ... the
caller owns its lifecycle"): a build starts only while nobody, nor a leftover
child, is at work in its directory or in one it reads, and toolchains change
between builds. A retry finds everything an earlier attempt has left. `Silent`
are the builds whose compiler may exit with 0 and write nothing.

### Matrices, Jaxpr and JaxToCasadi

A value of the translator is held twice: `m`, the array JAX means (a scalar
1x1, a rank-1 array a column, with its `rank` beside it), and `ca`, the matrix
the handlers have built in CasADi. Entries are numbers modulo the prime `P`, so
that division and inverses exist, and the smooth functions are polynomials
that differ from one another: what the properties tell apart is which entry
went where and through which function. `Matrices` is CasADi as the code uses it
(column-major `reshape`, `repmat`, `mtimes` with its 1x1 exception, slices) and
`Jaxpr` the meaning of the primitives, which the ONNX export shares.

The jaxpr is chosen by the environment, an equation at a time: there is an
action per primitive, for every operand JAX types it for. `frames` are the
environments of `_translate_eqns`, one for each open jit; `EnterJit` and
`ReturnJit` are `_handle_jit`, and a failure in a frame reports the coordinates
that frame has. `used` is `primitives_used`.

Some forms of a primitive lose the layout: a squeeze of a row, a reshape
between two proper matrices, contraction over the right operand's last axis, a
rank-1 array times a matrix, a dynamic slice whose start JAX would move, a float turned
integer, a broadcast of a one-entry vector along its axis. `Sound` marks them, and with `SoundOnly`
jaxprs do without; with it FALSE `LayoutAgrees` fails.

### RigidBody

The three-dimensional spatial algebra is replaced by a smaller one with the
same laws: space is a line, motions are pairs, transforms are affine maps that
do not commute and preserve the cross product, and numbers are modulo `P`. A
wrong transpose, sign, order or parent is as wrong there as in three dimensions.
`_generate_from_mujoco` and `_generate_from_pinocchio` read a robot and reject
what the code rejects; `Pass1`, `Pass2` and `Pass3` do one body each. Fixed
bodies are folded into their ancestors as `_extract_tree_from_mujoco` does.

### Ocp and Lowering

A template is an operator that yields the specification it returns or nothing
when it raises; `build_ocp` compares the declared shapes of the dynamics with
the specification and fills the matrices of the problem. `set_reference_trajectory`
writes stage by stage and stops at the first stage of a wrong length. The templates
take the bounds, the terminal weights and the contact flags that their Python
signatures take (`Options`), and pass them on as the code does. `asked` records what
the caller wanted, `given` the trajectory accepted last and `cut` those that were cut
short since. Weights and references are numbers modulo `P`, of which none is positive:
wbc's test `> 0` of a sum of weights is `# 0`, which is the same for weights that
are not negative, and the weight 1e-9 that it gives a component without tasks counts
as none.

`Lowering` is the hand-over: a `CasadiFunction` has the shapes it declares and the
size of the expression it holds, which come from different places, and
`DynamicsFitState` relates them.

### OnnxExport, PolicyArtifacts and Policy

The export is modelled as the translator is: the environment picks the jaxpr
an equation at a time, and a variable is the array JAX means beside the name
of the tensor that stands for it. `builder` is `_OnnxBuilder` with its nodes,
initializers, operators and counter; `frames` are the environments of `_walk`, one for each
open call, of which a body sees its arguments and its own constants. `Compute`
and `Tensors` are what ONNX Runtime makes of the graph, so `GraphComputesPolicy`
compares every name with every array. A body that returns a literal ends in a
KeyError (`crash`). When the export has ended its variables are cleared. `MlpOnly` keeps to what the module's
docstring calls the subset, without the two forms named below that it lets through.

`DeliverPolicy` hands the output of the graph to the converters. A converted
model is that output with, at each entry, one of `Errors`, together with the policy, precision and
data it was made from. One action each is the request with its checks, the
converter (which writes float32 and float16 files always, the integer ones
perhaps, or fails with some of the first two written), the choice and the
reading of a file, and the parity check. `temp` goes with the call; `kept` is
the caller's work_dir and stays. litert.py and quantize.py differ in the recipe
and in `Picked` only. Converters and runtimes are external.

### CompositionPlan, EmbeddedPolicy, GeneratedSolver, ComposedLoop, ControlBinary

Numbers are the integers of `-Largest .. Largest` and NaN, which is what a
computation that leaves the range yields; each comparison is written in the
sense the code writes it, so NaN passes or fails as it does there. tanh is the
sign, solver and plant are a linear feedback and a double integrator: nothing
depends on which. Arithmetic of the target may differ from the host's by
`Drifts` in each cycle. A policy's artifact is its layers. The host's solver answers a
state that is not of numbers with NaN; the one of the C may fail or report success, with
any control of `Arbitrary`. JX_NU is what the controller has, one input; JX_NX, the initial
state and the policy are as they are given, and may disagree.

`ControlBinary` is `main`, one step per call: arguments, creation, solve,
combine, print or store, simulate; every acados call may fail and end it with
1. The C keeps its own copy of the envelope, flags and layers; `Entry` is the
zero C puts where an initialiser is missing. `jx_policy` overwrites its buffer
in place as the emitted loop does. Its two buffers have `WorkBuffer` entries (64 in the C), and
nothing checks that layers fit: one that does not, or that reads entries never written, makes
the answer arbitrary (`PolicyAnswers`), and the process may be killed; what else a write
past the buffers may overwrite is left out. `ComposedLoop` is the abstract contract, in
terms of the Python `arbitrate` and `forward`, for a set `Loops` of binaries that
run side by side; `HilMirror` maps the process of each session to one of them, if the
host takes the dimensions of its policy and the layers fit the buffers (`HasCounterpart`). At a
state that is not of numbers the contract asks nothing.
Both use the solver and the plant of `GeneratedSolver`.

### Equivalence, Manifest and Hil

`parse_trace` and `compare` are operators on lines and trajectories; the
reference is what the host loop of `test/hil/test_dual_path.py` computes, with
Python's arbiter. BLAKE3 is injective and a digest is the record of what was
hashed; so the canonical encoding, of which the modules need only that it tells
payloads apart, is not modelled.

A session of `Hil` builds, generates a program, and works through a script of
commands that depends on where the binary goes: compile and run on the host;
prepare, ship, compile and run on the target; or copy, chmod and run. `call` is
the command under way. The client's steps and the machine's alternate: a command
may take effect, fail, or never answer; the link may drop; a time-out of a local
command kills it and one of ssh does not, so its effect may still come. Output
may gain a line that is not the program's. `evidence` is what comes out: a
report with its attestation, a record with a manifest hash, a bare trace, or an
error. Scripts, places and jobs are the ones the repository has: run_hil, the
HIL and benchmark programs with and without a policy, and a direct run with a
forced time-out, which `test/hil/test_dual_path.py` starts on the host and waits for
without a limit (`Bounded`). run_hil itself attests nothing: `Attested` is its caller, who
attests manifest, policy and plan of what it had run. A session runs its binary once.

## Runs

| run | checks | bounds |
|---|---|---|
| `arena` | the arena hands out disjoint, aligned blocks inside the slab; checkpoints cut cleanly; allocation is first fit and fails only when nothing fits | 5-bit words, one slab in the middle and one that ends one past address 31, so that both sums of the code wrap; sizes up to 30, alignments 1, 4, 6 (illegal), 16; two checkpoints |
| `cycle` | refinement of `PeriodicLoop`, phase lock, length of sleeps, overrun and jitter counters, termination after stop | period 2, clock to 6: three ticks, long enough for a tick to overrun by a whole period and catch up |
| `cycle_rerun` | finding | two runs of one struct |
| `deploy` | unloading, scheduler memory, return codes, placement verdict | slabs of 13 and 18 bytes against a scheduler of 5 and a context of 2, two arena calls per controller call, two ticks, three platforms |
| `deploy_negative_step` | finding | as above |
| `artifact_cache` | refinement of `WriteOnce`, stored entries stay whole, loads are genuine | two processes, two payloads, two builds of each; symmetric in all three |
| `artifact_cache_wedged` | finding | as above |
| `build` | products are functions of their inputs, manifests name the compiler, dependency hashes carry no time, no leftover passes for a product | two processes, each kind of build in its own directory, two archives, two runtime objects, the pinned compiler, one that only reports its version, and a newer one; one late write at a time; silent compilers in the builds that clean first |
| `lowering` | every variable is held in JAX's layout, the emitted dynamics satisfy the equations of motion, declared and real sizes agree, stage cost, terminal cost, bounds and references are the caller's | jaxprs of two equations over a vector of two, a vector of one, a scalar and a 2x2 constant, two frames deep; every tree of three bodies with fixed, hinge and slide joints, a floating base and an offset joint; horizons of two stages, both input widths; numbers modulo 31 |
| `policy` | graphs compute what JAX means, artifacts are of their policy, recipe and data, accepted artifacts are within budget | policies of three equations, calls two deep, one observation of two entries, a 2x2 weight, one literal; of these tanh of a dense layer and the constant one are converted, twice, with an earlier policy beside them and two data sets; an entry is exact, off by 3 or NaN |
| `hil` | commands in the envelope or NaN, and none of them NaN in a report or parsed trace, C implements the host's arbiter, passed reports are faithful, evidence is bound to the binary, registry verdicts, every session ends | three cycles; every job and place; states off the envelope and off the range of numbers, a policy that does not chain, is too wide for the host, outgrows the work buffers (of three entries here) or reads past what was written, JX_NX and initial states that disagree, NaN in a bound, a weight or an initial state, short references, wrong arguments; one session at work beside an idle one, or two with a directory each that differ in plan, policy, place or controller |
| `hil_shared_dir` | finding | two one-cycle benchmarks of different controllers in one directory of the target |

The builds of the `build` run interact through directories only, so
`OneFamily` explores those that share none apart: dependencies with a cross
build that links them, dependencies beside one that does not, the runtime
archive with the launcher, and the host build.

Two processes are enough for the cache because mkdir decides between any pair
and a third process only repeats what one of the two does to the same entry;
two payloads are needed for a rename.

In two equations each handler meets what every other one leaves, and `LayoutAgrees`
is checked after each; three bodies are the smallest tree with a
fixed body between moving ones, a fork and a chain. Three cycles of a binary
let a drift of the first one reach the envelope and a forced time-out take
hold in between; sessions interact through a directory only, and three that share
one do nothing to it that two do not.

Three equations of a policy let a name be taken before, in and after a call,
and two conversions are enough for a file of the first to be there in the second.

Deadlock is not checked in `cycle`, `deploy`, `lowering`, `policy` and `hil`: the bounded
clock stops the first, and the others stop when they have returned.

`Hil!Spec` has weak fairness of each session's own steps: it is a running
Python program, and each wait of the package has a time-out. The run with a forced
time-out, which is a test's own, has none. Nothing is assumed of the machine that runs
its commands or of the link, so `SessionsEnd` says that no remote failure can hang a
session, and that a session that never ends is such a run waiting for its binary.

Fairness also appears in `Cycle!FairSpec`: the control thread is scheduled
and its callback returns (`WF` of the loop's own steps), and the monotonic
clock advances. Nothing is assumed of signals or of who calls stop, so a storm
of signals cannot keep a stopped loop asleep.

## Findings

Each is a run that TLC ends with a violation of what a comment says.

* `cycle_rerun`: a second `jx_cycle_run` without `jx_cycle_init` sets a new
  `start` but multiplies the period by the old tick count, so it sleeps for as
  many periods as the first run had ticks.
* `deploy_negative_step`: a step may return any non-zero code to stop cleanly;
  a negative one makes the launcher report JX_DEPLOY_ERR_CYCLE.
* `artifact_cache_wedged`: a store that dies half-way leaves a hash that `has`
  denies and `store` refuses for ever.
* `hil_shared_dir`: benchmarks on a target use /tmp/jaxility-bench; of two at a
  time one may run the other's binary and publish its times under its own
  manifest hash.

## Disagreements without a run

Met while modelling; the model has each as the code does it, or excludes it
where said.

* cycle.h:48 defines `overruns` as the "number of ticks whose body ran longer than the
  period". The code counts a tick whose target has passed when the clock is read after the
  body, so also a short body that began late, behind a long one, and one after which the thread was
  preempted. `MissedDeadlinesCounted` is a bound for that reason: neither a body longer than the
  period nor one that ended after its deadline goes uncounted.
* compose/plan.py:15-20 and CLAIMS.md:348-350 ("always clamps the final command into the
  envelope") and codegen.py:165 ("always inside the envelope") do not hold of NaN: both of the C's
  comparisons with it are false and numpy's clip keeps it, so a NaN command passes the clamp and
  goes to the plant. `CommandsInEnvelope` therefore says in the envelope or NaN; a run with one
  never yields a parsed trace or report, which the property says too.
* At a state with a NaN in it the C's `state_within` (codegen.py:208) finds nothing outside and
  trusts the policy, the host's (plan.py:84) finds it outside and falls back. `MirrorsHost` is about states of numbers.
* The emitted policy has work buffers of 64 entries (codegen.py:121), and neither `from_flax` nor
  the generator compares a layer with them, nor `nx`, the policy's dimensions and the initial state with
  each other (codegen.py:149-176): a wider layer writes past the buffers. `MirrorsHost` excludes
  such binaries, `CommandsInEnvelope` does not.
* test/hil/test_dual_path.py:198-200 starts a binary with subprocess.run and no timeout; one that
  hangs hangs the test.
* testing/equivalence.py:81-82 says of `passed` that "both abs and rel divergence are within the
  tolerance"; the code, as test/EQUIVALENCE.md, fails a step only where both are exceeded, so that either suffices.
* jax_to_casadi.py:9-11 and 673-674 ("every emitted primitive is gated through assert_supported") and
  coverage.py:6-9 and 29 promise that what is emitted is declared in the table. Only names in
  `_REJECTED_PRIMITIVES` meet `assert_supported`; a primitive with a handler is translated without a
  look at the table, for a family or precision without a row too. The model does the same, and no
  property of it speaks of the table.
* tracking_mpc.py:73-74 says that the updater "silently truncates / pads" a trajectory of another
  length. It raises on a shorter one (145-150).
* A trajectory with a stage of the wrong length raises when the stages before it have been
  written, so a live solver tracks two trajectories until the next push. `TracksWhatWasAccepted` says
  which stages may.

* The build commands use one work directory per robot name, although their help
  promises one per artifact; two at a time mix their code. `Exclusive` keeps
  the `build` run to what the docstrings ask of callers, and a dependency prefix
  rebuilt while its hashes are in use is excluded likewise.
* `execute_cross_compile` does not remove its output first, so its test that the
  compiler wrote it passes on a leftover. `Silent` leaves the cross build out.
* rt.h says that bad arguments are rejected on every platform; off Linux the
  priority is not looked at.
* A load that races a store of the same hash fails with pydantic's
  ValidationError and not with ArtifactError.
* The C generator accepts a plan of mode `policy_primary` and emits the residual
  law; `policy_decimation` is used neither by the C nor by the host reference, so
  the policy runs at every cycle. `Combined` of `CompositionPlan` has both
  modes, and the runs use residual plans.
* A body with two joints is left out of the tree while `nv` counts its
  degrees of freedom, so the derivative is shorter than declared and nothing
  compares them. The `lowering` run has one joint a body.
* A bound without its partner is dropped by `build_ocp`. `OneSided` is FALSE in
  the `lowering` run; with TRUE `BoxesEnforced` fails.
* A step at which the host's own reference is NaN passes compare whatever the
  target did, because the errors are NaN; `PassedIsFaithful` exempts those steps.
  The trace itself cannot hold one: printf's nan is not JSON.
* A failure inside a jit reports default coordinates instead of the call's.
* `_squeeze` returns its operand, so a row that loses its leading axis is a rank-1
  array that CasADi holds as a row, where the comments of `_dot_general` and the other handlers
  take rank-1 arrays as columns. `SoundOnly` excludes it.
* The gate of the exporter's `_dot_general` promises "lhs contracts its last axis" and
  tests the right operand only, so a contraction of the first axis of a square
  matrix is exported as a plain MatMul; a conversion to integers emits nothing.
  KNOWN_GAPS says "no silent mis-export". With `MlpOnly` FALSE `GraphComputesPolicy` fails.
* A jit body that returns a literal makes the exporter raise a KeyError and not a
  CoverageError.
* In a reused work_dir a static_int8 conversion that writes no integer file returns
  the one an earlier call left, although CLAIMS says it fails loudly. With
  `OneUse` FALSE `ArtifactOfPolicy` fails.
* An output with a NaN passes `litert_parity`, because max keeps the error it had.

## Proofs

`ArenaProofs` shows, for every word width, slab, request and number of
checkpoints, the type invariant, the four safety invariants and the action property of `Arena`.
It assumes `WidthAssumption` (a word has at least one bit and powers of two
below the width are words) and `RequestAssumption` (requests are words).

The invariant `IInv` is the conjunction of those five, and they need each
other: that a new block lies inside the slab needs `used <= capacity`, so that
`Available` does not wrap; that it is disjoint from the others needs that all
of them end at or below the bump pointer; that a restore keeps them so needs
`CheckpointsCut`, and that in turn needs that whatever is allocated after a
save starts at or above its mark. The arithmetic is apart: `AlignUp` says what
the masked sum yields with and without wrap-around, and `BumpPlace` that an
allocation that passes the exhaustion test did not wrap. The proof of each
action is a lemma of its own, with a step per conjunct the action can disturb. `ArenaFirstFit` adds two facts to it: a block goes to
the lowest aligned address above the bump pointer (`BumpLowest`), and a request that some address
of the slab could hold passes the exhaustion test (`RoomIsFound`), whether or not the sum in it wraps.

`HilProofs` shows, for every set of sessions, orders and designs, all four safety
invariants of `Hil` and the refinement of `ComposedLoop`. It assumes `NumbersAssumption` (NaN is not one of the finite numbers),
`OrdersAssumption` (initial states, bounds and biases are sequences of numbers, NaN among them, the plant
has two entries at least, a policy has finitely many layers of at least one output each, a binary has one of three
places, and is run on the host for a forced time-out), `ArbitraryAssumption` (what is undefined is a number or NaN)
and `ToleranceAssumption` (absolute bounds are numbers).

* `CommandsSafe`: no binary with a policy applies a number outside its plan's
  actuator box, through fallback, NaN, layers that outgrow the buffers or a short envelope, and
  none of what a report or a parsed trace is of applied a NaN, since a NaN in a line makes
  it no JSON (`ReportInv`). The
  invariant `HilInv` says what it rests on: every program that exists, in a
  session, a directory or a process, has bounds in order if it compiles, only
  what compiles is linked, and every command applied so far came out of the
  clamp. `LawInBox` is the arithmetic of the clamp.
* `EvidenceBound`: under `Separate`, no two sessions with a common directory, what a
  session publishes is of the binary it built, and no two reports of binaries that differ in
  generated code, layers or plan are attested alike. The invariant `BindInv` says that
  whatever a session's directory holds, at any time, is its own, so a command
  that outlives its session's patience can do no harm; `OthersKept` is the step
  of another session. `hil_shared_dir` shows that the assumption is needed.
* `RegistrySound`: from the same invariant and the injectivity of the hash.
* `ReportsFaithful`, where plans are residual and traces are of known quantities: `ReportInv`
  says that a session in its script has a policy of the width the host's arbiter takes, that what
  it expects is what its host computed, and that the process a report is about never
  moves again. `ParsedIsPrinted` is about the output: nothing that parses has a foreign line in it,
  nor is it of a benchmark. `HostRowsAre` shows that the host's recursion over the cycles yields
  numbers of the right shape, and `ReadFaithful` follows both sides through `compare` to the run.
  It needs no `Separate`: whose binary ran does not matter for what was measured. The C knows only
  the residual mode, and the width of another mode's command is a fold over the layers.
* `BinariesMirrorHost`: every step of every session is a step of `ComposedLoop` or a stutter; whatever is
  compiled and wherever it runs, its commands are those of the host's arbiter up to the target's arithmetic, at states of numbers. It has the hypothesis
  `ResidualPlans`, since the C knows no other mode, and is about binaries with a counterpart on the host (`HasCounterpart`);
  the others show nothing to the contract. `MirrorInv` adds to `HilInv`
  what each process holds (`Tracks`): the layers, gate and bounds in the C are those of the plan it was generated from, and
  its registers are what the contract shows at that place. `PolicyAgrees` compares the C's policy with `forward`: the
  buffer that is overwritten in place keeps stale entries behind a layer's outputs, and no later layer reads them,
  since `FlaxLayered` shows that the layers `from_flax` chains fit one another.

`CycleProofs` shows, for every set of periods and tick codes and every bound of the
clock and of the runs, all safety properties of `Cycle`. It assumes `CycleAssumption` (the
constants are numbers, and 0 is among the tick codes). The refinement of `PeriodicLoop`
needs no more; the other four assume that `Rerun` is FALSE, as the `cycle` run does, and
`cycle_rerun` shows that they need it.

* The invariant `LoopInv` says where the clock stands at each place of the loop: a body may
  begin only when the slot it follows has come (`Targets`), the target is the slot of the ticks
  done, and those are at least the bodies of this run, and as many as those without reruns
  (`Counts`). Without the last, the target of a second run would be the slot of another
  body, which is just what `cycle_rerun` finds.
* `Slots` holds all arithmetic with products; the rest treats a slot as a number.
* `PromiseStep` maps each step to the contract's. `MissedCounted` compares the set of late
  bodies before and after each step; only the accounting of a tick enlarges it, by one.

`DeployProofs` shows, for every slab, word width, controller, placement and period, the four
properties of `Deploy`. It assumes `LauncherAssumption`: the assumptions of `Arena`, that the launcher's
two requests are words, and that cores, priorities and codes are numbers. It takes
what the arena does from the lemmas of `ArenaProofs`, by an instance of that module.
`DeployInv` adds that a checkpoint saved in a step keeps the scheduler's two blocks (`Memory`), so
that writing it back cannot free them, and what is loaded at each place (`Places`). `CleanStop` assumes
that no step returns a negative code.

`ArtifactCacheProofs` shows, for every set of processes, payloads and artifacts, all
three properties of `ArtifactCache`, the refinement of `WriteOnce` among them. It assumes
`CacheAssumption` and `FilesDiffer` (an absent, a torn and a whole file are told apart). The invariant `CacheInv` says how far the entry of a process that stores has
come (`Half`), that no entry has two writers, that what a load holds matches what it was asked
for, and that an entry without a directory has no files; `StoredWhole` alone is not inductive because
an entry is stored only if the files its writer left behind, call by call, are whole.
`WriterIsUnique` makes the process the refinement mapping chooses the one that stores, and one step per
action shows a step of `WriteOnce` or a stutter.

`BuildProofs` shows, for every set of jobs, processes, sources, archives and compilers, the
four properties of `Build`. It assumes `BuildAssumption`, `NoneAssumption` and `SourceAssumption`
(None is no compiler, job or file) and `Careful`: callers keep a directory to one build and to
one call at a time, and only the runtime and the launcher build may meet a compiler that reports
a success and writes nothing. The `build` run satisfies `Careful`; what goes wrong without it is listed below.

* The invariant `IInv` follows a build through its plan. `Doing` says what a process at each
  place of each of the five plans has on disk, as `HostAt`, `CrossAt`, `RuntimeAt`, `LauncherAt` and
  `DepsAt`. It can be relied on because of `Apart`: nobody else, nor the child of a killed
  driver, is at work in a directory the build uses. `Held` says that what a caller holds the
  hashes of is still on disk, without a time stamp, which is why what is linked
  (`Linked`) is what the manifest records.
* The lemmas on the shape of the plans (`RuntimeSteps`, `DepsSteps`, ...) say what the steps are for lists of
  any length; `WorkPreserves` deals once with what a step of one process means to the others, and
  each action then has a lemma that only speaks of its own build. `Ends` is what a build that has come to its end
  has read.

`PolicyProofs` shows the three safety invariants of `Policy`, for every policy, observation, parameter
and directory. It assumes `ExportAssumption` (arrays are rectangular and not empty, a new size is not 0),
`HandlerAssumption` (what is emitted by table is in the table) and `ArtifactAssumption` (a policy
computes numbers, and NaN is not one).

* `GraphIsPolicy`, where policies are dense layers (`MlpOnly`): every name in an environment of
  the walk stands for a tensor with the shape and the entries JAX means. `GraphInv` says that names are fresh
  (`GraphOK`) and that each environment is true of the graph (`EnvOK`). It is inductive because the
  graph only grows: `RunPrefix` and `ComputedWith` say that a new node or initializer leaves every
  tensor as it was, and `EnvGoesOn` that the environments of open calls stay true. Then
  there is a lemma for each operator (`ComputeMatMul`, `ComputeReshape`, ...) and one for each handler.
* `ArtifactIsOfPolicy`, where a work_dir is kept to one policy and one batch (`OneUse`): `ReturnInv` says which
  files each directory can hold, of which precision and from which data, at each place of a conversion.
* `ParityIsFaithful` needs neither: it rests on the part of that invariant about the file that was read.

`LoweringProofs` shows six of the seven safety invariants of `Lowering` (all but `EquationsOfMotion`). It assumes `PrimeAssumption` (so
that quotients exist), `TranslatorAssumption` (arguments and constants are rectangular arrays of such
numbers, dimensions are not 0), `BoxAssumption` (a box is a pair of bounds) and `WeightsAssumption` (weights
and references are numbers modulo P, a vector that is given is not empty, the lengths within a task agree, as
its validator checks, and weights of one component sum to 0 only where each is 0: they stand for weights that
are not negative. `WBCTask` checks the sign of the priority only; a negative weight is outside the theorem).

* `LayoutIsKept`, where jaxprs keep to the sound forms (`SoundOnly`): `SoundInv` says that every value of
  every open frame is `Held`, that is, a matrix of the declared rank which is also the one CasADi
  holds. The lemmas up to `SelectFaithful` go through the handlers one at a time and compare the handler's
  column-major matrices with the meaning in `Jaxpr`, for any number of rows and columns; `TranslateKeeps`
  takes that to the environments, and `JitsKeep` across calls.
* `BoundsReachProblem`, where bounds come in pairs: `BoxInv` keeps, from the call of a template to the
  problem, what the caller asked for beside what the specification says, through every template.
* `AcceptedIsTracked`: `TrackInv` says of each stage that it has the size of its reference, and tracks what was
  accepted last or, if pushes that were cut short since have come to it, one of these.
* `CostReachesProblem`, without further hypotheses: `CostInv` keeps `Asks`, that the weights and references of the
  specification pull at every component of state and input as the tasks do that the caller had in mind, from
  the call of a template to the problem. `MeanPulls` is the merging of tasks into one weighted mean, for any
  number of tasks, components nobody weighs included; `GradientIs` shows that the selection matrices, the
  weight matrix and the reference that `build_ocp` writes agree on what is the i-th component, for any number of
  states and inputs. `Sums` and `ModLaws` are the arithmetic below it.
* `TerminalCostReachesProblem`, from the same invariant: `Asks` has the terminal weights beside the others,
  which are the caller's or the factor times the merged ones, and `PullsScale` is why a factor of the weights is
  one of the pull.
* `SizesMeet`, for sound jaxprs and robots of one joint a body or none: the declared shapes that `build_ocp` compares
  are not those of the expression. For a translated function they agree by `SoundInv`; for a
  generated one `TreeInv` counts the entries of the three passes, and `FreedomsAreJoints` shows that the
  degrees of freedom the robot declares are as many as the bodies that are left after folding.

The library's induction theorems take an operator as a parameter, which the provers cannot
instantiate. `UpTo` states induction for a set of numbers instead, by its least missing element, and `ChainExists`, `StepsExist`
and `RunExists` that a function defined by recursion over an interval exists, so that sums, powers and runs of a
graph can be reasoned about; recursion over other data cannot.

Only model-checked: `EquationsOfMotion` of `Lowering`. It compares two recursions, the three passes of the
articulated-body algorithm over the folded tree and the equations of motion over the described one, which
would need an induction over trees with inverses of matrices in each step. Liveness stays with TLC throughout, as do ENABLED and recursive operators.

## Not modelled

* The zoo, the sources and the mock lowering of
  `jaxility/testing`: straight-line numerical code without state of its own.
* Targets: frozen data and its hash. D-cache maintenance: barrier instructions.
* The canonical encoding under the hashes, beyond that it tells payloads apart.
* Argument parsing and reports of the CLI, the MCP server, the statistics of a
  benchmark; options of the acados solver; mesh and URDF file handling.
* The search for the host library among several, exception classes of builds.
