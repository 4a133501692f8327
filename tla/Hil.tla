-------------------------------- MODULE Hil ---------------------------------
(***************************************************************************)
(* Sessions that build a controller, bring a control binary to where it    *)
(* runs, run it there, and publish what they measured: a parity report of  *)
(* run_hil or a benchmark record. A binary runs on the host, is compiled   *)
(* on the target from shipped sources, or is shipped compiled. Commands    *)
(* run on the target while the session waits for them; a session that has  *)
(* given up no longer hears of its last command, which may still run.      *)
(***************************************************************************)
EXTENDS Equivalence, Manifest

CONSTANTS
  Orders,  \* what the sessions may be asked for: functions of them
  Clocks   \* when a build may take place

\* Initial states, bounds and biases are numbers, the plant has two entries at least, a
\* policy has finitely many layers and a layer an output, a binary has one of three
\* places, and for a forced time-out it is run on the host.
ASSUME OrdersAssumption ==
  \A o \in Orders, s \in Sessions :
    LET d == o[s].design IN
    /\ o[s].place \in {"host", "target", "deployed"}
    /\ o[s].n \in Int /\ o[s].nref \in Nat
    /\ o[s].fallbackFrom # <<>> => o[s].place = "host"
    /\ d.x0 \in Seq(Numbers) /\ Len(d.x0) >= 2
    /\ d.nx \in Nat /\ d.nx >= 2
    /\ d.plan.safety_envelope.input_lower \in Seq(Numbers)
    /\ d.plan.safety_envelope.input_upper \in Seq(Numbers)
    /\ d.plan.safety_envelope.state_lower \in Seq(Numbers)
    /\ d.plan.safety_envelope.state_upper \in Seq(Numbers)
    /\ IsFiniteSet(d.params) /\ d.params # {}
    /\ \A l \in d.params : l.bias \in Seq(Numbers) /\ Len(l.bias) >= 1

VARIABLES
  order,     \* what a session was asked for
  at,        \* how far it is: "build", "generate", a command of its script, "done"
  manifest,  \* of its build
  expected,  \* the host's trajectory, which its caller computes beforehand
  call,      \* its command under way, or "none", or how that ended: "ran", "failed"
  dirs,      \* what is in the directories where binaries are
  evidence   \* what it has published, or that it raised

hilVars == <<order, at, manifest, expected, call, dirs, evidence>>
vars == <<proc, hilVars>>

Nothing == [kind |-> "nothing"]
Empty   == [exists |-> TRUE, main |-> {}, gen |-> {}, exe |-> {}, executable |-> FALSE]
Absent  == [Empty EXCEPT !.exists = FALSE]

Remote(s) == order[s].place # "host"
Benchmark(s) == order[s].job \in {"controller_bench", "dual_bench"}
Direct(s) == order[s].fallbackFrom # <<>>

Script(s) ==
  CASE order[s].place = "host"     -> <<"compile", "run">>
    [] order[s].place = "target"   -> <<"prepare", "ship", "compile", "run">>
    [] order[s].place = "deployed" -> <<"copy", "chmod", "run">>

InScript(s) == at[s] \in ToSet(Script(s))

Following(s) ==
  LET k == CHOOSE k \in DOMAIN Script(s) : Script(s)[k] = at[s] IN Script(s)[k + 1]

\* What the session's own design compiles to.
OwnExe(s) == [main |-> Program(order[s].job, order[s].design), gen |-> order[s].design.controller]

\* The host's forward pass and arbiter refuse a policy or a state of another width
\* before anything runs.
Comparable(s) ==
  order[s].job = "dual_hil" =>
    LET d == order[s].design IN
    /\ Len(d.x0) = d.inputs
    /\ Fits(d.plan, Len(Control(d.controller, d.x0)),
            Outputs(Last(Chain(d.params, d.inputs))), Len(d.x0))

Init ==
  /\ order \in Orders
  /\ at = [s \in Sessions |-> "build"]
  /\ manifest = [s \in Sessions |-> Nothing]
  /\ expected = [s \in Sessions |->
       IF Generates(order[s].job, order[s].design) /\ Comparable(s) /\ ~ Benchmark(s)
       THEN Reference(OwnExe(s), order[s].nref, order[s].seed) ELSE Nothing]
  /\ call = [s \in Sessions |-> "none"]
  /\ dirs \in [{order[s].dir : s \in Sessions} -> {Empty, Absent}]
  /\ \A s \in Sessions : ~ Remote(s) => dirs[order[s].dir] = Empty
  /\ proc = [s \in Sessions |-> NoProcess]
  /\ evidence = [s \in Sessions |-> Nothing]

Publish(s, e) ==
  /\ evidence' = [evidence EXCEPT ![s] = e]
  /\ at' = [at EXCEPT ![s] = "done"]

Raise(s, error) == Publish(s, Failed(error))

(***************************************************************************)
(* On the host: the build and its manifest, then the source of main, which *)
(* a local compile writes beside the generated code.                       *)
(***************************************************************************)
Built(s) ==
  IF Remote(s) THEN dirs ELSE [dirs EXCEPT ![order[s].dir].gen = {OwnExe(s).gen}]

Build(s) ==
  /\ at[s] = "build"
  /\ LET o == order[s] IN
     IF Detectable(o.env)
     THEN /\ \E when \in Clocks :
               manifest' = [manifest EXCEPT ![s] =
                 Manifest(o.design.source, detect_toolchain_versions(o.target, o.env), o.target,
                          o.design.controller, when)]
          /\ at' = [at EXCEPT ![s] = "generate"]
          /\ dirs' = Built(s)
          /\ UNCHANGED evidence
     ELSE Raise(s, "ToolchainError") /\ UNCHANGED <<manifest, dirs>>
  /\ UNCHANGED <<proc, order, expected, call>>

Generate(s) ==
  /\ at[s] = "generate"
  /\ IF Generates(order[s].job, order[s].design)
     THEN IF Comparable(s) THEN at' = [at EXCEPT ![s] = Script(s)[1]] /\ UNCHANGED evidence
          ELSE Raise(s, "CompositionError")
     ELSE Raise(s, "refused")
  /\ UNCHANGED <<proc, order, manifest, expected, call, dirs>>

(***************************************************************************)
(* The session issues a command, and hears that it ended or gives up. A    *)
(* local time-out kills what runs, one of ssh only the connexion.          *)
(***************************************************************************)
Issue(s) ==
  /\ InScript(s) /\ call[s] = "none"
  /\ call' = [call EXCEPT ![s] = at[s]]
  /\ dirs' = IF at[s] = "compile" /\ ~ Remote(s)
             THEN [dirs EXCEPT ![order[s].dir].main = {OwnExe(s).main}] ELSE dirs
  /\ UNCHANGED <<proc, order, at, manifest, expected, evidence>>

Return(s) ==
  /\ InScript(s) /\ call[s] \in {"ran", "failed"}
  /\ IF call[s] = "ran" THEN at' = [at EXCEPT ![s] = Following(s)] /\ UNCHANGED evidence
     ELSE Raise(s, "HILError")
  /\ call' = [call EXCEPT ![s] = "none"]
  /\ UNCHANGED <<proc, order, manifest, expected, dirs>>

\* Deviation: a run over ssh is waited for without a limit.
BoundedLocally(s) == at[s] = "run" => ~ Remote(s) /\ ~ Direct(s)

\* Every wait of the package has a limit; that for a forced time-out's run has none.
Bounded(s) == ~ (Direct(s) /\ at[s] = "run")

TimeOut(s) ==
  /\ InScript(s) /\ call[s] = at[s] /\ Bounded(s)
  /\ Raise(s, "HILError")
  /\ IF Remote(s) THEN UNCHANGED <<proc, call>>
     ELSE /\ proc' = [proc EXCEPT ![s] = NoProcess]
          /\ call' = [call EXCEPT ![s] = "none"]
  /\ UNCHANGED <<order, manifest, expected, dirs>>

LinkLost(s) ==
  /\ InScript(s) /\ Remote(s) /\ call[s] = at[s]
  /\ Raise(s, "HILError")
  /\ UNCHANGED <<proc, order, manifest, expected, call, dirs>>

(***************************************************************************)
(* What a command does where it runs; any may fail.                        *)
(***************************************************************************)
Dir(s) == dirs[order[s].dir]

Effect(s, command, possible, dir) ==
  /\ call[s] = command
  /\ \/ possible /\ dirs' = [dirs EXCEPT ![order[s].dir] = dir] /\ call' = [call EXCEPT ![s] = "ran"]
     \/ call' = [call EXCEPT ![s] = "failed"] /\ UNCHANGED dirs
  /\ UNCHANGED <<proc, order, at, manifest, expected, evidence>>

Prepare(s) == Effect(s, "prepare", TRUE, Empty)

Ship(s) ==
  Effect(s, "ship", Dir(s).exists,
         [Dir(s) EXCEPT !.main = {OwnExe(s).main}, !.gen = {OwnExe(s).gen}])

Linked(dir) == {[main |-> m, gen |-> g] : m \in {p \in dir.main : Compiles(p)}, g \in dir.gen}

Compile(s) ==
  Effect(s, "compile", Linked(Dir(s)) # {}, [Dir(s) EXCEPT !.exe = Linked(Dir(s)), !.executable = TRUE])

\* What is copied was compiled elsewhere; over an earlier binary it takes its mode.
Copy(s) ==
  Effect(s, "copy", Dir(s).exists /\ Compiles(OwnExe(s).main),
         [Dir(s) EXCEPT !.exe = {OwnExe(s)}, !.executable = @ /\ Dir(s).exe # {}])

Chmod(s) == Effect(s, "chmod", Dir(s).exe # {}, [Dir(s) EXCEPT !.executable = TRUE])

Argv(s) == [n |-> order[s].n, seed |-> order[s].seed, fallbackFrom |-> order[s].fallbackFrom]

Run(s) ==
  /\ call[s] = "run" /\ proc[s] = NoProcess
  /\ IF Dir(s).executable
     THEN \E exe \in Dir(s).exe : proc' = [proc EXCEPT ![s] = Started(exe, Argv(s))] /\ UNCHANGED call
     ELSE call' = [call EXCEPT ![s] = "failed"] /\ UNCHANGED proc
  /\ UNCHANGED <<order, at, manifest, expected, dirs, evidence>>

Execute(s) == MainStep(s) /\ UNCHANGED hilVars

(***************************************************************************)
(* The run has ended: its output, which other lines may have got into, is  *)
(* parsed and compared, or read as a benchmark's.                          *)
(***************************************************************************)
Banner == [json |-> FALSE]
Stdouts(p) == {Printed(p), <<Banner>> \o Printed(p), Append(Printed(p), Banner)}

Trace(s, out) ==
  IF Parses(out, order[s].schema, order[s].n) THEN [kind |-> "trace"] ELSE Failed("HILError")

Report(s, out) ==
  LET o == order[s]
      verdict == compare(expected[s], parse_trace(out, o.schema, o.n), o.family, o.dtype)
  IN IF ~ Parses(out, o.schema, o.n) THEN Failed("HILError")
     ELSE IF verdict.kind = "raised" THEN verdict
     ELSE [kind |-> "report", passed |-> verdict.passed]

TimingRecord(out) == out # <<>> /\ Last(out).json /\ "samples" \in DOMAIN Last(out)

Record(s, out) ==
  IF TimingRecord(out) /\ Last(out).samples = order[s].n
  THEN [kind |-> "record", n_cycles |-> Last(out).samples,
        source_manifest_hash |-> content_hash(manifest[s])]
  ELSE Failed("BenchmarkError")

Read(s, out) ==
  IF Direct(s) THEN Trace(s, out)
  ELSE IF proc[s].rc # 0 THEN Failed("HILError")
  ELSE IF Benchmark(s) THEN Record(s, out)
  ELSE Report(s, out)

\* Whoever asked for the report attests it, of the artifacts of the run: the manifest, the
\* layers of the policy, and the plan.
Attested(s, e) ==
  IF e.kind # "report" THEN e
  ELSE [kind |-> "report", passed |-> e.passed,
        attestation |-> IF order[s].job = "dual_hil"
                        THEN <<attest_dual_path(manifest[s], OwnExe(s).main.layers, order[s].design.plan)>>
                        ELSE <<>>]

Conclude(s) ==
  /\ at[s] = "run" /\ call[s] = "run" /\ proc[s].at = "exited"
  /\ \E out \in Stdouts(proc[s]) : Publish(s, Attested(s, Read(s, out)))
  /\ call' = [call EXCEPT ![s] = "none"]
  /\ UNCHANGED <<proc, order, manifest, expected, dirs>>

Client(s) ==
  Build(s) \/ Generate(s) \/ Issue(s) \/ Return(s) \/ TimeOut(s) \/ Conclude(s)

Machine(s) ==
  LinkLost(s) \/ Prepare(s) \/ Ship(s) \/ Compile(s) \/ Copy(s) \/ Chmod(s) \/ Run(s) \/ Execute(s)

Next == \E s \in Sessions : Client(s) \/ Machine(s)

\* A session is a running program, which hears of the end of what it waits for, and of
\* the limit of a wait that has one; of the machine that runs its commands, and of the
\* link, nothing is assumed.
Spec == Init /\ [][Next]_vars /\ \A s \in Sessions : WF_vars(Client(s))

(***************************************************************************)
(* Properties                                                              *)
(***************************************************************************)
Running(s) == proc[s] # NoProcess

\* The arbiter's promise, of the C: whatever solver and policy say, also at states that are
\* not of numbers and of a policy that outgrows its buffers, a command that a binary with
\* a policy applies is in the actuator box or NaN, which the clamp lets pass; and it is
\* a number in all that a report, or a trace that was parsed, is of.
InBox(env, cmd) ==
  \A j \in DOMAIN cmd \intersect DOMAIN env.input_lower :
    cmd[j] # NaN => env.input_lower[j] <= cmd[j] /\ cmd[j] <= env.input_upper[j]

Numeric(s) == \A k \in DOMAIN proc[s].ran : NaN \notin ToSet(proc[s].ran[k].cmd)

CommandsInEnvelope ==
  \A s \in Sessions :
    /\ Running(s) /\ Composed(Main(s)) =>
         \A k \in DOMAIN proc[s].ran : InBox(Main(s).plan.safety_envelope, proc[s].ran[k].cmd)
    /\ evidence[s].kind \in {"report", "trace"} /\ Main(s).kind = "dual_hil" => Numeric(s)

\* A report that passed is about a complete run of the session's own binary that
\* stayed close to the host, at every step where the host's values are numbers.
Close(tol, a, b) ==
  \/ \A k \in DOMAIN a : b[k] \in a[k] - tol.abs .. a[k] + tol.abs
  \/ \A k \in DOMAIN a : ~ RelExceeds(tol, a[k], b[k])

Executed(s, q, i) ==
  LET t == CHOOSE t \in CARTPOLE_LQR_TRACE : t.name = q IN
  Slice(t, proc[s].ran[i].x, proc[s].ran[i].cmd)

PassedIsFaithful ==
  \A s \in Sessions :
    evidence[s].kind = "report" /\ evidence[s].passed =>
      LET o == order[s]
          host == expected[s]
      IN /\ Len(proc[s].ran) = o.n
         /\ \A q \in DOMAIN host, i \in 1 .. o.n :
              NaN \notin ToSet(host[q][i]) =>
                Close(Tolerances[<<o.family, o.dtype, q>>], host[q][i], Executed(s, q, i))

\* What is published ties to the binary that ran: to its generated code by the manifest,
\* and to its code, the layers of its policy and its plan by the attestation, so that no
\* two of them that differ in one of the three are attested alike.
EvidenceBinds ==
  \A s, t \in Sessions :
    /\ evidence[s].kind \in {"report", "record"} =>
         /\ proc[s].exe = OwnExe(s)
         /\ manifest[s].artifact_content_hash = blake3(proc[s].exe.gen)
    /\ /\ evidence[s].kind = "report" /\ evidence[t].kind = "report"
       /\ evidence[s].attestation # <<>> /\ evidence[s].attestation = evidence[t].attestation
       => /\ proc[s].exe.gen = proc[t].exe.gen
          /\ proc[s].exe.main.layers = proc[t].exe.main.layers
          /\ proc[s].exe.main.plan = proc[t].exe.main.plan

\* Whoever verifies a manifest against a published record accepts it only if it
\* is of the code that was measured, and accepts that of any later rebuild.
File(m) == [kind |-> "manifest", manifest |-> m]

Received(m) ==
  {m} \union {[m EXCEPT !.build_timestamp_utc = c] : c \in Clocks}
      \union {[m EXCEPT !.schema_version = 1], [m EXCEPT !.signature = "signed"],
              [m EXCEPT !.signer_identity = "sigstore-v1"]}

RegistryVerdicts ==
  \A s, t \in Sessions :
    evidence[s].kind = "record" /\ manifest[t] # Nothing =>
      LET Verdict(m) == verify_cli(File(m), TRUE, {evidence[s].source_manifest_hash}) IN
      /\ \A m \in Received(manifest[t]) :
           Verdict(m) = 0 => /\ m.artifact_content_hash = blake3(proc[s].exe.gen)
                             /\ m.signature = None
      /\ order[t].design = order[s].design /\ order[t].env = order[s].env
           /\ order[t].target = order[s].target => Verdict(manifest[t]) = 0

\* Every session ends, with evidence or with an error, although nothing is assumed of the
\* machine its binary runs on; but the run of a forced time-out may be waited for for ever.
SessionsEnd ==
  \A s \in Sessions : <>(at[s] = "done") \/ (Direct(s) /\ <>[](at[s] = "run" /\ call[s] = "run"))
=============================================================================
