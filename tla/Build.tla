------------------------------- MODULE Build -------------------------------
(***************************************************************************)
(* The builds: build_for_target (builder.py), cross_build_for_target       *)
(* (builder_cross.py), build_cross_deps (builder_deps.py),                 *)
(* build_runtime_archive (runtime/c_runtime.py) and the deployment         *)
(* launcher (runtime/deploy.py).                                           *)
(*                                                                         *)
(* The code separates a plan, which is pure data, from its execution. So   *)
(* does this module: Plan(j) is what the function for job j does, in its   *)
(* order, and each kind of step is one action. Processes execute plans at  *)
(* the same time; the file system and the toolchain on PATH are what they  *)
(* share. A command succeeds, fails, or times out, and what a driver that  *)
(* is killed has started may still write its output (gcc's ld, cmake's     *)
(* make).                                                                  *)
(*                                                                         *)
(* A file is what it was made of: the build and name it was made for, the  *)
(* compiler, and the files that went in. Compilers are deterministic; ar   *)
(* without D stamps its archive with the time.                             *)
(***************************************************************************)
EXTENDS Naturals, Sequences, FiniteSets

CONSTANTS
  Procs,       \* processes that build
  Jobs,        \* the builds they may run, [kind, dir, what, uses, sha]
  Generated,   \* what -> the C files acados generates for it
  RuntimeObjects,  \* sequence: the objects of the target's runtime archive
  DepArchives,     \* sequence: acados, hpipm, blasfeo
  Tools,       \* cross compilers that PATH may resolve to
  Pinned,      \* those that report the version the target pins
  Genuine,     \* the one with the SHA-256 the target may pin
  HostCC,      \* the host's compiler, which no build looks at
  None,
  Silent,      \* kinds of build whose compiler may report success and write nothing
  Exclusive    \* do the callers keep a directory to one build at a time?

Kinds == {"host", "cross", "deps", "runtime", "launcher"}

\* job.uses is the build whose archives it links, if any; job.sha says
\* whether the target pins the toolchain's SHA-256.
ASSUME BuildAssumption ==
  /\ \A j \in Jobs :
       /\ j.kind \in Kinds /\ j.sha \in BOOLEAN /\ j.uses \subseteq Jobs
       /\ \A u \in j.uses : <<j.kind, u.kind>> \in {<<"cross", "deps">>,
                                                    <<"launcher", "runtime">>}
  /\ Genuine \in Pinned /\ Pinned \subseteq Tools /\ HostCC \notin Tools
  /\ Silent \subseteq Kinds /\ Exclusive \in BOOLEAN
  /\ RuntimeObjects \in Seq(STRING) /\ DepArchives \in Seq(STRING)
  /\ \A i \in DOMAIN RuntimeObjects : RuntimeObjects[i] # "runtime"

ASSUME NoneAssumption == None \notin Tools \union {HostCC} \union Jobs

VARIABLES
  fs,        \* the file system: path -> what the file is made of, or None
  tool,      \* what the cross compiler's name resolves to on PATH, or None
  late,      \* outputs that a timed out command's children may still write
  job, pc,   \* per process: the build it runs, and how far it is in its plan
  links,     \* per process: the archives its caller said it will link
  verified,  \* per process: was the toolchain's SHA-256 compared?
  found,     \* per process: the C sources it discovered
  got,       \* per process: what it has read and hashed
  wrote,     \* history, per process: files its own commands have written
  built      \* per build: what the caller holds of it, while it is the last run

process == <<job, pc, links, verified, found, got, wrote>>
vars == <<fs, tool, late, process, built>>

(***************************************************************************)
(* Plans. A step names the files it needs and the files it makes.          *)
(***************************************************************************)
Step(do, in, out) == [do |-> do, in |-> in, out |-> out]

File(j, name) == <<j.dir, name>>
Each(do, j, names) == [i \in DOMAIN names |-> Step(do, {}, {File(j, names[i])})]
All(j, names) == {File(j, names[i]) : i \in DOMAIN names}

Library(j)  == File(j, "lib")       \* the shared library acados builds
Output(j)   == File(j, "so")        \* work_dir/lib<target>_<model>.so
Archive(j)  == File(j, "runtime")   \* libjaxility_runtime_<family>.a
Launcher(j) == File(j, "launcher")  \* jx_deploy_<family>
CFiles(j)   == IF j.kind \in {"host", "cross"}
               THEN {File(j, c) : c \in Generated[j.what]} ELSE {}

\* What is read and hashed at the end, but for a "deps" build.
Product(j) ==
  CASE j.kind = "host" -> Library(j) [] j.kind = "cross" -> Output(j)
    [] j.kind = "runtime" -> Archive(j) [] j.kind = "launcher" -> Launcher(j)

HostPlan(j) ==
  << Step("generate", {}, CFiles(j)), Step("compile", CFiles(j), {Library(j)}),
     Step("check", {Library(j)}, {}), Step("read", {Library(j)}, {}) >>

\* The C sources are discovered, so that they are not a matter of the plan.
CrossPlan(j) ==
  << Step("verify version", {}, {}), Step("verify integrity", {}, {}),
     Step("generate", {}, CFiles(j)), Step("discover", {}, {}),
     Step("compile", UNION {All(u, DepArchives) : u \in j.uses}, {Output(j)}),
     Step("check", {Output(j)}, {}), Step("read", {Output(j)}, {}) >>

\* Deviation: each archive is hashed before the next one is normalised, the
\* last of them before it is
HashBeforeNormalise(j) ==
  << Step("which", {}, {}), Step("configure", {}, {}) >>
    \o Each("install", j, DepArchives)
    \o << Step("check", All(j, DepArchives), {}) >>
    \o [i \in DOMAIN DepArchives |-> Step("read", {File(j, DepArchives[i])}, {})]
    \o Each("normalise", j, DepArchives)

DepsPlan(j) ==
  << Step("which", {}, {}), Step("configure", {}, {}) >>
    \o Each("install", j, DepArchives)
    \o << Step("check", All(j, DepArchives), {}) >>
    \o Each("normalise", j, DepArchives)
    \o [i \in DOMAIN DepArchives |-> Step("read", {File(j, DepArchives[i])}, {})]

\* Deviation: the outputs of an earlier build are left where they are
RuntimePlanUnclean(j) ==
  << Step("which", {}, {}) >>
    \o Each("compile", j, RuntimeObjects)
    \o << Step("compile", All(j, RuntimeObjects), {Archive(j)}),
          Step("check", {Archive(j)}, {}), Step("read", {Archive(j)}, {}) >>

RuntimePlan(j) ==
  << Step("which", {}, {}),
     Step("clean", {}, All(j, RuntimeObjects) \union {Archive(j)}) >>
    \o Each("compile", j, RuntimeObjects)
    \o << Step("compile", All(j, RuntimeObjects), {Archive(j)}),
          Step("check", {Archive(j)}, {}), Step("read", {Archive(j)}, {}) >>

LauncherPlan(j) ==
  LET archives == {Archive(u) : u \in j.uses} IN
  << Step("which", {}, {}), Step("check", archives, {}),
     Step("clean", {}, {Launcher(j)}), Step("compile", archives, {Launcher(j)}),
     Step("check", {Launcher(j)}, {}), Step("read", {Launcher(j)}, {}) >>

Plan(j) ==
  CASE j.kind = "host" -> HostPlan(j)       [] j.kind = "cross" -> CrossPlan(j)
    [] j.kind = "deps" -> DepsPlan(j)       [] j.kind = "runtime" -> RuntimePlan(j)
    [] j.kind = "launcher" -> LauncherPlan(j)

Paths == UNION {UNION {Plan(j)[i].out : i \in DOMAIN Plan(j)} : j \in Jobs}

(***************************************************************************)
(* What a file is made of.                                                 *)
(***************************************************************************)
Node(j, name, by, of) == [name |-> <<j.what, name>>, by |-> by, stamp |-> FALSE, of |-> of]

Source(j, file) == Node(j, file[2], None, {})

ASSUME SourceAssumption == \A j \in Jobs : \A f \in CFiles(j) : Source(j, f) # None

\* The linker takes the members of an archive and drops their time stamps.
Made(j, file, by, inputs) ==
  Node(j, file[2], by, {[fs[i] EXCEPT !.stamp = FALSE] : i \in inputs})

(***************************************************************************)
(* Executing a plan.                                                       *)
(***************************************************************************)
Init ==
  /\ fs = [f \in Paths |-> None]
  /\ tool \in Tools
  /\ late = {}
  /\ job = [p \in Procs |-> None]
  /\ pc = [p \in Procs |-> 0]
  /\ links = [p \in Procs |-> {}]
  /\ verified = [p \in Procs |-> FALSE]
  /\ found = [p \in Procs |-> {}]
  /\ got = [p \in Procs |-> {}]
  /\ wrote = [p \in Procs |-> {}]
  /\ built = [j \in Jobs |-> None]

Idle(p) == job[p] = None
At(p, do) == ~ Idle(p) /\ pc[p] <= Len(Plan(job[p])) /\ Plan(job[p])[pc[p]].do = do
Here(p) == Plan(job[p])[pc[p]]
Exist(files) == \A f \in files : fs[f] # None

\* A build works in its own directory and reads those of the builds it uses.
Uses(j) == {j.dir} \union {u.dir : u \in j.uses}
Busy(j) ==
  \/ \E q \in Procs : ~ Idle(q) /\ (j.dir \in Uses(job[q]) \/ job[q].dir \in Uses(j))
  \/ \E w \in late : w.file[1] \in Uses(j)

\* The caller holds the archives that j links, and is about to assign the
\* result of j.
Start(p, j) ==
  /\ Idle(p)
  /\ \A u \in j.uses : built[u] # None
  /\ Exclusive => ~ Busy(j)
  /\ job' = [job EXCEPT ![p] = j]
  /\ pc' = [pc EXCEPT ![p] = 1]
  /\ links' = [links EXCEPT ![p] = UNION {built[u].got : u \in j.uses}]
  /\ built' = [built EXCEPT ![j] = None]
  /\ UNCHANGED <<fs, tool, late, verified, found, got, wrote>>

Advance(p) == pc' = [pc EXCEPT ![p] = @ + 1] /\ UNCHANGED <<job, links, built>>

\* The call is over, with a result or an exception; files stay.
Leave(p) ==
  /\ job' = [job EXCEPT ![p] = None]
  /\ pc' = [pc EXCEPT ![p] = 0]
  /\ links' = [links EXCEPT ![p] = {}]
  /\ verified' = [verified EXCEPT ![p] = FALSE]
  /\ found' = [found EXCEPT ![p] = {}]
  /\ got' = [got EXCEPT ![p] = {}]
  /\ wrote' = [wrote EXCEPT ![p] = {}]

Raise(p) == Leave(p) /\ UNCHANGED built

\* shutil.which: the tool must be there, whatever its version. CMake's
\* configure may fail besides.
Which(p) ==
  /\ At(p, "which")
  /\ IF tool # None
     THEN Advance(p) /\ UNCHANGED <<verified, found, got, wrote>>
     ELSE Raise(p)
  /\ UNCHANGED <<fs, tool, late>>

Configure(p) ==
  /\ At(p, "configure")
  /\ \/ tool # None /\ Advance(p) /\ UNCHANGED <<verified, found, got, wrote>>
     \/ Raise(p)
  /\ UNCHANGED <<fs, tool, late>>

\* Deviation: whatever version the tool reports passes
VerifyVersionLoose(p) ==
  /\ At(p, "verify version")
  /\ IF tool # None
     THEN Advance(p) /\ UNCHANGED <<verified, found, got, wrote>>
     ELSE Raise(p)
  /\ UNCHANGED <<fs, tool, late>>

VerifyVersion(p) ==
  /\ At(p, "verify version")
  /\ IF tool \in Pinned
     THEN Advance(p) /\ UNCHANGED <<verified, found, got, wrote>>
     ELSE Raise(p)
  /\ UNCHANGED <<fs, tool, late>>

\* A pinned SHA-256 is compared; without one the manifest says "unverified".
VerifyIntegrity(p) ==
  /\ At(p, "verify integrity")
  /\ IF job[p].sha => tool = Genuine
     THEN /\ verified' = [verified EXCEPT ![p] = job[p].sha]
          /\ Advance(p) /\ UNCHANGED <<found, got, wrote>>
     ELSE Raise(p)
  /\ UNCHANGED <<fs, tool, late>>

\* acados overwrites the files it generates and leaves the others; it may
\* give up half-way.
Generate(p) ==
  /\ At(p, "generate")
  /\ \E files \in SUBSET Here(p).out :
       /\ fs' = [f \in Paths |-> IF f \in files THEN Source(job[p], f) ELSE fs[f]]
       /\ \/ /\ files = Here(p).out
             /\ wrote' = [wrote EXCEPT ![p] = @ \union files]
             /\ Advance(p) /\ UNCHANGED <<verified, found, got>>
          \/ Raise(p)
  /\ UNCHANGED <<tool, late>>

\* Every C file below c_generated_code that is there now.
Discover(p) ==
  /\ At(p, "discover")
  /\ LET cs == {f \in Paths : /\ f[1] = job[p].dir
                              /\ \E j \in Jobs : f \in CFiles(j)
                              /\ fs[f] # None} IN
       IF cs # {}
       THEN /\ found' = [found EXCEPT ![p] = cs]
            /\ Advance(p) /\ UNCHANGED <<verified, got, wrote>>
       ELSE Raise(p)
  /\ UNCHANGED <<fs, tool, late>>

CC(p) == IF job[p].kind = "host" THEN HostCC ELSE tool

\* Deviation: the runtime's ar is run without D too
ResultWithoutD(p, f) ==
  LET made == Made(job[p], f, CC(p), Here(p).in \union found[p]) IN
    IF Here(p).do = "install" \/ f = Archive(job[p]) THEN [made EXCEPT !.stamp = TRUE] ELSE made

\* What the command makes of the file `f`.
Result(p, f) ==
  LET made == Made(job[p], f, CC(p), Here(p).in \union found[p]) IN
    IF Here(p).do = "install" THEN [made EXCEPT !.stamp = TRUE] ELSE made

\* A compiler, ar, or cmake --build --target install for one archive. It may
\* succeed if the compiler and all its inputs are there; it may fail, having
\* removed its output or not, and once started it may time out. make may find
\* an archive up to date, and installs it again.
Command(p) ==
  /\ At(p, "compile") \/ At(p, "install")
  /\ LET ready == CC(p) # None /\ Exist(Here(p).in \union found[p])
         f == CHOOSE f \in Here(p).out : TRUE IN
       \/ /\ ready
          /\ \/ fs' = [fs EXCEPT ![f] = Result(p, f)]
             \/ /\ Here(p).do = "install" /\ fs[f] # None
                /\ fs' = [fs EXCEPT ![f].stamp = TRUE]
          /\ wrote' = [wrote EXCEPT ![p] = @ \union {f}]
          /\ Advance(p) /\ UNCHANGED <<late, verified, found, got>>
       \/ /\ ready /\ job[p].kind \in Silent
          /\ Advance(p) /\ UNCHANGED <<fs, late, verified, found, got, wrote>>
       \/ /\ fs' \in {fs, [fs EXCEPT ![f] = None]}
          /\ Raise(p) /\ UNCHANGED late
       \/ /\ ready
          /\ late' = late \union {[file |-> f, node |-> Result(p, f)]}
          /\ Raise(p) /\ UNCHANGED fs
  /\ UNCHANGED tool

\* objcopy --enable-deterministic-archives to a file beside, then a rename.
Normalise(p) ==
  /\ At(p, "normalise")
  /\ \/ /\ tool # None /\ Exist(Here(p).out)
        /\ fs' = [f \in Paths |-> IF f \in Here(p).out THEN [fs[f] EXCEPT !.stamp = FALSE]
                                                      ELSE fs[f]]
        /\ wrote' = [wrote EXCEPT ![p] = @ \union Here(p).out]
        /\ Advance(p) /\ UNCHANGED <<verified, found, got>>
     \/ Raise(p) /\ UNCHANGED fs
  /\ UNCHANGED <<tool, late>>

Clean(p) ==
  /\ At(p, "clean")
  /\ fs' = [f \in Paths |-> IF f \in Here(p).out THEN None ELSE fs[f]]
  /\ Advance(p)
  /\ UNCHANGED <<tool, late, verified, found, got, wrote>>

Check(p) ==
  /\ At(p, "check")
  /\ IF Exist(Here(p).in)
     THEN Advance(p) /\ UNCHANGED <<verified, found, got, wrote>>
     ELSE Raise(p)
  /\ UNCHANGED <<fs, tool, late>>

Read(p) ==
  /\ At(p, "read")
  /\ IF Exist(Here(p).in)
     THEN /\ got' = [got EXCEPT ![p] = @ \union {fs[f] : f \in Here(p).in}]
          /\ Advance(p) /\ UNCHANGED <<verified, found, wrote>>
     ELSE Raise(p)
  /\ UNCHANGED <<fs, tool, late>>

\* The manifest, the artifact and the bundle are functions of what was read
\* and noted.
Return(p) ==
  /\ ~ Idle(p) /\ pc[p] > Len(Plan(job[p]))
  /\ built' = [built EXCEPT ![job[p]] =
                 [got |-> got[p], links |-> links[p], verified |-> verified[p]]]
  /\ Leave(p)
  /\ UNCHANGED <<fs, tool, late>>

(***************************************************************************)
(* The environment.                                                        *)
(***************************************************************************)

\* What a killed driver has started finishes, or dies too.
LateWrite(w) ==
  /\ late' = late \ {w}
  /\ fs' \in {fs, [fs EXCEPT ![w.file] = w.node]}
  /\ UNCHANGED <<tool, process, built>>

\* Another toolchain is installed, or PATH changes; callers who take care do
\* it between builds.
Swap(t) ==
  /\ t # tool
  /\ Exclusive => late = {} /\ \A p \in Procs : Idle(p)
  /\ tool' = t
  /\ UNCHANGED <<fs, late, process, built>>

Next ==
  \/ \E p \in Procs :
       \/ \E j \in Jobs : Start(p, j)
       \/ Which(p) \/ Configure(p) \/ VerifyVersion(p) \/ VerifyIntegrity(p)
       \/ Generate(p) \/ Discover(p) \/ Command(p) \/ Normalise(p)
       \/ Clean(p) \/ Check(p) \/ Read(p) \/ Return(p)
  \/ \E w \in late : LateWrite(w)
  \/ \E t \in Tools \union {None} : Swap(t)

Spec == Init /\ [][Next]_vars

(***************************************************************************)
(* Properties.                                                             *)
(***************************************************************************)

\* What one pass over j's own sources with compiler t makes, linked with the
\* archives the caller named.
Pure(j, t, archives) ==
  Node(j, Product(j)[2], t,
    archives
      \union {Source(j, c) : c \in CFiles(j)}
      \union (IF j.kind = "runtime"
              THEN {Node(j, o[2], t, {}) : o \in All(j, RuntimeObjects)} ELSE {}))

\* "Same source + same target + same toolchain -> byte-identical payload"
\* (artifact.py): whatever failed, timed out, was interrupted or was left
\* behind before, a product is what one compiler makes of the build's own
\* sources and of the archives that its caller holds the hashes of.
ProductsAreFunctions ==
  \A j \in Jobs :
    built[j] # None /\ j.kind # "deps" =>
      \E t \in Tools \union {HostCC} : built[j].got = {Pure(j, t, built[j].links)}

\* The manifest of a cross build names the compiler that made its payload: it
\* reports the pinned version, and it is the pinned binary if the manifest
\* says the binary was verified; that it was is said whenever it could be.
ManifestNamesCompiler ==
  \A j \in Jobs :
    built[j] # None /\ j.kind = "cross" =>
      /\ built[j].verified = j.sha
      /\ \A n \in built[j].got : n.by \in Pinned /\ (built[j].verified => n.by = Genuine)

\* Hashes of dependency archives are of the archives of this build, and of
\* none of the times at which they were made.
DepHashesReproducible ==
  \A j \in Jobs :
    built[j] # None /\ j.kind = "deps" =>
      /\ {n.name : n \in built[j].got} = {<<j.what, f[2]>> : f \in All(j, DepArchives)}
      /\ \A n \in built[j].got : ~ n.stamp

\* What is read as the product of a build was written by a command of this
\* call. "Raises: ... the compiler ran successfully but did not write
\* output_path" (builder_cross.py).
ProductsAreFresh ==
  \A p \in Procs :
    At(p, "read") /\ job[p].kind # "deps" => Product(job[p]) \in wrote[p]
=============================================================================
