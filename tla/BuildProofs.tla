---------------------------- MODULE BuildProofs ----------------------------
(***************************************************************************)
(* The builds' promises for every set of jobs, processes and toolchains,   *)
(* as long as callers keep a directory to one build, and to one call at a  *)
(* time, and the compiler of a solver build does not report a success      *)
(* without having written its output.                                      *)
(***************************************************************************)
EXTENDS Build, SequenceTheorems, TLAPS

Careful ==
  /\ Exclusive
  /\ Silent \subseteq {"runtime", "launcher"}
  /\ \A j, k \in Jobs : j.dir = k.dir => j = k

(***************************************************************************)
(* The shape of the plans.                                                 *)
(***************************************************************************)
n == Len(RuntimeObjects)
m == Len(DepArchives)

LEMMA Lengths == n \in Nat /\ m \in Nat /\ DOMAIN RuntimeObjects = 1 .. n /\ DOMAIN DepArchives = 1 .. m
BY BuildAssumption DEF n, m

Lists(s, a) == DOMAIN s = 1 .. a /\ s = [i \in 1 .. a |-> s[i]]

\* The provers do better when they see what a concatenation is and not how it is written.
Cat(s, t) == s \o t

LEMMA Concat ==
  ASSUME NEW a \in Nat, NEW b \in Nat, NEW s, NEW t, Lists(s, a), Lists(t, b)
  PROVE  /\ Lists(Cat(s, t), a + b) /\ Len(Cat(s, t)) = a + b
         /\ \A i \in 1 .. a : Cat(s, t)[i] = s[i]
         /\ \A i \in a + 1 .. a + b : Cat(s, t)[i] = t[i - a]
<1> DEFINE S == {s[i] : i \in 1 .. a} \union {t[i] : i \in 1 .. b}
<1>1. s \in Seq(S) /\ Len(s) = a
  BY DEF Lists
<1>2. t \in Seq(S) /\ Len(t) = b
  BY DEF Lists
<1> HIDE DEF S
<1>3. /\ s \o t \in Seq(S)
      /\ Len(s \o t) = a + b
      /\ \A i \in 1 .. a + b : (s \o t)[i] = IF i <= a THEN s[i] ELSE t[i - a]
  BY <1>1, <1>2, ConcatProperties
<1>4. Lists(s \o t, a + b)
  BY <1>3 DEF Lists
<1> QED BY <1>3, <1>4 DEF Cat

LEMMA Tuples ==
  ASSUME NEW a, NEW b, NEW c
  PROVE  Lists(<<a>>, 1) /\ Lists(<<a, b>>, 2) /\ Lists(<<a, b, c>>, 3)
BY DEF Lists

LEMMA Seven ==
  ASSUME NEW a, NEW b, NEW c, NEW d, NEW e, NEW f, NEW g, NEW s, s = <<a, b, c, d, e, f, g>>
  PROVE  /\ DOMAIN s = 1 .. 7 /\ Len(s) = 7
         /\ s[1] = a /\ s[2] = b /\ s[3] = c /\ s[4] = d /\ s[5] = e /\ s[6] = f /\ s[7] = g
OBVIOUS

LEMMA HostSteps ==
  ASSUME NEW j \in Jobs, j.kind = "host"
  PROVE  /\ DOMAIN Plan(j) = 1 .. 4 /\ Len(Plan(j)) = 4
         /\ Plan(j)[1] = Step("generate", {}, CFiles(j))
         /\ Plan(j)[2] = Step("compile", CFiles(j), {Library(j)})
         /\ Plan(j)[3] = Step("check", {Library(j)}, {})
         /\ Plan(j)[4] = Step("read", {Library(j)}, {})
BY DEF Plan, HostPlan

LEMMA CrossSteps ==
  ASSUME NEW j \in Jobs, j.kind = "cross"
  PROVE  /\ DOMAIN Plan(j) = 1 .. 7 /\ Len(Plan(j)) = 7
         /\ Plan(j)[1] = Step("verify version", {}, {})
         /\ Plan(j)[2] = Step("verify integrity", {}, {})
         /\ Plan(j)[3] = Step("generate", {}, CFiles(j))
         /\ Plan(j)[4] = Step("discover", {}, {})
         /\ Plan(j)[5] = Step("compile", UNION {All(u, DepArchives) : u \in j.uses}, {Output(j)})
         /\ Plan(j)[6] = Step("check", {Output(j)}, {})
         /\ Plan(j)[7] = Step("read", {Output(j)}, {})
<1>1. Plan(j) = CrossPlan(j)
  BY DEF Plan
<1>2. PICK a, b, c, d, e, f, g :
        /\ a = Step("verify version", {}, {}) /\ b = Step("verify integrity", {}, {})
        /\ c = Step("generate", {}, CFiles(j)) /\ d = Step("discover", {}, {})
        /\ e = Step("compile", UNION {All(u, DepArchives) : u \in j.uses}, {Output(j)})
        /\ f = Step("check", {Output(j)}, {}) /\ g = Step("read", {Output(j)}, {})
        /\ Plan(j) = <<a, b, c, d, e, f, g>>
  BY <1>1, Zenon DEF CrossPlan
<1>3. /\ DOMAIN Plan(j) = 1 .. 7 /\ Len(Plan(j)) = 7
      /\ Plan(j)[1] = a /\ Plan(j)[2] = b /\ Plan(j)[3] = c /\ Plan(j)[4] = d
      /\ Plan(j)[5] = e /\ Plan(j)[6] = f /\ Plan(j)[7] = g
  <2>1. Plan(j) = <<a, b, c, d, e, f, g>>
    BY <1>2, Zenon
  <2> QED BY <2>1, SMT
<1> QED BY <1>2, <1>3, Zenon

LEMMA LauncherSteps ==
  ASSUME NEW j \in Jobs, j.kind = "launcher"
  PROVE  /\ DOMAIN Plan(j) = 1 .. 6 /\ Len(Plan(j)) = 6
         /\ Plan(j)[1] = Step("which", {}, {})
         /\ Plan(j)[2] = Step("check", {Archive(u) : u \in j.uses}, {})
         /\ Plan(j)[3] = Step("clean", {}, {Launcher(j)})
         /\ Plan(j)[4] = Step("compile", {Archive(u) : u \in j.uses}, {Launcher(j)})
         /\ Plan(j)[5] = Step("check", {Launcher(j)}, {})
         /\ Plan(j)[6] = Step("read", {Launcher(j)}, {})
<1>1. Plan(j) = LauncherPlan(j)
  BY DEF Plan
<1> QED BY <1>1 DEF LauncherPlan

LEMMA Sandwich ==
  ASSUME NEW k \in Nat, NEW a, NEW b, NEW c, NEW s, Lists(a, 2), Lists(b, k), Lists(c, 3),
         s = Cat(Cat(a, b), c)
  PROVE  /\ DOMAIN s = 1 .. k + 5 /\ Len(s) = k + 5
         /\ s[1] = a[1] /\ s[2] = a[2]
         /\ \A i \in 3 .. k + 2 : s[i] = b[i - 2]
         /\ s[k + 3] = c[1] /\ s[k + 4] = c[2] /\ s[k + 5] = c[3]
<1>1. /\ Lists(Cat(a, b), 2 + k)
      /\ \A i \in 1 .. 2 : Cat(a, b)[i] = a[i]
      /\ \A i \in 2 + 1 .. 2 + k : Cat(a, b)[i] = b[i - 2]
  BY Concat
<1>2. /\ Lists(s, (2 + k) + 3) /\ Len(s) = (2 + k) + 3
      /\ \A i \in 1 .. 2 + k : s[i] = Cat(a, b)[i]
      /\ \A i \in (2 + k) + 1 .. (2 + k) + 3 : s[i] = c[i - (2 + k)]
  BY <1>1, Concat
<1>3. DOMAIN s = 1 .. k + 5 /\ Len(s) = k + 5
  BY <1>2 DEF Lists
<1>4. s[1] = a[1] /\ s[2] = a[2]
  BY <1>1, <1>2
<1>5. \A i \in 3 .. k + 2 : s[i] = b[i - 2]
  BY <1>1, <1>2
<1>6. s[k + 3] = c[1] /\ s[k + 4] = c[2] /\ s[k + 5] = c[3]
  BY <1>2
<1> QED BY <1>3, <1>4, <1>5, <1>6

LEMMA RuntimeSteps ==
  ASSUME NEW j \in Jobs, j.kind = "runtime"
  PROVE  /\ DOMAIN Plan(j) = 1 .. n + 5 /\ Len(Plan(j)) = n + 5
         /\ Plan(j)[1] = Step("which", {}, {})
         /\ Plan(j)[2] = Step("clean", {}, All(j, RuntimeObjects) \union {Archive(j)})
         /\ \A i \in 3 .. n + 2 : Plan(j)[i] = Step("compile", {}, {File(j, RuntimeObjects[i - 2])})
         /\ Plan(j)[n + 3] = Step("compile", All(j, RuntimeObjects), {Archive(j)})
         /\ Plan(j)[n + 4] = Step("check", {Archive(j)}, {})
         /\ Plan(j)[n + 5] = Step("read", {Archive(j)}, {})
<1>1. Plan(j) = RuntimePlan(j)
  BY DEF Plan
<1>2. PICK a, b, c :
        /\ a = << Step("which", {}, {}),
                  Step("clean", {}, All(j, RuntimeObjects) \union {Archive(j)}) >>
        /\ b = Each("compile", j, RuntimeObjects)
        /\ c = << Step("compile", All(j, RuntimeObjects), {Archive(j)}),
                  Step("check", {Archive(j)}, {}), Step("read", {Archive(j)}, {}) >>
        /\ Plan(j) = Cat(Cat(a, b), c)
  BY <1>1 DEF RuntimePlan, Cat
<1>3. Lists(a, 2) /\ Lists(c, 3)
  BY <1>2, Tuples
<1>4. Lists(b, n) /\ \A i \in 1 .. n : b[i] = Step("compile", {}, {File(j, RuntimeObjects[i])})
  BY <1>2, Lengths DEF Each, Lists
<1>5. /\ a[1] = Step("which", {}, {})
      /\ a[2] = Step("clean", {}, All(j, RuntimeObjects) \union {Archive(j)})
      /\ c[1] = Step("compile", All(j, RuntimeObjects), {Archive(j)})
      /\ c[2] = Step("check", {Archive(j)}, {}) /\ c[3] = Step("read", {Archive(j)}, {})
  BY <1>2
<1>6. /\ DOMAIN Plan(j) = 1 .. n + 5 /\ Len(Plan(j)) = n + 5
      /\ Plan(j)[1] = a[1] /\ Plan(j)[2] = a[2]
      /\ \A i \in 3 .. n + 2 : Plan(j)[i] = b[i - 2]
      /\ Plan(j)[n + 3] = c[1] /\ Plan(j)[n + 4] = c[2] /\ Plan(j)[n + 5] = c[3]
  <2>1. n \in Nat
    BY Lengths
  <2>2. Lists(a, 2) /\ Lists(b, n) /\ Lists(c, 3) /\ Plan(j) = Cat(Cat(a, b), c)
    BY <1>2, <1>3, <1>4
  <2> QED BY <2>1, <2>2, Sandwich
<1>7. \A i \in 3 .. n + 2 : i - 2 \in 1 .. n
  BY Lengths
<1>8. \A i \in 3 .. n + 2 : Plan(j)[i] = Step("compile", {}, {File(j, RuntimeObjects[i - 2])})
  BY <1>4, <1>6, <1>7
<1> QED BY <1>5, <1>6, <1>8

LEMMA Layers ==
  ASSUME NEW k \in Nat, NEW a, NEW b, NEW c, NEW d, NEW e, NEW s,
         Lists(a, 2), Lists(b, k), Lists(c, 1), Lists(d, k), Lists(e, k),
         s = Cat(Cat(Cat(Cat(a, b), c), d), e)
  PROVE  /\ DOMAIN s = 1 .. k + k + k + 3 /\ Len(s) = k + k + k + 3
         /\ s[1] = a[1] /\ s[2] = a[2]
         /\ \A i \in 3 .. k + 2 : s[i] = b[i - 2]
         /\ s[k + 3] = c[1]
         /\ \A i \in k + 4 .. k + k + 3 : s[i] = d[i - (k + 3)]
         /\ \A i \in k + k + 4 .. k + k + k + 3 : s[i] = e[i - (k + k + 3)]
<1> DEFINE ab == Cat(a, b)  abc == Cat(ab, c)  abcd == Cat(abc, d)
<1>1. /\ Lists(ab, 2 + k)
      /\ \A i \in 1 .. 2 : ab[i] = a[i]
      /\ \A i \in 2 + 1 .. 2 + k : ab[i] = b[i - 2]
  BY Concat
<1> HIDE DEF ab
<1>2. /\ Lists(abc, (2 + k) + 1)
      /\ \A i \in 1 .. 2 + k : abc[i] = ab[i]
      /\ \A i \in (2 + k) + 1 .. (2 + k) + 1 : abc[i] = c[i - (2 + k)]
  BY <1>1, Concat
<1> HIDE DEF abc
<1>3. /\ Lists(abcd, ((2 + k) + 1) + k)
      /\ \A i \in 1 .. (2 + k) + 1 : abcd[i] = abc[i]
      /\ \A i \in ((2 + k) + 1) + 1 .. ((2 + k) + 1) + k : abcd[i] = d[i - ((2 + k) + 1)]
  BY <1>2, Concat
<1>4. s = Cat(abcd, e)
  BY DEF abc, ab
<1> HIDE DEF abcd
<1>5. /\ Lists(s, (((2 + k) + 1) + k) + k) /\ Len(s) = (((2 + k) + 1) + k) + k
      /\ \A i \in 1 .. ((2 + k) + 1) + k : s[i] = abcd[i]
      /\ \A i \in (((2 + k) + 1) + k) + 1 .. (((2 + k) + 1) + k) + k :
           s[i] = e[i - (((2 + k) + 1) + k)]
  BY <1>3, <1>4, Concat
<1>6. DOMAIN s = 1 .. k + k + k + 3 /\ Len(s) = k + k + k + 3
  BY <1>5 DEF Lists
<1>7. s[1] = a[1] /\ s[2] = a[2]
  BY <1>1, <1>2, <1>3, <1>5
<1>8. \A i \in 3 .. k + 2 : s[i] = b[i - 2]
  BY <1>1, <1>2, <1>3, <1>5
<1>9. s[k + 3] = c[1]
  BY <1>2, <1>3, <1>5
<1>10. \A i \in k + 4 .. k + k + 3 : s[i] = d[i - (k + 3)]
  BY <1>3, <1>5
<1>11. \A i \in k + k + 4 .. k + k + k + 3 : s[i] = e[i - (k + k + 3)]
  BY <1>5
<1> QED BY <1>6, <1>7, <1>8, <1>9, <1>10, <1>11

LEMMA DepsSteps ==
  ASSUME NEW j \in Jobs, j.kind = "deps"
  PROVE  /\ DOMAIN Plan(j) = 1 .. m + m + m + 3 /\ Len(Plan(j)) = m + m + m + 3
         /\ Plan(j)[1] = Step("which", {}, {}) /\ Plan(j)[2] = Step("configure", {}, {})
         /\ \A i \in 3 .. m + 2 : Plan(j)[i] = Step("install", {}, {File(j, DepArchives[i - 2])})
         /\ Plan(j)[m + 3] = Step("check", All(j, DepArchives), {})
         /\ \A i \in m + 4 .. m + m + 3 :
              Plan(j)[i] = Step("normalise", {}, {File(j, DepArchives[i - (m + 3)])})
         /\ \A i \in m + m + 4 .. m + m + m + 3 :
              Plan(j)[i] = Step("read", {File(j, DepArchives[i - (m + m + 3)])}, {})
<1>1. Plan(j) = DepsPlan(j)
  BY DEF Plan
<1>2. PICK a, b, c, d, e :
        /\ a = << Step("which", {}, {}), Step("configure", {}, {}) >>
        /\ b = Each("install", j, DepArchives)
        /\ c = << Step("check", All(j, DepArchives), {}) >>
        /\ d = Each("normalise", j, DepArchives)
        /\ e = [i \in DOMAIN DepArchives |-> Step("read", {File(j, DepArchives[i])}, {})]
        /\ Plan(j) = Cat(Cat(Cat(Cat(a, b), c), d), e)
  BY <1>1 DEF DepsPlan, Cat
<1>3. Lists(a, 2) /\ Lists(c, 1)
  BY <1>2, Tuples
<1>4. /\ Lists(b, m) /\ Lists(d, m) /\ Lists(e, m)
      /\ \A i \in 1 .. m : /\ b[i] = Step("install", {}, {File(j, DepArchives[i])})
                          /\ d[i] = Step("normalise", {}, {File(j, DepArchives[i])})
                          /\ e[i] = Step("read", {File(j, DepArchives[i])}, {})
  BY <1>2, Lengths DEF Each, Lists
<1>5. /\ a[1] = Step("which", {}, {}) /\ a[2] = Step("configure", {}, {})
      /\ c[1] = Step("check", All(j, DepArchives), {})
  BY <1>2
<1>6. /\ DOMAIN Plan(j) = 1 .. m + m + m + 3 /\ Len(Plan(j)) = m + m + m + 3
      /\ Plan(j)[1] = a[1] /\ Plan(j)[2] = a[2]
      /\ \A i \in 3 .. m + 2 : Plan(j)[i] = b[i - 2]
      /\ Plan(j)[m + 3] = c[1]
      /\ \A i \in m + 4 .. m + m + 3 : Plan(j)[i] = d[i - (m + 3)]
      /\ \A i \in m + m + 4 .. m + m + m + 3 : Plan(j)[i] = e[i - (m + m + 3)]
  <2>1. m \in Nat
    BY Lengths
  <2>2. /\ Lists(a, 2) /\ Lists(b, m) /\ Lists(c, 1) /\ Lists(d, m) /\ Lists(e, m)
        /\ Plan(j) = Cat(Cat(Cat(Cat(a, b), c), d), e)
    BY <1>2, <1>3, <1>4
  <2> QED BY <2>1, <2>2, Layers
<1>7. /\ \A i \in 3 .. m + 2 : i - 2 \in 1 .. m
      /\ \A i \in m + 4 .. m + m + 3 : i - (m + 3) \in 1 .. m
      /\ \A i \in m + m + 4 .. m + m + m + 3 : i - (m + m + 3) \in 1 .. m
  BY Lengths
<1>8. /\ \A i \in 3 .. m + 2 : Plan(j)[i] = Step("install", {}, {File(j, DepArchives[i - 2])})
      /\ \A i \in m + 4 .. m + m + 3 :
           Plan(j)[i] = Step("normalise", {}, {File(j, DepArchives[i - (m + 3)])})
      /\ \A i \in m + m + 4 .. m + m + m + 3 :
           Plan(j)[i] = Step("read", {File(j, DepArchives[i - (m + m + 3)])}, {})
  BY <1>4, <1>6, <1>7
<1> QED BY <1>5, <1>6, <1>8

(***************************************************************************)
(* The inductive invariant. What a running build has on disk depends on    *)
(* how far it is, and is changed by nobody else: no other build runs in    *)
(* the directories it uses, and nothing is left that may write there. What *)
(* a caller holds the hashes of is still on disk.                          *)
(***************************************************************************)
IsNode(x) == x = [name |-> x.name, by |-> x.by, stamp |-> x.stamp, of |-> x.of]
Fits(f, x) == IsNode(x) /\ \A j \in Jobs : j.dir = f[1] => x.name = <<j.what, f[2]>>

Disk ==
  /\ fs = [f \in Paths |-> fs[f]]
  /\ \A f \in Paths : fs[f] # None => Fits(f, fs[f])
  /\ \A w \in late : w.file \in Paths /\ Fits(w.file, w.node)

Records ==
  /\ job \in [Procs -> Jobs \union {None}] /\ pc \in [Procs -> Nat]
  /\ links = [p \in Procs |-> links[p]] /\ verified = [p \in Procs |-> verified[p]]
  /\ found = [p \in Procs |-> found[p]] /\ got = [p \in Procs |-> got[p]]
  /\ wrote = [p \in Procs |-> wrote[p]] /\ built = [j \in Jobs |-> built[j]]
  /\ \A p \in Procs : Idle(p) => verified[p] = FALSE /\ found[p] = {} /\ got[p] = {}
  /\ tool \in Tools \union {None}

Apart ==
  \A p \in Procs : ~ Idle(p) =>
    /\ \A q \in Procs : q # p /\ ~ Idle(q) => job[q].dir \notin Uses(job[p])
    /\ \A w \in late : w.file[1] \notin Uses(job[p])

Linked ==
  \A p \in Procs : ~ Idle(p) =>
    /\ \A u \in job[p].uses : built[u] # None
    /\ links[p] = UNION {built[u].got : u \in job[p].uses}

Linkables(u) == IF u.kind = "deps" THEN All(u, DepArchives) ELSE {Product(u)}

HeldBy(u) ==
  /\ \A p \in Procs : job[p] # u
  /\ \A w \in late : w.file[1] # u.dir
  /\ built[u].got = {fs[f] : f \in Linkables(u)}
  /\ u.kind \in {"deps", "runtime"} => \A f \in Linkables(u) : fs[f].stamp = FALSE

Held == \A u \in Jobs : built[u] # None => HeldBy(u)

Sourced(j) == \A c \in CFiles(j) : fs[c] = Source(j, c)
Whole(p, j, t) == fs[Product(j)] = Pure(j, t, links[p]) /\ Product(j) \in wrote[p]
GotAt(p, j, end) == got[p] = IF pc[p] = end THEN {fs[Product(j)]} ELSE {}

HostAt(p, j) ==
  /\ pc[p] \in 1 .. 5 /\ found[p] = {} /\ GotAt(p, j, 5)
  /\ pc[p] = 2 => Sourced(j)
  /\ pc[p] > 2 => Whole(p, j, HostCC)

CrossAt(p, j) ==
  /\ pc[p] \in 1 .. 8 /\ GotAt(p, j, 8)
  /\ pc[p] > 1 => tool \in Pinned
  /\ verified[p] = IF pc[p] > 2 THEN j.sha ELSE FALSE
  /\ pc[p] > 2 /\ j.sha => tool = Genuine
  /\ pc[p] \in {4, 5} => Sourced(j)
  /\ pc[p] = 5 => found[p] = CFiles(j)
  /\ pc[p] > 5 => Whole(p, j, tool)

RuntimeAt(p, j) ==
  /\ pc[p] \in 1 .. n + 6 /\ found[p] = {} /\ GotAt(p, j, n + 6)
  /\ pc[p] > 1 => tool # None
  /\ pc[p] > 2 => (fs[Archive(j)] # None => Whole(p, j, tool))
  /\ pc[p] \in 3 .. n + 3 =>
       \A f \in All(j, RuntimeObjects) : fs[f] # None => fs[f] = Node(j, f[2], tool, {})
  /\ pc[p] > n + 4 => fs[Archive(j)] # None

LauncherAt(p, j) ==
  /\ pc[p] \in 1 .. 7 /\ found[p] = {} /\ GotAt(p, j, 7)
  /\ pc[p] > 1 => tool # None
  /\ pc[p] > 3 => (fs[Launcher(j)] # None => Whole(p, j, tool))
  /\ pc[p] > 5 => fs[Launcher(j)] # None

DepsAt(p, j) ==
  /\ pc[p] \in 1 .. m + m + m + 4 /\ found[p] = {}
  /\ \A k \in 1 .. m : /\ pc[p] > k + m + 3 => fs[File(j, DepArchives[k])].stamp = FALSE
                       /\ pc[p] > k + m + m + 3 => fs[File(j, DepArchives[k])] # None
  /\ got[p] = {fs[File(j, DepArchives[k])] : k \in {k \in 1 .. m : pc[p] > k + m + m + 3}}

Doing(p, j) ==
  /\ j.kind = "host" => HostAt(p, j)
  /\ j.kind = "cross" => CrossAt(p, j)
  /\ j.kind = "runtime" => RuntimeAt(p, j)
  /\ j.kind = "launcher" => LauncherAt(p, j)
  /\ j.kind = "deps" => DepsAt(p, j)

Sound == ProductsAreFunctions /\ ManifestNamesCompiler /\ DepHashesReproducible

IInv ==
  /\ Disk /\ Records /\ Apart /\ Linked /\ Held /\ Sound
  /\ \A p \in Procs, j \in Jobs : job[p] = j => Doing(p, j)

(***************************************************************************)
(* Where a step is in its plan.                                            *)
(***************************************************************************)
Active(p, j) == p \in Procs /\ j \in Jobs /\ job[p] = j /\ Doing(p, j)

LEMMA JobKinds == \A j \in Jobs : j.kind \in Kinds /\ j.uses \subseteq Jobs
BY BuildAssumption

LEMMA JobUses ==
  ASSUME NEW j \in Jobs, NEW u \in j.uses
  PROVE  /\ u \in Jobs
         /\ \/ j.kind = "cross" /\ u.kind = "deps"
            \/ j.kind = "launcher" /\ u.kind = "runtime"
<1>1. <<j.kind, u.kind>> \in {<<"cross", "deps">>, <<"launcher", "runtime">>}
  BY BuildAssumption
<1> QED BY <1>1, JobKinds

LEMMA HostPlaces ==
  ASSUME NEW p, NEW j, Active(p, j), j.kind = "host", pc[p] <= Len(Plan(job[p]))
  PROVE  \/ pc[p] = 1 /\ Here(p) = Step("generate", {}, CFiles(j))
         \/ pc[p] = 2 /\ Here(p) = Step("compile", CFiles(j), {Library(j)})
         \/ pc[p] = 3 /\ Here(p) = Step("check", {Library(j)}, {})
         \/ pc[p] = 4 /\ Here(p) = Step("read", {Library(j)}, {})
<1>1. pc[p] \in 1 .. 4 /\ Here(p) = Plan(j)[pc[p]]
  <2>1. HostAt(p, j) /\ job[p] = j /\ j \in Jobs
    BY DEF Active, Doing
  <2>2. pc[p] \in 1 .. 5
    BY <2>1 DEF HostAt
  <2>3. Len(Plan(j)) = 4
    BY <2>1, HostSteps
  <2> QED BY <2>1, <2>2, <2>3 DEF Here
<1> QED BY <1>1, HostSteps, SMTT(30) DEF Active

LEMMA CrossPlaces ==
  ASSUME NEW p, NEW j, Active(p, j), j.kind = "cross", pc[p] <= Len(Plan(job[p]))
  PROVE  \/ pc[p] = 1 /\ Here(p) = Step("verify version", {}, {})
         \/ pc[p] = 2 /\ Here(p) = Step("verify integrity", {}, {})
         \/ pc[p] = 3 /\ Here(p) = Step("generate", {}, CFiles(j))
         \/ pc[p] = 4 /\ Here(p) = Step("discover", {}, {})
         \/ /\ pc[p] = 5
            /\ Here(p) = Step("compile", UNION {All(u, DepArchives) : u \in j.uses}, {Output(j)})
         \/ pc[p] = 6 /\ Here(p) = Step("check", {Output(j)}, {})
         \/ pc[p] = 7 /\ Here(p) = Step("read", {Output(j)}, {})
<1>1. pc[p] \in 1 .. 7 /\ Here(p) = Plan(j)[pc[p]]
  <2>1. CrossAt(p, j) /\ job[p] = j /\ j \in Jobs
    BY DEF Active, Doing
  <2>2. pc[p] \in 1 .. 8
    BY <2>1 DEF CrossAt
  <2>3. Len(Plan(j)) = 7
    BY <2>1, CrossSteps
  <2> QED BY <2>1, <2>2, <2>3 DEF Here
<1>2. j \in Jobs
  BY DEF Active
<1>3. PICK q : q = Plan(j)
  OBVIOUS
<1>4. \/ pc[p] = 1 /\ Here(p) = q[1]
      \/ pc[p] = 2 /\ Here(p) = q[2]
      \/ pc[p] = 3 /\ Here(p) = q[3]
      \/ pc[p] = 4 /\ Here(p) = q[4]
      \/ pc[p] = 5 /\ Here(p) = q[5]
      \/ pc[p] = 6 /\ Here(p) = q[6]
      \/ pc[p] = 7 /\ Here(p) = q[7]
  BY <1>1, <1>3
<1> QED BY <1>2, <1>3, <1>4, CrossSteps, Zenon

LEMMA LauncherPlaces ==
  ASSUME NEW p, NEW j, Active(p, j), j.kind = "launcher", pc[p] <= Len(Plan(job[p]))
  PROVE  \/ pc[p] = 1 /\ Here(p) = Step("which", {}, {})
         \/ pc[p] = 2 /\ Here(p) = Step("check", {Archive(u) : u \in j.uses}, {})
         \/ pc[p] = 3 /\ Here(p) = Step("clean", {}, {Launcher(j)})
         \/ pc[p] = 4 /\ Here(p) = Step("compile", {Archive(u) : u \in j.uses}, {Launcher(j)})
         \/ pc[p] = 5 /\ Here(p) = Step("check", {Launcher(j)}, {})
         \/ pc[p] = 6 /\ Here(p) = Step("read", {Launcher(j)}, {})
<1>1. pc[p] \in 1 .. 6 /\ Here(p) = Plan(j)[pc[p]]
  <2>1. LauncherAt(p, j) /\ job[p] = j /\ j \in Jobs
    BY DEF Active, Doing
  <2>2. pc[p] \in 1 .. 7
    BY <2>1 DEF LauncherAt
  <2>3. Len(Plan(j)) = 6
    BY <2>1, LauncherSteps
  <2> QED BY <2>1, <2>2, <2>3 DEF Here
<1>2. j \in Jobs
  BY DEF Active
<1>3. PICK q : q = Plan(j)
  OBVIOUS
<1>4. \/ pc[p] = 1 /\ Here(p) = q[1]
      \/ pc[p] = 2 /\ Here(p) = q[2]
      \/ pc[p] = 3 /\ Here(p) = q[3]
      \/ pc[p] = 4 /\ Here(p) = q[4]
      \/ pc[p] = 5 /\ Here(p) = q[5]
      \/ pc[p] = 6 /\ Here(p) = q[6]
  BY <1>1, <1>3
<1> QED BY <1>2, <1>3, <1>4, LauncherSteps, Zenon

LEMMA RuntimePlaces ==
  ASSUME NEW p, NEW j, Active(p, j), j.kind = "runtime", pc[p] <= Len(Plan(job[p]))
  PROVE  \/ pc[p] = 1 /\ Here(p) = Step("which", {}, {})
         \/ /\ pc[p] = 2
            /\ Here(p) = Step("clean", {}, All(j, RuntimeObjects) \union {Archive(j)})
         \/ /\ pc[p] \in 3 .. n + 2 /\ pc[p] - 2 \in 1 .. n
            /\ Here(p) = Step("compile", {}, {File(j, RuntimeObjects[pc[p] - 2])})
         \/ pc[p] = n + 3 /\ Here(p) = Step("compile", All(j, RuntimeObjects), {Archive(j)})
         \/ pc[p] = n + 4 /\ Here(p) = Step("check", {Archive(j)}, {})
         \/ pc[p] = n + 5 /\ Here(p) = Step("read", {Archive(j)}, {})
<1>1. pc[p] \in 1 .. n + 5 /\ Here(p) = Plan(j)[pc[p]] /\ j \in Jobs /\ n \in Nat
  <2>1. RuntimeAt(p, j) /\ job[p] = j /\ j \in Jobs
    BY DEF Active, Doing
  <2>2. pc[p] \in 1 .. n + 6
    BY <2>1 DEF RuntimeAt
  <2>3. Len(Plan(j)) = n + 5 /\ n \in Nat
    BY <2>1, RuntimeSteps, Lengths
  <2> QED BY <2>1, <2>2, <2>3 DEF Here
<1>2. \/ pc[p] = 1
      \/ pc[p] = 2
      \/ pc[p] \in 3 .. n + 2 /\ pc[p] - 2 \in 1 .. n
      \/ pc[p] = n + 3
      \/ pc[p] = n + 4
      \/ pc[p] = n + 5
  BY <1>1
<1> QED BY <1>1, <1>2, RuntimeSteps, Zenon

LEMMA DepsPlaces ==
  ASSUME NEW p, NEW j, Active(p, j), j.kind = "deps", pc[p] <= Len(Plan(job[p]))
  PROVE  \/ pc[p] = 1 /\ Here(p) = Step("which", {}, {})
         \/ pc[p] = 2 /\ Here(p) = Step("configure", {}, {})
         \/ /\ pc[p] \in 3 .. m + 2 /\ pc[p] - 2 \in 1 .. m
            /\ Here(p) = Step("install", {}, {File(j, DepArchives[pc[p] - 2])})
         \/ pc[p] = m + 3 /\ Here(p) = Step("check", All(j, DepArchives), {})
         \/ /\ pc[p] \in m + 4 .. m + m + 3 /\ pc[p] - (m + 3) \in 1 .. m
            /\ Here(p) = Step("normalise", {}, {File(j, DepArchives[pc[p] - (m + 3)])})
         \/ /\ pc[p] \in m + m + 4 .. m + m + m + 3 /\ pc[p] - (m + m + 3) \in 1 .. m
            /\ Here(p) = Step("read", {File(j, DepArchives[pc[p] - (m + m + 3)])}, {})
<1>1. pc[p] \in 1 .. m + m + m + 3 /\ Here(p) = Plan(j)[pc[p]] /\ j \in Jobs /\ m \in Nat
  <2>1. DepsAt(p, j) /\ job[p] = j /\ j \in Jobs
    BY DEF Active, Doing
  <2>2. pc[p] \in 1 .. m + m + m + 4
    BY <2>1 DEF DepsAt
  <2>3. Len(Plan(j)) = m + m + m + 3 /\ m \in Nat
    BY <2>1, DepsSteps, Lengths
  <2> QED BY <2>1, <2>2, <2>3 DEF Here
<1>2. \/ pc[p] = 1
      \/ pc[p] = 2
      \/ pc[p] \in 3 .. m + 2 /\ pc[p] - 2 \in 1 .. m
      \/ pc[p] = m + 3
      \/ pc[p] \in m + 4 .. m + m + 3 /\ pc[p] - (m + 3) \in 1 .. m
      \/ pc[p] \in m + m + 4 .. m + m + m + 3 /\ pc[p] - (m + m + 3) \in 1 .. m
  BY <1>1, SMTT(30)
<1> QED BY <1>1, <1>2, DepsSteps, Zenon

(***************************************************************************)
(* A build writes in its own directory, and only what it is to make.       *)
(***************************************************************************)
LEMMA KindsOf == \A j \in Jobs : j.kind \in {"host", "cross", "deps", "runtime", "launcher"}
BY BuildAssumption DEF Kinds

LEMMA OutsArePaths ==
  ASSUME NEW j \in Jobs, NEW i \in DOMAIN Plan(j)
  PROVE  Plan(j)[i].out \subseteq Paths
BY DEF Paths

LEMMA OwnDirectory ==
  ASSUME NEW p, NEW j, Active(p, j), pc[p] <= Len(Plan(job[p]))
  PROVE  /\ Here(p).out \subseteq Paths
         /\ \A f \in Here(p).out : f[1] = j.dir
<1>0. j \in Jobs /\ job[p] = j
  BY DEF Active
<1>1. pc[p] \in DOMAIN Plan(j) /\ Here(p) = Plan(j)[pc[p]]
  <2>1. Doing(p, j)
    BY DEF Active
  <2>2. pc[p] <= Len(Plan(j))
    BY <1>0
  <2>3. CASE j.kind = "host"
    BY <1>0, <2>1, <2>2, <2>3, HostSteps DEF Doing, HostAt, Here
  <2>4. CASE j.kind = "cross"
    <3>1. pc[p] \in 1 .. 8
      BY <2>1, <2>4 DEF Doing, CrossAt
    <3>2. DOMAIN Plan(j) = 1 .. 7 /\ Len(Plan(j)) = 7
      BY <1>0, <2>4, CrossSteps
    <3> QED BY <1>0, <2>2, <3>1, <3>2 DEF Here
  <2>5. CASE j.kind = "runtime"
    <3>1. pc[p] \in 1 .. n + 6
      BY <2>1, <2>5 DEF Doing, RuntimeAt
    <3>2. DOMAIN Plan(j) = 1 .. n + 5 /\ Len(Plan(j)) = n + 5 /\ n \in Nat
      BY <1>0, <2>5, RuntimeSteps, Lengths
    <3> QED BY <1>0, <2>2, <3>1, <3>2 DEF Here
  <2>6. CASE j.kind = "launcher"
    <3>1. pc[p] \in 1 .. 7
      BY <2>1, <2>6 DEF Doing, LauncherAt
    <3>2. DOMAIN Plan(j) = 1 .. 6 /\ Len(Plan(j)) = 6
      BY <1>0, <2>6, LauncherSteps
    <3> QED BY <1>0, <2>2, <3>1, <3>2 DEF Here
  <2>7. CASE j.kind = "deps"
    <3>1. pc[p] \in 1 .. m + m + m + 4
      BY <2>1, <2>7 DEF Doing, DepsAt
    <3>2. DOMAIN Plan(j) = 1 .. m + m + m + 3 /\ Len(Plan(j)) = m + m + m + 3 /\ m \in Nat
      BY <1>0, <2>7, DepsSteps, Lengths
    <3> QED BY <1>0, <2>2, <3>1, <3>2 DEF Here
  <2> QED BY <1>0, <2>3, <2>4, <2>5, <2>6, <2>7, KindsOf
<1>2. Here(p).out \subseteq Paths
  BY <1>0, <1>1, OutsArePaths
<1>3. ASSUME NEW f \in Here(p).out PROVE f[1] = j.dir
  <2>1. \A x : File(j, x)[1] = j.dir
    BY DEF File
  <2>2. /\ \A g \in CFiles(j) : g[1] = j.dir
        /\ Library(j)[1] = j.dir /\ Output(j)[1] = j.dir /\ Archive(j)[1] = j.dir
        /\ Launcher(j)[1] = j.dir /\ \A g \in All(j, RuntimeObjects) : g[1] = j.dir
    BY DEF CFiles, Library, Output, Archive, Launcher, All, File
  <2>3. CASE j.kind = "host"
    BY <1>3, <2>2, <2>3, HostPlaces DEF Step
  <2>4. CASE j.kind = "cross"
    <3>1. Here(p).out = {} \/ Here(p).out = CFiles(j) \/ Here(p).out = {Output(j)}
      <4>1. \A do, in, out : Here(p) = Step(do, in, out) => Here(p).out = out
        BY DEF Step
      <4>2. PICK archives :
              \/ Here(p) = Step("verify version", {}, {})
              \/ Here(p) = Step("verify integrity", {}, {})
              \/ Here(p) = Step("generate", {}, CFiles(j))
              \/ Here(p) = Step("discover", {}, {})
              \/ Here(p) = Step("compile", archives, {Output(j)})
              \/ Here(p) = Step("check", {Output(j)}, {})
              \/ Here(p) = Step("read", {Output(j)}, {})
        BY <2>4, CrossPlaces
      <4> QED BY <4>1, <4>2, Zenon
    <3> QED BY <1>3, <2>2, <3>1
  <2>5. CASE j.kind = "runtime"
    <3>1. \/ Here(p).out \in {{}, All(j, RuntimeObjects) \union {Archive(j)}, {Archive(j)}}
          \/ \E x : Here(p).out = {File(j, x)}
      BY <2>5, RuntimePlaces DEF Step
    <3> QED BY <1>3, <2>1, <2>2, <3>1
  <2>6. CASE j.kind = "launcher"
    <3>1. Here(p).out \in {{}, {Launcher(j)}}
      BY <2>6, LauncherPlaces DEF Step
    <3> QED BY <1>3, <2>2, <3>1
  <2>7. CASE j.kind = "deps"
    <3>1. Here(p).out = {} \/ \E x : Here(p).out = {File(j, x)}
      BY <2>7, DepsPlaces DEF Step
    <3> QED BY <1>3, <2>1, <3>1
  <2> QED BY <1>0, <2>3, <2>4, <2>5, <2>6, <2>7, KindsOf
<1> QED BY <1>2, <1>3

\* The files that the invariant speaks of are paths of their build's directory.
LEMMA OwnFiles ==
  ASSUME NEW j \in Jobs
  PROVE  /\ CFiles(j) \subseteq Paths /\ Linkables(j) \subseteq Paths
         /\ \A f \in CFiles(j) \union Linkables(j) : f[1] = j.dir
         /\ j.kind = "runtime" => /\ All(j, RuntimeObjects) \subseteq Paths
                                  /\ \A f \in All(j, RuntimeObjects) : f[1] = j.dir
                                  /\ Archive(j) \notin All(j, RuntimeObjects)
<1>1. /\ \A f \in CFiles(j) : f[1] = j.dir
      /\ \A f \in Linkables(j) : f[1] = j.dir
      /\ \A f \in All(j, RuntimeObjects) : f[1] = j.dir
  BY KindsOf DEF CFiles, Linkables, Product, Library, Output, Archive, Launcher, All, File
<1>2. CASE j.kind = "host"
  <2>1. CFiles(j) \subseteq Paths /\ Library(j) \in Paths
    <3>1. Plan(j)[1].out = CFiles(j) /\ Plan(j)[2].out = {Library(j)}
      <4>1. /\ Plan(j)[1] = Step("generate", {}, CFiles(j))
            /\ Plan(j)[2] = Step("compile", CFiles(j), {Library(j)})
        BY <1>2, HostSteps
      <4> QED BY <4>1 DEF Step
    <3>2. DOMAIN Plan(j) = 1 .. 4
      BY <1>2, HostSteps, Zenon
    <3> QED BY <3>1, <3>2, OutsArePaths
  <2> QED BY <1>1, <1>2, <2>1 DEF Linkables, Product
<1>3. CASE j.kind = "cross"
  <2>1. CFiles(j) \subseteq Paths /\ Output(j) \in Paths
    <3>1. Plan(j)[3].out = CFiles(j) /\ Plan(j)[5].out = {Output(j)}
      <4>1. PICK in : /\ Plan(j)[3] = Step("generate", {}, CFiles(j))
                      /\ Plan(j)[5] = Step("compile", in, {Output(j)})
        BY <1>3, CrossSteps, Zenon
      <4> QED BY <4>1 DEF Step
    <3>2. DOMAIN Plan(j) = 1 .. 7
      BY <1>3, CrossSteps, Zenon
    <3> QED BY <3>1, <3>2, OutsArePaths
  <2> QED BY <1>1, <1>3, <2>1 DEF Linkables, Product
<1>4. CASE j.kind = "runtime"
  <2>1. All(j, RuntimeObjects) \union {Archive(j)} \subseteq Paths
    <3>1. Plan(j)[2].out = All(j, RuntimeObjects) \union {Archive(j)}
      <4>1. Plan(j)[2] = Step("clean", {}, All(j, RuntimeObjects) \union {Archive(j)})
        BY <1>4, RuntimeSteps
      <4> QED BY <4>1 DEF Step
    <3>2. DOMAIN Plan(j) = 1 .. n + 5
      BY <1>4, RuntimeSteps, Zenon
    <3> QED BY <3>1, <3>2, Lengths, OutsArePaths
  <2>2. CFiles(j) = {}
    BY <1>4 DEF CFiles
  <2>3. Archive(j) \notin All(j, RuntimeObjects)
    <3>1. \A i \in DOMAIN RuntimeObjects : RuntimeObjects[i] # "runtime"
      BY BuildAssumption
    <3>2. \A x : <<j.dir, x>> = <<j.dir, "runtime">> => x = "runtime"
      OBVIOUS
    <3> QED BY <3>1, <3>2 DEF Archive, All, File
  <2> QED BY <1>1, <1>4, <2>1, <2>2, <2>3 DEF Linkables, Product
<1>5. CASE j.kind = "launcher"
  <2>1. Launcher(j) \in Paths
    <3>1. Plan(j)[4].out = {Launcher(j)}
      <4>1. Plan(j)[4] = Step("compile", {Archive(u) : u \in j.uses}, {Launcher(j)})
        BY <1>5, LauncherSteps
      <4> QED BY <4>1 DEF Step
    <3>2. DOMAIN Plan(j) = 1 .. 6
      BY <1>5, LauncherSteps, Zenon
    <3> QED BY <3>1, <3>2, OutsArePaths
  <2>2. CFiles(j) = {}
    BY <1>5 DEF CFiles
  <2> QED BY <1>1, <1>5, <2>1, <2>2 DEF Linkables, Product
<1>6. CASE j.kind = "deps"
  <2>1. ASSUME NEW k \in 1 .. m PROVE File(j, DepArchives[k]) \in Paths
    <3>1. k + 2 \in 3 .. m + 2 /\ k + 2 \in DOMAIN Plan(j) /\ (k + 2) - 2 = k
      BY <1>6, DepsSteps, Lengths
    <3>2. Plan(j)[k + 2].out = {File(j, DepArchives[k])}
      <4>1. Plan(j)[k + 2] = Step("install", {}, {File(j, DepArchives[(k + 2) - 2])})
        BY <1>6, <3>1, DepsSteps
      <4>2. Plan(j)[k + 2] = Step("install", {}, {File(j, DepArchives[k])})
        BY <3>1, <4>1
      <4> QED BY <4>2 DEF Step
    <3> QED BY <3>1, <3>2, OutsArePaths
  <2>2. All(j, DepArchives) \subseteq Paths
    BY <2>1, Lengths DEF All
  <2>3. CFiles(j) = {}
    BY <1>6 DEF CFiles
  <2> QED BY <1>1, <1>6, <2>2, <2>3 DEF Linkables
<1> QED BY <1>2, <1>3, <1>4, <1>5, <1>6, KindsOf

(***************************************************************************)
(* What a step of one process leaves alone.                                *)
(***************************************************************************)

\* What a build has done stays done as long as its own files stay.
LEMMA Frame ==
  ASSUME NEW p \in Procs, NEW j \in Jobs, Doing(p, j),
         \A f \in Paths : f[1] = j.dir => fs'[f] = fs[f],
         tool' = tool, pc'[p] = pc[p], links'[p] = links[p], verified'[p] = verified[p],
         found'[p] = found[p], got'[p] = got[p], wrote'[p] = wrote[p]
  PROVE  Doing(p, j)'
<1>1. \A f \in CFiles(j) \union Linkables(j) : fs'[f] = fs[f]
  BY OwnFiles
<1>2. j.kind # "deps" => fs'[Product(j)] = fs[Product(j)]
  BY <1>1 DEF Linkables
<1>3. j.kind # "deps" => /\ \A t : Whole(p, j, t)' <=> Whole(p, j, t)
                         /\ \A end : GotAt(p, j, end)' <=> GotAt(p, j, end)
  BY <1>2 DEF Whole, GotAt
<1>4. Sourced(j)' <=> Sourced(j)
  BY <1>1 DEF Sourced
<1>5. CASE j.kind = "host"
  BY <1>3, <1>4, <1>5 DEF Doing, HostAt
<1>6. CASE j.kind = "cross"
  BY <1>3, <1>4, <1>6 DEF Doing, CrossAt
<1>7. CASE j.kind = "runtime"
  <2>1. fs'[Archive(j)] = fs[Archive(j)]
    BY <1>2, <1>7 DEF Product
  <2>2. \A f \in All(j, RuntimeObjects) : fs'[f] = fs[f]
    BY <1>7, OwnFiles
  <2> QED BY <1>3, <1>7, <2>1, <2>2 DEF Doing, RuntimeAt
<1>8. CASE j.kind = "launcher"
  <2>1. fs'[Launcher(j)] = fs[Launcher(j)]
    BY <1>2, <1>8 DEF Product
  <2> QED BY <1>3, <1>8, <2>1 DEF Doing, LauncherAt
<1>9. CASE j.kind = "deps"
  <2>1. \A k \in 1 .. m : fs'[File(j, DepArchives[k])] = fs[File(j, DepArchives[k])]
    BY <1>1, <1>9, Lengths DEF Linkables, All
  <2> QED BY <1>9, <2>1 DEF Doing, DepsAt
<1> QED BY <1>5, <1>6, <1>7, <1>8, <1>9, KindsOf

\* A step of process p that neither begins nor completes a build.
Works(p) ==
  /\ fs' = [f \in Paths |-> fs'[f]]
  /\ \A f \in Paths : f[1] # job[p].dir => fs'[f] = fs[f]
  /\ \A f \in Paths : fs'[f] # None => Fits(f, fs'[f])
  /\ \A w \in late' : \/ w \in late
                      \/ /\ job'[p] = None /\ w.file \in Paths
                         /\ w.file[1] = job[p].dir /\ Fits(w.file, w.node)
  /\ UNCHANGED <<tool, built>>
  /\ \/ Leave(p)
     \/ /\ UNCHANGED <<job, links>> /\ pc' = [pc EXCEPT ![p] = @ + 1]
        /\ verified' = [verified EXCEPT ![p] = verified'[p]]
        /\ found' = [found EXCEPT ![p] = found'[p]]
        /\ got' = [got EXCEPT ![p] = got'[p]]
        /\ wrote' = [wrote EXCEPT ![p] = wrote'[p]]

LEMMA WorksLocally ==
  ASSUME Records, NEW p \in Procs, ~ Idle(p), Works(p)
  PROVE  /\ Records'
         /\ job'[p] \in {None, job[p]}
         /\ job'[p] # None => links'[p] = links[p] /\ pc'[p] = pc[p] + 1
         /\ \A q \in Procs : q # p =>
              /\ job'[q] = job[q] /\ pc'[q] = pc[q] /\ links'[q] = links[q]
              /\ verified'[q] = verified[q] /\ found'[q] = found[q]
              /\ got'[q] = got[q] /\ wrote'[q] = wrote[q]
<1>0. tool' = tool /\ built' = built
  BY DEF Works
<1>1. CASE Leave(p)
  <2>1. /\ job'[p] = None
        /\ \A q \in Procs : q # p =>
             /\ job'[q] = job[q] /\ pc'[q] = pc[q] /\ links'[q] = links[q]
             /\ verified'[q] = verified[q] /\ found'[q] = found[q]
             /\ got'[q] = got[q] /\ wrote'[q] = wrote[q]
    BY <1>1 DEF Records, Leave
  <2>2. job' \in [Procs -> Jobs \union {None}] /\ pc' \in [Procs -> Nat]
    BY <1>1 DEF Records, Leave
  <2>3. /\ links' = [q \in Procs |-> links'[q]] /\ verified' = [q \in Procs |-> verified'[q]]
        /\ found' = [q \in Procs |-> found'[q]] /\ got' = [q \in Procs |-> got'[q]]
        /\ wrote' = [q \in Procs |-> wrote'[q]]
    BY <1>1 DEF Records, Leave
  <2>4. verified'[p] = FALSE /\ found'[p] = {} /\ got'[p] = {}
    BY <1>1 DEF Records, Leave
  <2> QED BY <1>0, <2>1, <2>2, <2>3, <2>4 DEF Records, Idle
<1>2. CASE /\ UNCHANGED <<job, links>> /\ pc' = [pc EXCEPT ![p] = @ + 1]
           /\ verified' = [verified EXCEPT ![p] = verified'[p]]
           /\ found' = [found EXCEPT ![p] = found'[p]]
           /\ got' = [got EXCEPT ![p] = got'[p]]
           /\ wrote' = [wrote EXCEPT ![p] = wrote'[p]]
  <2>1. /\ job' = job /\ links' = links /\ pc'[p] = pc[p] + 1 /\ pc' \in [Procs -> Nat]
        /\ \A q \in Procs : q # p => pc'[q] = pc[q]
    BY <1>2 DEF Records
  <2>2. \A q \in Procs : q # p =>
          /\ verified'[q] = verified[q] /\ found'[q] = found[q]
          /\ got'[q] = got[q] /\ wrote'[q] = wrote[q]
    BY <1>2 DEF Records
  <2>3. /\ verified' = [q \in Procs |-> verified'[q]]
        /\ found' = [q \in Procs |-> found'[q]] /\ got' = [q \in Procs |-> got'[q]]
        /\ wrote' = [q \in Procs |-> wrote'[q]]
    BY <1>2 DEF Records
  <2> QED BY <1>0, <2>1, <2>2, <2>3 DEF Records, Idle
<1> QED BY <1>1, <1>2 DEF Works

LEMMA WorkPreserves ==
  ASSUME Careful, IInv, NEW p \in Procs, ~ Idle(p), Works(p),
         \A j \in Jobs : job'[p] = j => Doing(p, j)'
  PROVE  IInv'
<1> DEFINE j == job[p]
<1>0. j \in Jobs /\ j # None
  BY DEF IInv, Records, Idle
<1>1. /\ Records'
      /\ job'[p] \in {None, j}
      /\ job'[p] # None => links'[p] = links[p] /\ pc'[p] = pc[p] + 1
      /\ \A q \in Procs : q # p =>
           /\ job'[q] = job[q] /\ pc'[q] = pc[q] /\ links'[q] = links[q]
           /\ verified'[q] = verified[q] /\ found'[q] = found[q]
           /\ got'[q] = got[q] /\ wrote'[q] = wrote[q]
  BY WorksLocally DEF IInv
<1>2. /\ tool' = tool /\ built' = built
      /\ \A f \in Paths : f[1] # j.dir => fs'[f] = fs[f]
      /\ \A w \in late' : w \in late \/ (job'[p] = None /\ w.file[1] = j.dir)
  BY DEF Works
<1>3. \A q \in Procs : job'[q] \in {None, job[q]}
  BY <1>1
<1>4. \A q \in Procs : q # p /\ job[q] # None => j.dir \notin Uses(job[q])
  BY <1>0 DEF IInv, Apart, Idle
<1>5. Disk'
  <2>1. \A w \in late' : w.file \in Paths /\ Fits(w.file, w.node)
    BY DEF IInv, Disk, Works
  <2> QED BY <2>1 DEF Disk, Works, Fits
<1>6. Apart'
  <2> SUFFICES ASSUME NEW q \in Procs, job'[q] # None
               PROVE  /\ \A r \in Procs : r # q /\ job'[r] # None => job'[r].dir \notin Uses(job'[q])
                      /\ \A w \in late' : w.file[1] \notin Uses(job'[q])
    BY DEF Apart, Idle
  <2>1. job'[q] = job[q] /\ job[q] # None
    BY <1>3
  <2>2. \A r \in Procs : r # q /\ job'[r] # None => job'[r].dir \notin Uses(job'[q])
    BY <1>3, <2>1 DEF IInv, Apart, Idle
  <2>3. \A w \in late : w.file[1] \notin Uses(job[q])
    BY <2>1 DEF IInv, Apart, Idle
  <2>4. ASSUME NEW w \in late', w \notin late PROVE w.file[1] \notin Uses(job[q])
    <3>1. q # p /\ w.file[1] = j.dir
      BY <1>2, <2>4
    <3> QED BY <1>4, <2>1, <3>1
  <2> QED BY <2>1, <2>2, <2>3, <2>4
<1>7. Linked'
  <2> SUFFICES ASSUME NEW q \in Procs, job'[q] # None
               PROVE  /\ \A u \in job'[q].uses : built'[u] # None
                      /\ links'[q] = UNION {built'[u].got : u \in job'[q].uses}
    BY DEF Linked, Idle
  <2>1. job'[q] = job[q] /\ links'[q] = links[q] /\ job[q] # None
    BY <1>1, <1>3
  <2> QED BY <1>2, <2>1 DEF IInv, Linked, Idle
<1>8. Held'
  <2> SUFFICES ASSUME NEW u \in Jobs, built'[u] # None PROVE HeldBy(u)'
    BY DEF Held
  <2>1. HeldBy(u) /\ built'[u] = built[u]
    BY <1>2 DEF IInv, Held
  <2>2. \A q \in Procs : job'[q] # u
    BY <1>3, <2>1, NoneAssumption DEF HeldBy
  <2>3. u.dir # j.dir
    BY <1>0, <2>1 DEF Careful, HeldBy
  <2>4. \A f \in Linkables(u) : fs'[f] = fs[f]
    BY <1>2, <2>3, OwnFiles
  <2>5. \A w \in late' : w.file[1] # u.dir
    BY <1>2, <2>1, <2>3 DEF HeldBy
  <2> QED BY <2>1, <2>2, <2>4, <2>5 DEF HeldBy
<1>9. Sound'
  BY <1>2 DEF IInv, Sound, ProductsAreFunctions, ManifestNamesCompiler, DepHashesReproducible
<1>10. ASSUME NEW q \in Procs, NEW k \in Jobs, job'[q] = k PROVE Doing(q, k)'
  <2>1. CASE q = p
    BY <1>10, <2>1
  <2>2. CASE q # p
    <3>1. job[q] = k /\ k # None
      BY <1>1, <1>10, <2>2, NoneAssumption
    <3>2. Doing(q, k) /\ k.dir # j.dir
      BY <1>4, <2>2, <3>1 DEF IInv, Uses
    <3>3. \A f \in Paths : f[1] = k.dir => fs'[f] = fs[f]
      BY <1>2, <3>2
    <3> QED BY <1>1, <1>2, <2>2, <3>2, <3>3, Frame
  <2> QED BY <2>1, <2>2
<1> QED BY <1>1, <1>5, <1>6, <1>7, <1>8, <1>9, <1>10 DEF IInv, Idle

(***************************************************************************)
(* Which builds take a kind of step, and when.                             *)
(***************************************************************************)
Here3(p, do, in, out) == Here(p).do = do /\ Here(p).in = in /\ Here(p).out = out

HostSpot(p, j, do) ==
  \/ pc[p] = 1 /\ do = "generate" /\ Here(p).out = CFiles(j)
  \/ pc[p] = 2 /\ do = "compile" /\ Here3(p, do, CFiles(j), {Library(j)})
  \/ pc[p] = 3 /\ do = "check" /\ Here(p).in = {Library(j)}
  \/ pc[p] = 4 /\ do = "read" /\ Here(p).in = {Library(j)}

CrossSpot(p, j, do) ==
  \/ pc[p] = 1 /\ do = "verify version"
  \/ pc[p] = 2 /\ do = "verify integrity"
  \/ pc[p] = 3 /\ do = "generate" /\ Here(p).out = CFiles(j)
  \/ pc[p] = 4 /\ do = "discover"
  \/ /\ pc[p] = 5 /\ do = "compile"
     /\ Here3(p, do, UNION {All(u, DepArchives) : u \in j.uses}, {Output(j)})
  \/ pc[p] = 6 /\ do = "check" /\ Here(p).in = {Output(j)}
  \/ pc[p] = 7 /\ do = "read" /\ Here(p).in = {Output(j)}

LauncherSpot(p, j, do) ==
  \/ pc[p] = 1 /\ do = "which"
  \/ pc[p] = 2 /\ do = "check" /\ Here(p).in = {Archive(u) : u \in j.uses}
  \/ pc[p] = 3 /\ do = "clean" /\ Here(p).out = {Launcher(j)}
  \/ /\ pc[p] = 4 /\ do = "compile"
     /\ Here3(p, do, {Archive(u) : u \in j.uses}, {Launcher(j)})
  \/ pc[p] = 5 /\ do = "check" /\ Here(p).in = {Launcher(j)}
  \/ pc[p] = 6 /\ do = "read" /\ Here(p).in = {Launcher(j)}

RuntimeSpot(p, j, do) ==
  \/ pc[p] = 1 /\ do = "which"
  \/ /\ pc[p] = 2 /\ do = "clean"
     /\ Here(p).out = All(j, RuntimeObjects) \union {Archive(j)}
  \/ /\ pc[p] \in 3 .. n + 2 /\ pc[p] - 2 \in 1 .. n /\ do = "compile"
     /\ Here3(p, do, {}, {File(j, RuntimeObjects[pc[p] - 2])})
  \/ /\ pc[p] = n + 3 /\ do = "compile"
     /\ Here3(p, do, All(j, RuntimeObjects), {Archive(j)})
  \/ pc[p] = n + 4 /\ do = "check" /\ Here(p).in = {Archive(j)}
  \/ pc[p] = n + 5 /\ do = "read" /\ Here(p).in = {Archive(j)}

DepsSpot(p, j, do) ==
  \/ pc[p] = 1 /\ do = "which"
  \/ pc[p] = 2 /\ do = "configure"
  \/ /\ pc[p] \in 3 .. m + 2 /\ pc[p] - 2 \in 1 .. m /\ do = "install"
     /\ Here3(p, do, {}, {File(j, DepArchives[pc[p] - 2])})
  \/ pc[p] = m + 3 /\ do = "check" /\ Here(p).in = All(j, DepArchives)
  \/ /\ pc[p] \in m + 4 .. m + m + 3 /\ pc[p] - (m + 3) \in 1 .. m /\ do = "normalise"
     /\ Here(p).out = {File(j, DepArchives[pc[p] - (m + 3)])}
  \/ /\ pc[p] \in m + m + 4 .. m + m + m + 3 /\ pc[p] - (m + m + 3) \in 1 .. m
     /\ do = "read" /\ Here(p).in = {File(j, DepArchives[pc[p] - (m + m + 3)])}

LEMMA HereFields ==
  ASSUME NEW p
  PROVE  \A do, in, out : Here(p) = Step(do, in, out) => Here3(p, do, in, out)
BY DEF Step, Here3

LEMMA HostDoes ==
  ASSUME NEW p, NEW j, Active(p, j), j.kind = "host", NEW do, At(p, do)
  PROVE  HostSpot(p, j, do)
<1>1. pc[p] <= Len(Plan(job[p])) /\ Here(p).do = do
  BY DEF At, Here
<1>2. \/ pc[p] = 1 /\ Here3(p, "generate", {}, CFiles(j))
      \/ pc[p] = 2 /\ Here3(p, "compile", CFiles(j), {Library(j)})
      \/ pc[p] = 3 /\ Here3(p, "check", {Library(j)}, {})
      \/ pc[p] = 4 /\ Here3(p, "read", {Library(j)}, {})
  BY <1>1, HostPlaces, HereFields, ZenonT(30)
<1> QED BY <1>1, <1>2, Zenon DEF Here3, HostSpot

LEMMA CrossDoes ==
  ASSUME NEW p, NEW j, Active(p, j), j.kind = "cross", NEW do, At(p, do)
  PROVE  CrossSpot(p, j, do)
<1>1. pc[p] <= Len(Plan(job[p])) /\ Here(p).do = do
  BY DEF At, Here
<1>2. PICK in : in = UNION {All(u, DepArchives) : u \in j.uses}
  OBVIOUS
<1>3. \/ pc[p] = 1 /\ Here(p) = Step("verify version", {}, {})
      \/ pc[p] = 2 /\ Here(p) = Step("verify integrity", {}, {})
      \/ pc[p] = 3 /\ Here(p) = Step("generate", {}, CFiles(j))
      \/ pc[p] = 4 /\ Here(p) = Step("discover", {}, {})
      \/ pc[p] = 5 /\ Here(p) = Step("compile", in, {Output(j)})
      \/ pc[p] = 6 /\ Here(p) = Step("check", {Output(j)}, {})
      \/ pc[p] = 7 /\ Here(p) = Step("read", {Output(j)}, {})
  BY <1>1, <1>2, CrossPlaces
<1>4. \/ pc[p] = 1 /\ Here3(p, "verify version", {}, {})
      \/ pc[p] = 2 /\ Here3(p, "verify integrity", {}, {})
      \/ pc[p] = 3 /\ Here3(p, "generate", {}, CFiles(j))
      \/ pc[p] = 4 /\ Here3(p, "discover", {}, {})
      \/ pc[p] = 5 /\ Here3(p, "compile", in, {Output(j)})
      \/ pc[p] = 6 /\ Here3(p, "check", {Output(j)}, {})
      \/ pc[p] = 7 /\ Here3(p, "read", {Output(j)}, {})
  BY <1>3, HereFields, Zenon
<1> QED BY <1>1, <1>2, <1>4, Zenon DEF Here3, CrossSpot

LEMMA LauncherDoes ==
  ASSUME NEW p, NEW j, Active(p, j), j.kind = "launcher", NEW do, At(p, do)
  PROVE  LauncherSpot(p, j, do)
<1>1. pc[p] <= Len(Plan(job[p])) /\ Here(p).do = do
  BY DEF At, Here
<1>2. PICK in : in = {Archive(u) : u \in j.uses}
  OBVIOUS
<1>3. \/ pc[p] = 1 /\ Here(p) = Step("which", {}, {})
      \/ pc[p] = 2 /\ Here(p) = Step("check", in, {})
      \/ pc[p] = 3 /\ Here(p) = Step("clean", {}, {Launcher(j)})
      \/ pc[p] = 4 /\ Here(p) = Step("compile", in, {Launcher(j)})
      \/ pc[p] = 5 /\ Here(p) = Step("check", {Launcher(j)}, {})
      \/ pc[p] = 6 /\ Here(p) = Step("read", {Launcher(j)}, {})
  BY <1>1, <1>2, LauncherPlaces
<1>4. \/ pc[p] = 1 /\ Here3(p, "which", {}, {})
      \/ pc[p] = 2 /\ Here3(p, "check", in, {})
      \/ pc[p] = 3 /\ Here3(p, "clean", {}, {Launcher(j)})
      \/ pc[p] = 4 /\ Here3(p, "compile", in, {Launcher(j)})
      \/ pc[p] = 5 /\ Here3(p, "check", {Launcher(j)}, {})
      \/ pc[p] = 6 /\ Here3(p, "read", {Launcher(j)}, {})
  BY <1>3, HereFields, Zenon
<1> QED BY <1>1, <1>2, <1>4, Zenon DEF Here3, LauncherSpot

LEMMA RuntimeDoes ==
  ASSUME NEW p, NEW j, Active(p, j), j.kind = "runtime", NEW do, At(p, do)
  PROVE  RuntimeSpot(p, j, do)
<1>1. pc[p] <= Len(Plan(job[p])) /\ Here(p).do = do
  BY DEF At, Here
<1>2. \/ pc[p] = 1 /\ Here(p) = Step("which", {}, {})
      \/ pc[p] = 2 /\ Here(p) = Step("clean", {}, All(j, RuntimeObjects) \union {Archive(j)})
      \/ /\ pc[p] \in 3 .. n + 2 /\ pc[p] - 2 \in 1 .. n
         /\ Here(p) = Step("compile", {}, {File(j, RuntimeObjects[pc[p] - 2])})
      \/ pc[p] = n + 3 /\ Here(p) = Step("compile", All(j, RuntimeObjects), {Archive(j)})
      \/ pc[p] = n + 4 /\ Here(p) = Step("check", {Archive(j)}, {})
      \/ pc[p] = n + 5 /\ Here(p) = Step("read", {Archive(j)}, {})
  BY <1>1, RuntimePlaces
<1>3. \/ pc[p] = 1 /\ Here3(p, "which", {}, {})
      \/ pc[p] = 2 /\ Here3(p, "clean", {}, All(j, RuntimeObjects) \union {Archive(j)})
      \/ /\ pc[p] \in 3 .. n + 2 /\ pc[p] - 2 \in 1 .. n
         /\ Here3(p, "compile", {}, {File(j, RuntimeObjects[pc[p] - 2])})
      \/ pc[p] = n + 3 /\ Here3(p, "compile", All(j, RuntimeObjects), {Archive(j)})
      \/ pc[p] = n + 4 /\ Here3(p, "check", {Archive(j)}, {})
      \/ pc[p] = n + 5 /\ Here3(p, "read", {Archive(j)}, {})
  BY <1>2, HereFields, Zenon
<1> QED BY <1>1, <1>3, Zenon DEF Here3, RuntimeSpot

LEMMA DepsDoes ==
  ASSUME NEW p, NEW j, Active(p, j), j.kind = "deps", NEW do, At(p, do)
  PROVE  DepsSpot(p, j, do)
<1>1. pc[p] <= Len(Plan(job[p])) /\ Here(p).do = do
  BY DEF At, Here
<1>2. \/ pc[p] = 1 /\ Here3(p, "which", {}, {})
      \/ pc[p] = 2 /\ Here3(p, "configure", {}, {})
      \/ /\ pc[p] \in 3 .. m + 2 /\ pc[p] - 2 \in 1 .. m
         /\ Here3(p, "install", {}, {File(j, DepArchives[pc[p] - 2])})
      \/ pc[p] = m + 3 /\ Here3(p, "check", All(j, DepArchives), {})
      \/ /\ pc[p] \in m + 4 .. m + m + 3 /\ pc[p] - (m + 3) \in 1 .. m
         /\ Here3(p, "normalise", {}, {File(j, DepArchives[pc[p] - (m + 3)])})
      \/ /\ pc[p] \in m + m + 4 .. m + m + m + 3 /\ pc[p] - (m + m + 3) \in 1 .. m
         /\ Here3(p, "read", {File(j, DepArchives[pc[p] - (m + m + 3)])}, {})
  BY <1>1, DepsPlaces, HereFields, Zenon
<1> QED BY <1>1, <1>2, Zenon DEF Here3, DepsSpot

Spot(p, j, do) ==
  /\ j.kind = "host" => HostSpot(p, j, do)
  /\ j.kind = "cross" => CrossSpot(p, j, do)
  /\ j.kind = "launcher" => LauncherSpot(p, j, do)
  /\ j.kind = "runtime" => RuntimeSpot(p, j, do)
  /\ j.kind = "deps" => DepsSpot(p, j, do)

LEMMA Spots ==
  ASSUME NEW p, NEW j, Active(p, j), NEW do, At(p, do)
  PROVE  Spot(p, j, do)
BY HostDoes, CrossDoes, LauncherDoes, RuntimeDoes, DepsDoes, Zenon DEF Spot

(***************************************************************************)
(* The steps of a build, one lemma each.                                   *)
(***************************************************************************)
LocalsMove(p) ==
  /\ verified' = [verified EXCEPT ![p] = verified'[p]]
  /\ found' = [found EXCEPT ![p] = found'[p]]
  /\ got' = [got EXCEPT ![p] = got'[p]]
  /\ wrote' = [wrote EXCEPT ![p] = wrote'[p]]

LEMMA Locals ==
  ASSUME Records, NEW p \in Procs
  PROVE  /\ UNCHANGED verified => verified' = [verified EXCEPT ![p] = verified'[p]]
         /\ UNCHANGED found => found' = [found EXCEPT ![p] = found'[p]]
         /\ UNCHANGED got => got' = [got EXCEPT ![p] = got'[p]]
         /\ UNCHANGED wrote => wrote' = [wrote EXCEPT ![p] = wrote'[p]]
         /\ \A x : /\ verified' = [verified EXCEPT ![p] = x] => verified'[p] = x
                   /\ found' = [found EXCEPT ![p] = x] => found'[p] = x
                   /\ got' = [got EXCEPT ![p] = x] => got'[p] = x
                   /\ wrote' = [wrote EXCEPT ![p] = x] => wrote'[p] = x
BY DEF Records

\* How a step that runs no compiler closes: it leaves or advances.
LEMMA Closing ==
  ASSUME Careful, IInv, NEW p \in Procs, NEW j \in Jobs, job[p] = j, tool' = tool,
         fs' = [f \in Paths |-> fs'[f]],
         \A f \in Paths : f[1] # j.dir => fs'[f] = fs[f],
         \A f \in Paths : fs'[f] # None => Fits(f, fs'[f]),
         \/ Raise(p) /\ \A w \in late' : \/ w \in late
                                         \/ w.file \in Paths /\ w.file[1] = j.dir
                                            /\ Fits(w.file, w.node)
         \/ Advance(p) /\ LocalsMove(p) /\ late' = late /\ Doing(p, j)'
  PROVE  IInv'
<1>1. ~ Idle(p)
  BY NoneAssumption DEF Idle
<1>2. CASE /\ Raise(p)
           /\ \A w \in late' : \/ w \in late
                               \/ w.file \in Paths /\ w.file[1] = j.dir /\ Fits(w.file, w.node)
  <2>1. job'[p] = None
    BY <1>2 DEF Raise, Leave, IInv, Records
  <2>2. Works(p)
    BY <1>2, <2>1 DEF Works, Raise
  <2> QED BY <1>1, <2>1, <2>2, WorkPreserves, NoneAssumption
<1>3. CASE Advance(p) /\ LocalsMove(p) /\ late' = late /\ Doing(p, j)'
  <2>1. Works(p)
    BY <1>3 DEF Works, Advance, LocalsMove
  <2>2. \A k \in Jobs : job'[p] = k => Doing(p, k)'
    BY <1>3 DEF Advance
  <2> QED BY <1>1, <2>1, <2>2, WorkPreserves
<1> QED BY <1>2, <1>3

LEMMA QuietClosing ==
  ASSUME Careful, IInv, NEW p \in Procs, NEW j \in Jobs, job[p] = j,
         UNCHANGED <<fs, tool, late>>,
         Raise(p) \/ (Advance(p) /\ LocalsMove(p) /\ Doing(p, j)')
  PROVE  IInv'
<1>1. /\ fs' = [f \in Paths |-> fs'[f]]
      /\ \A f \in Paths : fs'[f] # None => Fits(f, fs'[f])
  BY DEF IInv, Disk
<1> QED BY <1>1, Closing

LEMMA Advances ==
  ASSUME IInv, NEW p \in Procs, NEW j \in Jobs, job[p] = j, Advance(p)
  PROVE  /\ pc[p] \in Nat /\ pc'[p] = pc[p] + 1 /\ links'[p] = links[p] /\ job'[p] = j
         /\ Active(p, j)
BY DEF IInv, Records, Advance, Active

\* Reading and checking change nothing that was done.
LEMMA Persists ==
  ASSUME NEW p \in Procs, NEW j \in Jobs, fs' = fs, links'[p] = links[p], wrote'[p] = wrote[p]
  PROVE  /\ \A t : Whole(p, j, t)' <=> Whole(p, j, t)
         /\ Sourced(j)' <=> Sourced(j)
BY DEF Whole, Sourced

LEMMA Running == ASSUME IInv, NEW p \in Procs, ~ Idle(p) PROVE job[p] \in Jobs /\ Active(p, job[p])
BY DEF IInv, Records, Idle, Active

LEMMA Busies == \A p \in Procs : \A do : At(p, do) => ~ Idle(p)
BY DEF At

LEMMA WhichKeeps ==
  ASSUME Careful, IInv, NEW p \in Procs, Which(p)
  PROVE  IInv'
<1>1. PICK j \in Jobs : job[p] = j /\ Active(p, j) /\ Spot(p, j, "which")
  BY Running, Busies, Spots DEF Which
<1>2. ASSUME Advance(p), UNCHANGED <<verified, found, got, wrote>>, tool # None,
             UNCHANGED <<fs, tool, late>>
      PROVE  Doing(p, j)'
  <2>1. pc'[p] = pc[p] + 1 /\ links'[p] = links[p] /\ pc[p] \in Nat /\ Doing(p, j)
    BY <1>1, <1>2, Advances DEF Active
  <2>2. \A t : Whole(p, j, t)' <=> Whole(p, j, t)
    BY <1>2, <2>1, Persists
  <2>3. CASE j.kind = "host"
    BY <1>1, <2>3 DEF Spot, HostSpot
  <2>4. CASE j.kind = "cross"
    BY <1>1, <2>4 DEF Spot, CrossSpot
  <2>5. CASE j.kind = "launcher"
    <3>1. pc[p] = 1
      BY <1>1, <2>5 DEF Spot, LauncherSpot
    <3> QED BY <1>2, <2>1, <2>5, <3>1 DEF Doing, LauncherAt, GotAt
  <2>6. CASE j.kind = "runtime"
    <3>1. pc[p] = 1
      BY <1>1, <2>6 DEF Spot, RuntimeSpot
    <3> QED BY <1>2, <2>1, <2>6, <3>1, Lengths DEF Doing, RuntimeAt, GotAt
  <2>7. CASE j.kind = "deps"
    <3>1. pc[p] = 1
      BY <1>1, <2>7 DEF Spot, DepsSpot
    <3>2. DepsAt(p, j)
      BY <2>1, <2>7 DEF Doing
    <3>3. DepsAt(p, j)'
      BY <1>2, <2>1, <3>1, <3>2, Lengths, SMTT(30) DEF DepsAt
    <3> QED BY <2>7, <3>3 DEF Doing
  <2> QED BY <2>3, <2>4, <2>5, <2>6, <2>7, KindsOf
<1>3. Raise(p) \/ (Advance(p) /\ LocalsMove(p) /\ Doing(p, j)')
  BY <1>2, Locals DEF Which, LocalsMove, IInv
<1> QED BY <1>1, <1>3, QuietClosing DEF Which

LEMMA ConfigureKeeps ==
  ASSUME Careful, IInv, NEW p \in Procs, Configure(p)
  PROVE  IInv'
<1>1. PICK j \in Jobs : job[p] = j /\ Active(p, j) /\ Spot(p, j, "configure")
  BY Running, Busies, Spots DEF Configure
<1>2. ASSUME Advance(p), UNCHANGED <<verified, found, got, wrote>>, UNCHANGED <<fs, tool, late>>
      PROVE  Doing(p, j)'
  <2>1. pc'[p] = pc[p] + 1 /\ pc[p] \in Nat /\ Doing(p, j)
    BY <1>1, <1>2, Advances DEF Active
  <2>2. j.kind = "deps" /\ pc[p] = 2
    BY <1>1, KindsOf DEF Spot, HostSpot, CrossSpot, LauncherSpot, RuntimeSpot, DepsSpot
  <2>3. DepsAt(p, j)
    BY <2>1, <2>2 DEF Doing
  <2>4. DepsAt(p, j)'
    BY <1>2, <2>1, <2>2, <2>3, Lengths DEF DepsAt
  <2> QED BY <2>2, <2>4 DEF Doing
<1>3. Raise(p) \/ (Advance(p) /\ LocalsMove(p) /\ Doing(p, j)')
  <2>1. Raise(p) \/ (Advance(p) /\ UNCHANGED <<verified, found, got, wrote>>)
    BY DEF Configure
  <2> QED BY <1>2, <2>1, Locals DEF Configure, LocalsMove, IInv
<1> QED BY <1>1, <1>3, QuietClosing DEF Configure

LEMMA VerifyVersionKeeps ==
  ASSUME Careful, IInv, NEW p \in Procs, VerifyVersion(p)
  PROVE  IInv'
<1>1. PICK j \in Jobs : job[p] = j /\ Active(p, j) /\ Spot(p, j, "verify version")
  BY Running, Busies, Spots DEF VerifyVersion
<1>2. ASSUME Advance(p), UNCHANGED <<verified, found, got, wrote>>, tool \in Pinned,
             UNCHANGED <<fs, tool, late>>
      PROVE  Doing(p, j)'
  <2>1. pc'[p] = pc[p] + 1 /\ pc[p] \in Nat /\ Doing(p, j)
    BY <1>1, <1>2, Advances DEF Active
  <2>2. j.kind = "cross" /\ pc[p] = 1
    BY <1>1, KindsOf DEF Spot, HostSpot, CrossSpot, LauncherSpot, RuntimeSpot, DepsSpot
  <2>3. CrossAt(p, j)
    BY <2>1, <2>2 DEF Doing
  <2>4. pc'[p] = 2 /\ tool' \in Pinned /\ verified'[p] = FALSE
    BY <1>2, <2>1, <2>2, <2>3 DEF CrossAt
  <2>5. CrossAt(p, j)'
    BY <1>2, <2>2, <2>3, <2>4 DEF CrossAt, GotAt
  <2> QED BY <2>2, <2>5 DEF Doing
<1>3. Raise(p) \/ (Advance(p) /\ LocalsMove(p) /\ Doing(p, j)')
  BY <1>2, Locals DEF VerifyVersion, LocalsMove, IInv
<1> QED BY <1>1, <1>3, QuietClosing DEF VerifyVersion

LEMMA VerifyIntegrityKeeps ==
  ASSUME Careful, IInv, NEW p \in Procs, VerifyIntegrity(p)
  PROVE  IInv'
<1>1. PICK j \in Jobs : job[p] = j /\ Active(p, j) /\ Spot(p, j, "verify integrity")
  BY Running, Busies, Spots DEF VerifyIntegrity
<1>2. ASSUME Advance(p), UNCHANGED <<found, got, wrote>>, j.sha => tool = Genuine,
             verified' = [verified EXCEPT ![p] = j.sha], UNCHANGED <<fs, tool, late>>
      PROVE  Doing(p, j)'
  <2>1. pc'[p] = pc[p] + 1 /\ pc[p] \in Nat /\ Doing(p, j)
    BY <1>1, <1>2, Advances DEF Active
  <2>2. j.kind = "cross" /\ pc[p] = 2
    BY <1>1, KindsOf DEF Spot, HostSpot, CrossSpot, LauncherSpot, RuntimeSpot, DepsSpot
  <2>3. verified'[p] = j.sha
    BY <1>2, Locals DEF IInv
  <2>4. CrossAt(p, j) /\ j.sha \in BOOLEAN
    BY <2>1, <2>2, BuildAssumption DEF Doing
  <2>5. pc'[p] = 3 /\ tool' \in Pinned /\ got'[p] = {} /\ (j.sha => tool' = Genuine)
    BY <1>2, <2>1, <2>2, <2>4 DEF CrossAt, GotAt
  <2>6. CrossAt(p, j)'
    BY <2>3, <2>4, <2>5 DEF CrossAt, GotAt
  <2> QED BY <2>2, <2>6 DEF Doing
<1>3. Raise(p) \/ (Advance(p) /\ LocalsMove(p) /\ Doing(p, j)')
  <2>1. CASE job[p].sha => tool = Genuine
    <3>1. /\ Advance(p) /\ UNCHANGED <<found, got, wrote>> /\ UNCHANGED <<fs, tool, late>>
          /\ verified' = [verified EXCEPT ![p] = j.sha]
      BY <1>1, <2>1 DEF VerifyIntegrity
    <3>2. Doing(p, j)'
      BY <1>1, <1>2, <2>1, <3>1
    <3>3. LocalsMove(p)
      BY <3>1, Locals DEF LocalsMove, IInv
    <3> QED BY <3>1, <3>2, <3>3
  <2> QED BY <2>1 DEF VerifyIntegrity
<1> QED BY <1>1, <1>3, QuietClosing DEF VerifyIntegrity

LEMMA DiscoverKeeps ==
  ASSUME Careful, IInv, NEW p \in Procs, Discover(p)
  PROVE  IInv'
<1>1. PICK j \in Jobs : job[p] = j /\ Active(p, j) /\ Spot(p, j, "discover")
  BY Running, Busies, Spots DEF Discover
<1> DEFINE cs == {f \in Paths : /\ f[1] = j.dir
                                /\ \E k \in Jobs : f \in CFiles(k)
                                /\ fs[f] # None}
<1>2. j.kind = "cross" /\ pc[p] = 4 /\ CrossAt(p, j)
  BY <1>1, KindsOf DEF Spot, HostSpot, CrossSpot, LauncherSpot, RuntimeSpot, DepsSpot, Active, Doing
<1>3. cs = CFiles(j)
  <2>1. ASSUME NEW f \in cs PROVE f \in CFiles(j)
    <3>1. PICK k \in Jobs : f \in CFiles(k)
      OBVIOUS
    <3>2. k.dir = j.dir
      BY <3>1, OwnFiles
    <3> QED BY <3>1, <3>2 DEF Careful
  <2>2. ASSUME NEW f \in CFiles(j) PROVE f \in cs
    <3>1. f \in Paths /\ f[1] = j.dir
      BY OwnFiles
    <3>2. fs[f] # None
      BY <1>2, SourceAssumption DEF CrossAt, Sourced
    <3> QED BY <3>1, <3>2
  <2> QED BY <2>1, <2>2
<1> HIDE DEF cs
<1>4. ASSUME Advance(p), UNCHANGED <<verified, got, wrote>>,
             found' = [found EXCEPT ![p] = cs], UNCHANGED <<fs, tool, late>>
      PROVE  Doing(p, j)'
  <2>1. pc'[p] = pc[p] + 1 /\ pc[p] \in Nat
    BY <1>1, <1>4, Advances
  <2>2. found'[p] = CFiles(j)
    BY <1>3, <1>4, Locals DEF IInv
  <2>3. Sourced(j)'
    BY <1>2, <1>4 DEF CrossAt, Sourced
  <2>4. CrossAt(p, j)'
    BY <1>2, <1>4, <2>1, <2>2, <2>3 DEF CrossAt, GotAt
  <2> QED BY <1>2, <2>4 DEF Doing
<1>5. Raise(p) \/ (Advance(p) /\ LocalsMove(p) /\ Doing(p, j)')
  <2>1. \/ Raise(p)
        \/ /\ Advance(p) /\ UNCHANGED <<verified, got, wrote>>
           /\ found' = [found EXCEPT ![p] = cs] /\ UNCHANGED <<fs, tool, late>>
    BY <1>1 DEF Discover, cs
  <2> QED BY <1>4, <2>1, Locals DEF LocalsMove, IInv
<1> QED BY <1>1, <1>5, QuietClosing DEF Discover

LEMMA CheckKeeps ==
  ASSUME Careful, IInv, NEW p \in Procs, Check(p)
  PROVE  IInv'
<1>1. PICK j \in Jobs : job[p] = j /\ Active(p, j) /\ Spot(p, j, "check")
  BY Running, Busies, Spots DEF Check
<1>2. ASSUME Advance(p), UNCHANGED <<verified, found, got, wrote>>, Exist(Here(p).in),
             UNCHANGED <<fs, tool, late>>
      PROVE  Doing(p, j)'
  <2>1. pc'[p] = pc[p] + 1 /\ links'[p] = links[p] /\ pc[p] \in Nat /\ Doing(p, j)
    BY <1>1, <1>2, Advances DEF Active
  <2>2. \A t : Whole(p, j, t)' <=> Whole(p, j, t)
    BY <1>2, <2>1, Persists
  <2>3. CASE j.kind = "host"
    <3>1. pc[p] = 3
      BY <1>1, <2>3 DEF Spot, HostSpot
    <3> QED BY <1>2, <2>1, <2>2, <2>3, <3>1 DEF Doing, HostAt, GotAt
  <2>4. CASE j.kind = "cross"
    <3>1. pc[p] = 6
      BY <1>1, <2>4 DEF Spot, CrossSpot
    <3> QED BY <1>2, <2>1, <2>2, <2>4, <3>1 DEF Doing, CrossAt, GotAt
  <2>5. CASE j.kind = "launcher"
    <3>1. pc[p] = 2 \/ (pc[p] = 5 /\ fs[Launcher(j)] # None)
      BY <1>1, <1>2, <2>5 DEF Spot, LauncherSpot, Exist
    <3>2. LauncherAt(p, j)
      BY <2>1, <2>5 DEF Doing
    <3>3. LauncherAt(p, j)'
      BY <1>2, <2>1, <2>2, <3>1, <3>2 DEF LauncherAt, GotAt
    <3> QED BY <2>5, <3>3 DEF Doing
  <2>6. CASE j.kind = "runtime"
    <3>1. pc[p] = n + 4 /\ fs[Archive(j)] # None
      BY <1>1, <1>2, <2>6 DEF Spot, RuntimeSpot, Exist
    <3>2. RuntimeAt(p, j)
      BY <2>1, <2>6 DEF Doing
    <3>3. RuntimeAt(p, j)'
      BY <1>2, <2>1, <2>2, <3>1, <3>2, Lengths DEF RuntimeAt, GotAt
    <3> QED BY <2>6, <3>3 DEF Doing
  <2>7. CASE j.kind = "deps"
    <3>1. pc[p] = m + 3
      BY <1>1, <2>7 DEF Spot, DepsSpot
    <3>2. DepsAt(p, j)
      BY <2>1, <2>7 DEF Doing
    <3>3. DepsAt(p, j)'
      BY <1>2, <2>1, <3>1, <3>2, Lengths, SMTT(60) DEF DepsAt
    <3> QED BY <2>7, <3>3 DEF Doing
  <2> QED BY <2>3, <2>4, <2>5, <2>6, <2>7, KindsOf
<1>3. Raise(p) \/ (Advance(p) /\ LocalsMove(p) /\ Doing(p, j)')
  BY <1>2, Locals DEF Check, LocalsMove, IInv
<1> QED BY <1>1, <1>3, QuietClosing DEF Check

\* What is read is the product, or the next archive of the dependencies.
LEMMA ReadKeeps ==
  ASSUME Careful, IInv, NEW p \in Procs, Read(p)
  PROVE  IInv'
<1>1. PICK j \in Jobs : job[p] = j /\ Active(p, j) /\ Spot(p, j, "read")
  BY Running, Busies, Spots DEF Read
<1>2. ASSUME Advance(p), UNCHANGED <<verified, found, wrote>>,
             got' = [got EXCEPT ![p] = @ \union {fs[f] : f \in Here(p).in}],
             Exist(Here(p).in), UNCHANGED <<fs, tool, late>>
      PROVE  Doing(p, j)'
  <2>0. got' = [got EXCEPT ![p] = got'[p]] /\ got'[p] = got[p] \union {fs[f] : f \in Here(p).in}
    BY <1>2 DEF IInv, Records
  <2>1. pc'[p] = pc[p] + 1 /\ links'[p] = links[p] /\ pc[p] \in Nat /\ Doing(p, j)
    BY <1>1, <1>2, Advances DEF Active
  <2>2. \A t : Whole(p, j, t)' <=> Whole(p, j, t)
    BY <1>2, <2>1, Persists
  <2>3. CASE j.kind = "host"
    <3>1. pc[p] = 4 /\ Here(p).in = {Product(j)} /\ HostAt(p, j)
      BY <1>1, <2>1, <2>3 DEF Spot, HostSpot, Product, Doing
    <3>2. got'[p] = {fs[Product(j)]}
      BY <2>0, <3>1 DEF HostAt, GotAt
    <3>3. HostAt(p, j)'
      BY <1>2, <2>1, <2>2, <3>1, <3>2 DEF HostAt, GotAt
    <3> QED BY <2>3, <3>3 DEF Doing
  <2>4. CASE j.kind = "cross"
    <3>1. pc[p] = 7 /\ Here(p).in = {Product(j)} /\ CrossAt(p, j)
      BY <1>1, <2>1, <2>4 DEF Spot, CrossSpot, Product, Doing
    <3>2. got'[p] = {fs[Product(j)]}
      BY <2>0, <3>1 DEF CrossAt, GotAt
    <3>3. CrossAt(p, j)'
      BY <1>2, <2>1, <2>2, <3>1, <3>2 DEF CrossAt, GotAt
    <3> QED BY <2>4, <3>3 DEF Doing
  <2>5. CASE j.kind = "launcher"
    <3>1. pc[p] = 6 /\ Here(p).in = {Product(j)} /\ LauncherAt(p, j)
      BY <1>1, <2>1, <2>5 DEF Spot, LauncherSpot, Product, Doing
    <3>2. got'[p] = {fs[Product(j)]}
      BY <2>0, <3>1 DEF LauncherAt, GotAt
    <3>3. LauncherAt(p, j)'
      BY <1>2, <2>1, <2>2, <3>1, <3>2 DEF LauncherAt, GotAt
    <3> QED BY <2>5, <3>3 DEF Doing
  <2>6. CASE j.kind = "runtime"
    <3>1. pc[p] = n + 5 /\ Here(p).in = {Product(j)} /\ RuntimeAt(p, j)
      BY <1>1, <2>1, <2>6 DEF Spot, RuntimeSpot, Product, Doing
    <3>2. got'[p] = {fs[Product(j)]}
      BY <2>0, <3>1, Lengths DEF RuntimeAt, GotAt
    <3>3. RuntimeAt(p, j)'
      BY <1>2, <2>1, <2>2, <3>1, <3>2, Lengths DEF RuntimeAt, GotAt
    <3> QED BY <2>6, <3>3 DEF Doing
  <2>7. CASE j.kind = "deps"
    <3> DEFINE A(k) == File(j, DepArchives[k])
               z == pc[p] - (m + m + 3)
    <3>1. /\ pc[p] \in m + m + 4 .. m + m + m + 3 /\ z \in 1 .. m
          /\ Here(p).in = {A(z)} /\ fs[A(z)] # None
      BY <1>1, <1>2, <2>7 DEF Spot, DepsSpot, Exist
    <3>2. DepsAt(p, j)
      BY <2>1, <2>7 DEF Doing
    <3>3. got'[p] = {fs[A(k)] : k \in {k \in 1 .. m : pc'[p] > k + m + m + 3}}
      <4>1. got'[p] = got[p] \union {fs[A(z)]}
        BY <2>0, <3>1
      <4>2. \A k \in 1 .. m : pc'[p] > k + m + m + 3 <=> pc[p] > k + m + m + 3 \/ k = z
        BY <2>1, <3>1, Lengths
      <4>3. got[p] = {fs[A(k)] : k \in {k \in 1 .. m : pc[p] > k + m + m + 3}}
        BY <3>2 DEF DepsAt
      <4> HIDE DEF A, z
      <4> QED BY <3>1, <4>1, <4>2, <4>3
    <3>4. DepsAt(p, j)'
      <4>1. pc'[p] \in 1 .. m + m + m + 4
        BY <2>1, <3>1, Lengths
      <4>2. \A k \in 1 .. m : /\ pc'[p] > k + m + 3 => pc[p] > k + m + 3
                              /\ pc'[p] > k + m + m + 3 => pc[p] > k + m + m + 3 \/ k = z
        BY <2>1, <3>1, Lengths
      <4> QED BY <3>1, <1>2, <3>2, <3>3, <4>1, <4>2 DEF DepsAt
    <3> QED BY <2>7, <3>4 DEF Doing
  <2> QED BY <2>3, <2>4, <2>5, <2>6, <2>7, KindsOf
<1>3. Raise(p) \/ (Advance(p) /\ LocalsMove(p) /\ Doing(p, j)')
  <2>1. CASE /\ Advance(p) /\ UNCHANGED <<verified, found, wrote>>
             /\ got' = [got EXCEPT ![p] = @ \union {fs[f] : f \in Here(p).in}]
             /\ Exist(Here(p).in)
    <3>1. got' = [got EXCEPT ![p] = got'[p]]
      BY <2>1 DEF IInv, Records
    <3>2. LocalsMove(p)
      BY <2>1, <3>1, Locals DEF LocalsMove, IInv
    <3>3. Doing(p, j)'
      BY <1>2, <2>1 DEF Read
    <3> QED BY <2>1, <3>2, <3>3
  <2> QED BY <2>1 DEF Read
<1> QED BY <1>1, <1>3, QuietClosing DEF Read

\* Nodes that a build makes fit where it puts them.
LEMMA NodesFit ==
  ASSUME Careful, NEW j \in Jobs, NEW f, f[1] = j.dir, NEW by, NEW of
  PROVE  Fits(f, Node(j, f[2], by, of))
<1>1. \A k \in Jobs : k.dir = f[1] => k = j
  BY DEF Careful
<1>2. IsNode(Node(j, f[2], by, of)) /\ Node(j, f[2], by, of).name = <<j.what, f[2]>>
  BY DEF IsNode, Node
<1> QED BY <1>1, <1>2 DEF Fits

LEMMA Restamps ==
  ASSUME NEW x, IsNode(x), NEW b
  PROVE  /\ [x EXCEPT !.stamp = b] = [name |-> x.name, by |-> x.by, stamp |-> b, of |-> x.of]
         /\ x.stamp = b => [x EXCEPT !.stamp = b] = x
<1>1. x = [name |-> x.name, by |-> x.by, stamp |-> x.stamp, of |-> x.of]
  BY DEF IsNode
<1>2. [x EXCEPT !.stamp = b] = [name |-> x.name, by |-> x.by, stamp |-> b, of |-> x.of]
  BY <1>1
<1> QED BY <1>1, <1>2

LEMMA StampsFit ==
  ASSUME NEW f, NEW x, Fits(f, x), NEW b
  PROVE  /\ Fits(f, [x EXCEPT !.stamp = b])
         /\ [x EXCEPT !.stamp = b].stamp = b
         /\ x.stamp = b => [x EXCEPT !.stamp = b] = x
<1>1. /\ [x EXCEPT !.stamp = b] = [name |-> x.name, by |-> x.by, stamp |-> b, of |-> x.of]
      /\ x.stamp = b => [x EXCEPT !.stamp = b] = x
  BY Restamps DEF Fits
<1> QED BY <1>1 DEF Fits, IsNode

LEMMA GenerateKeeps ==
  ASSUME Careful, IInv, NEW p \in Procs, Generate(p)
  PROVE  IInv'
<1>1. PICK j \in Jobs : job[p] = j /\ Active(p, j) /\ Spot(p, j, "generate")
  BY Running, Busies, Spots DEF Generate
<1>2. /\ Here(p).out = CFiles(j)
      /\ \/ j.kind = "host" /\ pc[p] = 1 /\ HostAt(p, j)
         \/ j.kind = "cross" /\ pc[p] = 3 /\ CrossAt(p, j)
  BY <1>1, KindsOf
     DEF Spot, HostSpot, CrossSpot, LauncherSpot, RuntimeSpot, DepsSpot, Active, Doing
<1>3. PICK files \in SUBSET CFiles(j) :
        /\ fs' = [f \in Paths |-> IF f \in files THEN Source(j, f) ELSE fs[f]]
        /\ \/ /\ files = CFiles(j)
              /\ wrote' = [wrote EXCEPT ![p] = @ \union files]
              /\ Advance(p) /\ UNCHANGED <<verified, found, got>>
           \/ Raise(p)
        /\ UNCHANGED <<tool, late>>
  BY <1>1, <1>2 DEF Generate
<1>4. /\ fs' = [f \in Paths |-> fs'[f]]
      /\ \A f \in Paths : f[1] # j.dir => fs'[f] = fs[f]
      /\ \A f \in Paths : fs'[f] # None => Fits(f, fs'[f])
  <2>1. ASSUME NEW f \in files PROVE f[1] = j.dir /\ Fits(f, Source(j, f))
    <3>1. f[1] = j.dir
      BY OwnFiles
    <3> QED BY <3>1, NodesFit DEF Source
  <2> QED BY <1>3, <2>1 DEF IInv, Disk
<1>5. CASE files = CFiles(j) /\ Advance(p) /\ UNCHANGED <<verified, found, got>>
           /\ wrote' = [wrote EXCEPT ![p] = @ \union files]
  <2>1. pc'[p] = pc[p] + 1
    BY <1>1, <1>5, Advances
  <2>2. Sourced(j)'
    BY <1>3, <1>5, OwnFiles DEF Sourced
  <2>5. Doing(p, j)'
    <3>1. CASE j.kind = "host"
      <4>1. HostAt(p, j)'
        BY <1>2, <1>5, <2>1, <2>2, <3>1 DEF HostAt, GotAt
      <4> QED BY <3>1, <4>1 DEF Doing
    <3>2. CASE j.kind = "cross"
      <4>1. CrossAt(p, j) /\ pc[p] = 3
        BY <1>2, <3>2
      <4>2. CrossAt(p, j)'
        BY <1>3, <1>5, <2>1, <2>2, <4>1 DEF CrossAt, GotAt
      <4> QED BY <3>2, <4>2 DEF Doing
    <3> QED BY <1>2, <3>1, <3>2
  <2>6. LocalsMove(p)
    BY <1>5, Locals DEF LocalsMove, IInv, Records
  <2> QED BY <1>1, <1>3, <1>4, <1>5, <2>5, <2>6, Closing
<1>6. CASE Raise(p)
  BY <1>1, <1>3, <1>4, <1>6, Closing
<1> QED BY <1>3, <1>5, <1>6

LEMMA CleanKeeps ==
  ASSUME Careful, IInv, NEW p \in Procs, Clean(p)
  PROVE  IInv'
<1>1. PICK j \in Jobs : job[p] = j /\ Active(p, j) /\ Spot(p, j, "clean")
  BY Running, Busies, Spots DEF Clean
<1>2. /\ Advance(p) /\ UNCHANGED <<tool, late, verified, found, got, wrote>>
      /\ fs' = [f \in Paths |-> IF f \in Here(p).out THEN None ELSE fs[f]]
  BY DEF Clean
<1>3. \A f \in Here(p).out : f \in Paths /\ f[1] = j.dir
  BY <1>1, OwnDirectory DEF Clean, At
<1>4. /\ fs' = [f \in Paths |-> fs'[f]]
      /\ \A f \in Paths : f[1] # j.dir => fs'[f] = fs[f]
      /\ \A f \in Paths : fs'[f] # None => Fits(f, fs'[f])
  BY <1>2, <1>3 DEF IInv, Disk
<1>5. pc'[p] = pc[p] + 1 /\ pc[p] \in Nat /\ \A f \in Here(p).out : fs'[f] = None
  BY <1>1, <1>2, <1>3, Advances
<1>6. Doing(p, j)'
  <2>1. \/ j.kind = "launcher" /\ LauncherAt(p, j) /\ pc[p] = 3 /\ Here(p).out = {Launcher(j)}
        \/ /\ j.kind = "runtime" /\ RuntimeAt(p, j) /\ pc[p] = 2
           /\ Here(p).out = All(j, RuntimeObjects) \union {Archive(j)}
    BY <1>1, KindsOf
       DEF Spot, HostSpot, CrossSpot, LauncherSpot, RuntimeSpot, DepsSpot, Active, Doing
  <2>2. CASE j.kind = "launcher"
    <3>1. LauncherAt(p, j) /\ pc[p] = 3 /\ fs'[Launcher(j)] = None
      BY <1>5, <2>1, <2>2
    <3>2. LauncherAt(p, j)'
      BY <1>2, <1>5, <3>1 DEF LauncherAt, GotAt
    <3> QED BY <2>2, <3>2 DEF Doing
  <2>3. CASE j.kind = "runtime"
    <3>1. /\ RuntimeAt(p, j) /\ pc[p] = 2 /\ fs'[Archive(j)] = None
          /\ \A f \in All(j, RuntimeObjects) : fs'[f] = None
      BY <1>5, <2>1, <2>3
    <3>2. /\ pc'[p] = 3 /\ 3 \in 1 .. n + 6 /\ 3 # n + 6 /\ 2 # n + 6 /\ ~ 3 > n + 4
      BY <1>5, <3>1, Lengths
    <3>3. found'[p] = {} /\ got'[p] = {} /\ tool' # None
      BY <1>2, <3>1, <3>2 DEF RuntimeAt, GotAt
    <3>4. RuntimeAt(p, j)'
      BY <3>1, <3>2, <3>3 DEF RuntimeAt, GotAt
    <3> QED BY <2>3, <3>4 DEF Doing
  <2> QED BY <2>1, <2>2, <2>3
<1>7. LocalsMove(p)
  BY <1>2, Locals DEF LocalsMove, IInv
<1> QED BY <1>1, <1>2, <1>4, <1>6, <1>7, Closing

LEMMA NormaliseKeeps ==
  ASSUME Careful, IInv, NEW p \in Procs, Normalise(p)
  PROVE  IInv'
<1>1. PICK j \in Jobs : job[p] = j /\ Active(p, j) /\ Spot(p, j, "normalise")
  BY Running, Busies, Spots DEF Normalise
<1>2. CASE Raise(p) /\ UNCHANGED <<fs, tool, late>>
  BY <1>1, <1>2, QuietClosing
<1>3. CASE /\ Exist(Here(p).out)
           /\ fs' = [f \in Paths |-> IF f \in Here(p).out THEN [fs[f] EXCEPT !.stamp = FALSE]
                                                         ELSE fs[f]]
           /\ wrote' = [wrote EXCEPT ![p] = @ \union Here(p).out]
           /\ Advance(p) /\ UNCHANGED <<verified, found, got, tool, late>>
  <2> DEFINE A(k) == File(j, DepArchives[k])
             z == pc[p] - (m + 3)
  <2>1. /\ j.kind = "deps" /\ pc[p] \in m + 4 .. m + m + 3 /\ z \in 1 .. m
        /\ Here(p).out = {A(z)}
    BY <1>1, KindsOf DEF Spot, HostSpot, CrossSpot, LauncherSpot, RuntimeSpot, DepsSpot
  <2>2. A(z) \in Paths /\ A(z)[1] = j.dir /\ fs[A(z)] # None
    BY <1>1, <1>3, <2>1, OwnDirectory DEF Normalise, At, Exist
  <2>3. Fits(A(z), fs[A(z)])
    BY <2>2 DEF IInv, Disk
  <2>4. /\ fs'[A(z)].stamp = FALSE /\ Fits(A(z), fs'[A(z)])
        /\ \A f \in Paths : f # A(z) => fs'[f] = fs[f]
    <3>1. fs'[A(z)] = [fs[A(z)] EXCEPT !.stamp = FALSE]
      BY <1>3, <2>1, <2>2
    <3> HIDE DEF A, z
    <3>2. fs'[A(z)].stamp = FALSE /\ Fits(A(z), fs'[A(z)])
      BY <2>3, <3>1, StampsFit
    <3> QED BY <1>3, <2>1, <3>2
  <2>5. /\ fs' = [f \in Paths |-> fs'[f]]
        /\ \A f \in Paths : f[1] # j.dir => fs'[f] = fs[f]
        /\ \A f \in Paths : fs'[f] # None => Fits(f, fs'[f])
    <3>1. fs' = [f \in Paths |-> fs'[f]]
      BY <1>3
    <3> HIDE DEF A, z
    <3> QED BY <2>2, <2>4, <3>1 DEF IInv, Disk
  <2>6. DepsAt(p, j)
    BY <1>1, <2>1 DEF Active, Doing
  <2>7. pc'[p] = pc[p] + 1
    BY <1>1, <1>3, Advances
  <2>8. DepsAt(p, j)'
    <3>1. pc'[p] \in 1 .. m + m + m + 4
      BY <2>1, <2>7, Lengths
    <3>2. \A k \in 1 .. m : /\ ~ pc'[p] > k + m + m + 3 /\ ~ pc[p] > k + m + m + 3
                            /\ pc'[p] > k + m + 3 => pc[p] > k + m + 3 \/ k = z
      BY <2>1, <2>7, Lengths
    <3>3. \A k \in 1 .. m : A(k) \in Paths
      BY <2>1, OwnFiles, Lengths DEF Linkables, All
    <3>4. \A k \in 1 .. m : pc'[p] > k + m + 3 => fs'[A(k)].stamp = FALSE
      <4> TAKE k \in 1 .. m
      <4>1. CASE A(k) = A(z)
        BY <2>4, <4>1
      <4>2. CASE A(k) # A(z)
        BY <2>4, <2>6, <3>2, <3>3, <4>2 DEF DepsAt
      <4> QED BY <4>1, <4>2
    <3>5. got'[p] = {} /\ found'[p] = {}
      BY <1>3, <2>6, <3>2 DEF DepsAt
    <3> QED BY <3>1, <3>2, <3>4, <3>5 DEF DepsAt
  <2>9. Doing(p, j)'
    BY <2>1, <2>8 DEF Doing
  <2>10. LocalsMove(p)
    BY <1>3, Locals DEF LocalsMove, IInv, Records
  <2> QED BY <1>1, <1>3, <2>5, <2>9, <2>10, Closing
<1> QED BY <1>2, <1>3 DEF Normalise

(***************************************************************************)
(* Compilers. What goes in is what the caller holds the hashes of, and the *)
(* build's own sources; the linker drops the time stamps of archives.      *)
(***************************************************************************)
Destamped(files) == {[fs[i] EXCEPT !.stamp = FALSE] : i \in files}

LEMMA DestampSame ==
  ASSUME NEW files, \A f \in files : [fs[f] EXCEPT !.stamp = FALSE] = fs[f]
  PROVE  Destamped(files) = {fs[f] : f \in files}
BY Zenon DEF Destamped

LEMMA Links ==
  ASSUME IInv, NEW p \in Procs, NEW j \in Jobs, job[p] = j, j # None,
         Exist(UNION {Linkables(u) : u \in j.uses})
  PROVE  Destamped(UNION {Linkables(u) : u \in j.uses}) = links[p]
<1>1. links[p] = UNION {built[u].got : u \in j.uses}
  BY DEF IInv, Linked, Idle
<1>2. ASSUME NEW u \in j.uses
      PROVE  /\ built[u].got = {fs[f] : f \in Linkables(u)}
             /\ \A f \in Linkables(u) : [fs[f] EXCEPT !.stamp = FALSE] = fs[f]
  <2>1. u \in Jobs /\ u.kind \in {"deps", "runtime"} /\ built[u] # None
    BY JobUses DEF IInv, Linked, Idle
  <2>2. HeldBy(u)
    BY <2>1 DEF IInv, Held
  <2>3. ASSUME NEW f \in Linkables(u) PROVE [fs[f] EXCEPT !.stamp = FALSE] = fs[f]
    <3>1. f \in Paths /\ fs[f] # None /\ fs[f].stamp = FALSE
      BY <2>1, <2>2, OwnFiles DEF HeldBy, Exist
    <3>2. Fits(f, fs[f])
      BY <3>1 DEF IInv, Disk
    <3> QED BY <3>1, <3>2, StampsFit
  <2> QED BY <2>2, <2>3 DEF HeldBy
<1>3. Destamped(UNION {Linkables(u) : u \in j.uses}) = UNION {built[u].got : u \in j.uses}
  <2>1. ASSUME NEW u \in j.uses PROVE Destamped(Linkables(u)) = built[u].got
    <3>1. Destamped(Linkables(u)) = {fs[f] : f \in Linkables(u)}
      BY <1>2, DestampSame
    <3> QED BY <1>2, <3>1, Zenon
  <2>2. Destamped(UNION {Linkables(u) : u \in j.uses})
          = UNION {Destamped(Linkables(u)) : u \in j.uses}
    BY DEF Destamped
  <2> QED BY <2>1, <2>2
<1> QED BY <1>1, <1>3

LEMMA NoLinks ==
  ASSUME IInv, NEW p \in Procs, NEW j \in Jobs, job[p] = j, j # None,
         j.kind \notin {"cross", "launcher"}
  PROVE  links[p] = {}
<1>1. j.uses = {}
  BY JobUses
<1>2. links[p] = UNION {built[u].got : u \in j.uses}
  BY DEF IInv, Linked, Idle
<1> QED BY <1>1, <1>2

LEMMA OwnSources ==
  ASSUME NEW j \in Jobs, Sourced(j)
  PROVE  Destamped(CFiles(j)) = {Source(j, c) : c \in CFiles(j)}
<1>1. ASSUME NEW c PROVE [Source(j, c) EXCEPT !.stamp = FALSE] = Source(j, c)
  <2>1. PICK x : x = Source(j, c)
    OBVIOUS
  <2>2. x = [name |-> <<j.what, c[2]>>, by |-> None, stamp |-> FALSE, of |-> {}]
    BY <2>1 DEF Source, Node
  <2>3. IsNode(x) /\ x.stamp = FALSE
    BY <2>2 DEF IsNode
  <2>4. [x EXCEPT !.stamp = FALSE] = x
    BY <2>3, Restamps
  <2> QED BY <2>1, <2>4, Zenon
<1>2. \A c \in CFiles(j) : fs[c] = Source(j, c)
  BY DEF Sourced
<1>3. Destamped(CFiles(j)) = {fs[c] : c \in CFiles(j)}
  BY <1>1, <1>2, DestampSame
<1> QED BY <1>2, <1>3

\* What a command makes, by the build's name and the files that went in.
Compiled(p, j, f) == Node(j, f[2], CC(p), Destamped(Here(p).in) \union Destamped(found[p]))

LEMMA Results ==
  ASSUME NEW p, NEW j, job[p] = j, NEW f
  PROVE  Result(p, f) = IF Here(p).do = "install" THEN [Compiled(p, j, f) EXCEPT !.stamp = TRUE]
                                                 ELSE Compiled(p, j, f)
<1>1. PICK by, a, b : by = CC(p) /\ a = Here(p).in /\ b = found[p]
  OBVIOUS
<1>2. Destamped(a \union b) = Destamped(a) \union Destamped(b)
  BY DEF Destamped
<1>3. Made(j, f, by, a \union b) = Node(j, f[2], by, Destamped(a \union b))
  BY DEF Made, Destamped
<1>4. Made(job[p], f, CC(p), Here(p).in \union found[p]) = Compiled(p, j, f)
  BY <1>1, <1>2, <1>3 DEF Compiled
<1> QED BY <1>4 DEF Result

\* What a command can do to the disk, whatever it is.
CommandDone(p, j, f) ==
  /\ CC(p) # None /\ Exist(Here(p).in \union found[p])
  /\ \/ fs' = [fs EXCEPT ![f] = Result(p, f)]
     \/ Here(p).do = "install" /\ fs[f] # None /\ fs' = [fs EXCEPT ![f].stamp = TRUE]
  /\ wrote' = [wrote EXCEPT ![p] = @ \union {f}]
  /\ UNCHANGED <<late, verified, found, got>>

CommandSilent(p, j) ==
  /\ CC(p) # None /\ Exist(Here(p).in \union found[p]) /\ j.kind \in Silent
  /\ UNCHANGED <<fs, late, verified, found, got, wrote>>

LEMMA ResultFits ==
  ASSUME Careful, NEW p, NEW j \in Jobs, job[p] = j, NEW f, f[1] = j.dir
  PROVE  Fits(f, Result(p, f))
<1>1. Fits(f, Compiled(p, j, f))
  BY NodesFit DEF Compiled
<1>2. Fits(f, [Compiled(p, j, f) EXCEPT !.stamp = TRUE])
  BY <1>1, StampsFit
<1> QED BY <1>1, <1>2, Results

LEMMA CommandCloses ==
  ASSUME Careful, IInv, NEW p \in Procs, NEW j \in Jobs, job[p] = j, Command(p),
         NEW f \in Paths, f[1] = j.dir, Here(p).out = {f},
         CommandDone(p, j, f) /\ Advance(p) => Doing(p, j)',
         CommandSilent(p, j) /\ Advance(p) => Doing(p, j)'
  PROVE  IInv'
<1>1. (CHOOSE g \in Here(p).out : TRUE) = f
  OBVIOUS
<1>2. /\ tool' = tool
      /\ \/ CommandDone(p, j, f) /\ Advance(p)
         \/ CommandSilent(p, j) /\ Advance(p)
         \/ fs' \in {fs, [fs EXCEPT ![f] = None]} /\ Raise(p) /\ UNCHANGED late
         \/ /\ late' = late \union {[file |-> f, node |-> Result(p, f)]}
            /\ Raise(p) /\ UNCHANGED fs
  BY <1>1 DEF Command, CommandDone, CommandSilent
<1>3. Fits(f, Result(p, f))
  BY ResultFits
<1>4. fs = [g \in Paths |-> fs[g]] /\ \A g \in Paths : fs[g] # None => Fits(g, fs[g])
  BY DEF IInv, Disk
<1>5. CASE CommandDone(p, j, f) /\ Advance(p)
  <2>1. LocalsMove(p)
    BY <1>5, Locals DEF CommandDone, LocalsMove, IInv, Records
  <2>2. /\ fs' = [g \in Paths |-> fs'[g]] /\ \A g \in Paths : g # f => fs'[g] = fs[g]
        /\ fs'[f] # None => Fits(f, fs'[f])
    <3>1. CASE fs' = [fs EXCEPT ![f] = Result(p, f)]
      BY <1>3, <1>4, <3>1
    <3>2. CASE fs[f] # None /\ fs' = [fs EXCEPT ![f].stamp = TRUE]
      <4>1. fs'[f] = [fs[f] EXCEPT !.stamp = TRUE] /\ Fits(f, fs[f])
        BY <1>4, <3>2
      <4>2. Fits(f, fs'[f])
        BY <4>1, StampsFit
      <4> QED BY <1>4, <3>2, <4>2
    <3> QED BY <1>5, <3>1, <3>2 DEF CommandDone
  <2>3. /\ \A g \in Paths : g[1] # j.dir => fs'[g] = fs[g]
        /\ \A g \in Paths : fs'[g] # None => Fits(g, fs'[g])
    BY <1>4, <2>2
  <2> QED BY <1>2, <1>5, <2>1, <2>2, <2>3, Closing DEF CommandDone
<1>6. CASE CommandSilent(p, j) /\ Advance(p)
  <2>1. LocalsMove(p)
    BY <1>6, Locals DEF CommandSilent, LocalsMove, IInv
  <2> QED BY <1>2, <1>6, <2>1, QuietClosing DEF CommandSilent
<1>7. CASE fs' \in {fs, [fs EXCEPT ![f] = None]} /\ Raise(p) /\ UNCHANGED late
  <2>1. /\ fs' = [g \in Paths |-> fs'[g]]
        /\ \A g \in Paths : g[1] # j.dir => fs'[g] = fs[g]
        /\ \A g \in Paths : fs'[g] # None => Fits(g, fs'[g])
    BY <1>4, <1>7
  <2> QED BY <1>2, <1>7, <2>1, Closing
<1>8. CASE late' = late \union {[file |-> f, node |-> Result(p, f)]} /\ Raise(p) /\ UNCHANGED fs
  <2>1. \A w \in late' : w \in late \/ (w.file \in Paths /\ w.file[1] = j.dir /\ Fits(w.file, w.node))
    BY <1>3, <1>8
  <2> QED BY <1>2, <1>4, <1>8, <2>1, Closing
<1> QED BY <1>2, <1>5, <1>6, <1>7, <1>8

\* A command of a solver build that succeeds has made the whole product.
LEMMA CompilesHost ==
  ASSUME Careful, IInv, NEW p \in Procs, NEW j \in Jobs, j # None, Active(p, j),
         j.kind = "host", Spot(p, j, "compile"), Command(p)
  PROVE  IInv'
<1> DEFINE f == Library(j)
<1>1. /\ pc[p] = 2 /\ Here(p).do = "compile" /\ Here(p).in = CFiles(j) /\ Here(p).out = {f}
      /\ HostAt(p, j) /\ job[p] = j
  BY DEF Spot, HostSpot, Here3, Active, Doing
<1>2. f \in Paths /\ f[1] = j.dir /\ Product(j) = f
  BY OwnFiles DEF Linkables, Product
<1> HIDE DEF f
<1>3. Result(p, f) = Pure(j, HostCC, links[p])
  <2>1. /\ CC(p) = HostCC /\ found[p] = {} /\ Sourced(j)
    BY <1>1 DEF CC, HostAt
  <2>2. Destamped(Here(p).in) = {Source(j, c) : c \in CFiles(j)} /\ Destamped(found[p]) = {}
    BY <1>1, <2>1, OwnSources DEF Destamped
  <2>3. links[p] = {}
    BY <1>1, NoLinks
  <2>4. Compiled(p, j, f) = Node(j, f[2], HostCC, {Source(j, c) : c \in CFiles(j)})
    BY <2>1, <2>2 DEF Compiled
  <2>5. Pure(j, HostCC, links[p]) = Node(j, f[2], HostCC, {Source(j, c) : c \in CFiles(j)})
    BY <1>2, <2>3 DEF Pure
  <2> QED BY <1>1, <2>4, <2>5, Results
<1>4. CommandDone(p, j, f) /\ Advance(p) => Doing(p, j)'
  <2> SUFFICES ASSUME CommandDone(p, j, f), Advance(p) PROVE HostAt(p, j)'
    BY DEF Doing
  <2>1. fs'[f] = Result(p, f) /\ f \in wrote'[p]
    BY <1>1, <1>2 DEF CommandDone, IInv, Disk, Records
  <2>2. pc'[p] = 3 /\ links'[p] = links[p] /\ found'[p] = {} /\ got'[p] = {}
    BY <1>1, Advances DEF CommandDone, HostAt, GotAt
  <2>3. Whole(p, j, HostCC)'
    BY <1>2, <1>3, <2>1, <2>2 DEF Whole
  <2> QED BY <2>2, <2>3 DEF HostAt, GotAt
<1>5. ~ CommandSilent(p, j)
  BY DEF CommandSilent, Careful
<1> QED BY <1>1, <1>2, <1>4, <1>5, CommandCloses

LEMMA CompilesCross ==
  ASSUME Careful, IInv, NEW p \in Procs, NEW j \in Jobs, j # None, Active(p, j),
         j.kind = "cross", Spot(p, j, "compile"), Command(p)
  PROVE  IInv'
<1> DEFINE f == Output(j)
           libs == UNION {Linkables(u) : u \in j.uses}
<1>1. /\ pc[p] = 5 /\ Here(p).do = "compile" /\ Here(p).out = {f}
      /\ Here(p).in = UNION {All(u, DepArchives) : u \in j.uses}
      /\ CrossAt(p, j) /\ job[p] = j
  BY DEF Spot, CrossSpot, Here3, Active, Doing
<1>2. f \in Paths /\ f[1] = j.dir /\ Product(j) = f
  BY OwnFiles DEF Linkables, Product
<1>3. Here(p).in = libs
  <2>1. \A u \in j.uses : Linkables(u) = All(u, DepArchives)
    BY JobUses DEF Linkables
  <2> QED BY <1>1, <2>1
<1> HIDE DEF f, libs
<1>4. Exist(Here(p).in \union found[p]) => Result(p, f) = Pure(j, tool, links[p])
  <2> SUFFICES ASSUME Exist(Here(p).in \union found[p])
               PROVE  Result(p, f) = Pure(j, tool, links[p])
    OBVIOUS
  <2>1. CC(p) = tool /\ found[p] = CFiles(j) /\ Sourced(j)
    BY <1>1 DEF CC, CrossAt
  <2>2. Destamped(libs) = links[p]
    <3>1. Exist(libs)
      BY <1>3 DEF Exist
    <3> QED BY <1>1, <3>1, Links DEF libs
  <2>3. Destamped(found[p]) = {Source(j, c) : c \in CFiles(j)}
    BY <2>1, OwnSources
  <2>4. Compiled(p, j, f) = Node(j, f[2], tool, links[p] \union {Source(j, c) : c \in CFiles(j)})
    BY <1>3, <2>1, <2>2, <2>3 DEF Compiled
  <2>5. Pure(j, tool, links[p])
          = Node(j, f[2], tool, links[p] \union {Source(j, c) : c \in CFiles(j)})
    BY <1>2 DEF Pure
  <2> QED BY <1>1, <2>4, <2>5, Results
<1>5. CommandDone(p, j, f) /\ Advance(p) => Doing(p, j)'
  <2> SUFFICES ASSUME CommandDone(p, j, f), Advance(p) PROVE CrossAt(p, j)'
    BY DEF Doing
  <2>1. fs'[f] = Result(p, f) /\ f \in wrote'[p] /\ Exist(Here(p).in \union found[p])
    BY <1>1, <1>2 DEF CommandDone, IInv, Disk, Records
  <2>2. pc'[p] = 6 /\ links'[p] = links[p] /\ got'[p] = {} /\ verified'[p] = j.sha
    BY <1>1, Advances DEF CommandDone, CrossAt, GotAt
  <2>3. tool' = tool
    BY DEF Command
  <2>4. Whole(p, j, tool)'
    BY <1>2, <1>4, <2>1, <2>2, <2>3 DEF Whole
  <2>5. tool \in Pinned /\ (j.sha => tool = Genuine)
    BY <1>1 DEF CrossAt
  <2> QED BY <2>2, <2>3, <2>4, <2>5 DEF CrossAt, GotAt
<1>6. ~ CommandSilent(p, j)
  BY DEF CommandSilent, Careful
<1> QED BY <1>1, <1>2, <1>5, <1>6, CommandCloses

LEMMA CompilesLauncher ==
  ASSUME Careful, IInv, NEW p \in Procs, NEW j \in Jobs, j # None, Active(p, j),
         j.kind = "launcher", Spot(p, j, "compile"), Command(p)
  PROVE  IInv'
<1> DEFINE f == Launcher(j)
           libs == UNION {Linkables(u) : u \in j.uses}
<1>1. /\ pc[p] = 4 /\ Here(p).do = "compile" /\ Here(p).out = {f}
      /\ Here(p).in = {Archive(u) : u \in j.uses}
      /\ LauncherAt(p, j) /\ job[p] = j
  BY DEF Spot, LauncherSpot, Here3, Active, Doing
<1>2. f \in Paths /\ f[1] = j.dir /\ Product(j) = f
  BY OwnFiles DEF Linkables, Product
<1>3. Here(p).in = libs
  <2>1. \A u \in j.uses : Linkables(u) = {Archive(u)}
    BY JobUses DEF Linkables, Product
  <2> QED BY <1>1, <2>1
<1> HIDE DEF f, libs
<1>4. Exist(Here(p).in \union found[p]) => Result(p, f) = Pure(j, tool, links[p])
  <2> SUFFICES ASSUME Exist(Here(p).in \union found[p])
               PROVE  Result(p, f) = Pure(j, tool, links[p])
    OBVIOUS
  <2>1. CC(p) = tool /\ found[p] = {} /\ CFiles(j) = {}
    BY <1>1 DEF CC, LauncherAt, CFiles
  <2>2. Destamped(libs) = links[p]
    <3>1. Exist(libs)
      BY <1>3 DEF Exist
    <3> QED BY <1>1, <3>1, Links DEF libs
  <2>3. Destamped(found[p]) = {}
    BY <2>1 DEF Destamped
  <2>4. Compiled(p, j, f) = Node(j, f[2], tool, links[p])
    BY <1>3, <2>1, <2>2, <2>3 DEF Compiled
  <2>5. Pure(j, tool, links[p]) = Node(j, f[2], tool, links[p])
    BY <1>2, <2>1 DEF Pure
  <2> QED BY <1>1, <2>4, <2>5, Results
<1>5. CommandDone(p, j, f) /\ Advance(p) => Doing(p, j)'
  <2> SUFFICES ASSUME CommandDone(p, j, f), Advance(p) PROVE LauncherAt(p, j)'
    BY DEF Doing
  <2>1. fs'[f] = Result(p, f) /\ f \in wrote'[p] /\ Exist(Here(p).in \union found[p])
    BY <1>1, <1>2 DEF CommandDone, IInv, Disk, Records
  <2>2. pc'[p] = 5 /\ links'[p] = links[p] /\ got'[p] = {} /\ found'[p] = {}
    BY <1>1, Advances DEF CommandDone, LauncherAt, GotAt
  <2>3. tool' = tool /\ tool # None
    BY <1>1 DEF Command, LauncherAt
  <2>4. Whole(p, j, tool)'
    BY <1>2, <1>4, <2>1, <2>2, <2>3 DEF Whole
  <2> QED BY <2>2, <2>3, <2>4 DEF LauncherAt, GotAt
<1>6. CommandSilent(p, j) /\ Advance(p) => Doing(p, j)'
  <2> SUFFICES ASSUME CommandSilent(p, j), Advance(p) PROVE LauncherAt(p, j)'
    BY DEF Doing
  <2>1. /\ pc'[p] = 5 /\ links'[p] = links[p] /\ got'[p] = {} /\ found'[p] = {}
        /\ wrote'[p] = wrote[p] /\ fs' = fs
    BY <1>1, Advances DEF CommandSilent, LauncherAt, GotAt
  <2>2. tool' = tool /\ tool # None
    BY <1>1 DEF Command, LauncherAt
  <2>3. Whole(p, j, tool)' <=> Whole(p, j, tool)
    BY <2>1, <2>2 DEF Whole
  <2> QED BY <1>1, <2>1, <2>2, <2>3 DEF LauncherAt, GotAt
<1> QED BY <1>1, <1>2, <1>5, <1>6, CommandCloses

\* An object, or the archive of the objects; the compiler may claim to have
\* made what it has not, which the check that follows finds.
LEMMA CompilesObject ==
  ASSUME Careful, IInv, NEW p \in Procs, NEW j \in Jobs, j # None, Active(p, j),
         j.kind = "runtime", Command(p), pc[p] \in 3 .. n + 2, pc[p] - 2 \in 1 .. n,
         Here3(p, "compile", {}, {File(j, RuntimeObjects[pc[p] - 2])})
  PROVE  IInv'
<1> DEFINE f == File(j, RuntimeObjects[pc[p] - 2])
<1>1. /\ Here(p).do = "compile" /\ Here(p).in = {} /\ Here(p).out = {f}
      /\ RuntimeAt(p, j) /\ job[p] = j
  BY DEF Here3, Active, Doing
<1>2. f \in All(j, RuntimeObjects)
  BY Lengths DEF All
<1> HIDE DEF f
<1>3. f \in Paths /\ f[1] = j.dir /\ f # Archive(j)
  BY <1>2, OwnFiles
<1>4. Result(p, f) = Node(j, f[2], tool, {})
  <2>1. CC(p) = tool /\ found[p] = {}
    BY <1>1 DEF CC, RuntimeAt
  <2>2. Destamped({}) = {}
    BY DEF Destamped
  <2>3. Compiled(p, j, f) = Node(j, f[2], tool, {})
    BY <1>1, <2>1, <2>2 DEF Compiled
  <2> QED BY <1>1, <2>3, Results
<1>5. Archive(j) \in Paths /\ Product(j) = Archive(j)
  BY OwnFiles DEF Linkables, Product
<1>6. ASSUME Advance(p)
      PROVE  pc'[p] \in 4 .. n + 3 /\ links'[p] = links[p] /\ tool' = tool /\ n \in Nat
  BY <1>1, <1>6, Advances, Lengths DEF Command
<1>9. pc[p] # n + 6 /\ pc[p] > 2 /\ pc[p] \in 3 .. n + 3
  BY Lengths
<1>7. CommandDone(p, j, f) /\ Advance(p) => Doing(p, j)'
  <2> SUFFICES ASSUME CommandDone(p, j, f), Advance(p) PROVE RuntimeAt(p, j)'
    BY DEF Doing
  <2>1. fs' = [fs EXCEPT ![f] = Result(p, f)] /\ wrote'[p] = wrote[p] \union {f}
    BY <1>1 DEF CommandDone, IInv, Records
  <2>2. fs'[f] = Node(j, f[2], tool, {}) /\ \A g \in Paths : g # f => fs'[g] = fs[g]
    BY <1>3, <1>4, <2>1 DEF IInv, Disk
  <2>3. found'[p] = {} /\ got'[p] = {}
    BY <1>1, <1>9 DEF CommandDone, RuntimeAt, GotAt
  <2>4. fs'[Archive(j)] # None => Whole(p, j, tool)'
    <3>1. fs'[Archive(j)] = fs[Archive(j)]
      BY <1>3, <1>5, <2>2
    <3>2. fs[Archive(j)] # None => Whole(p, j, tool)
      BY <1>1, <1>9 DEF RuntimeAt
    <3> QED BY <1>5, <1>6, <2>1, <3>1, <3>2 DEF Whole
  <2>5. \A g \in All(j, RuntimeObjects) : fs'[g] # None => fs'[g] = Node(j, g[2], tool, {})
    <3>1. \A g \in All(j, RuntimeObjects) : fs[g] # None => fs[g] = Node(j, g[2], tool, {})
      BY <1>1, <1>9 DEF RuntimeAt
    <3>2. \A g \in All(j, RuntimeObjects) : g \in Paths
      BY OwnFiles
    <3> QED BY <2>2, <3>1, <3>2
  <2>6. tool' = tool /\ tool # None
    BY <1>1, <1>6 DEF RuntimeAt
  <2> QED BY <1>6, <2>3, <2>4, <2>5, <2>6 DEF RuntimeAt, GotAt
<1>8. CommandSilent(p, j) /\ Advance(p) => Doing(p, j)'
  <2> SUFFICES ASSUME CommandSilent(p, j), Advance(p) PROVE RuntimeAt(p, j)'
    BY DEF Doing
  <2>1. fs' = fs /\ wrote' = wrote /\ found'[p] = {} /\ got'[p] = {}
    BY <1>1, <1>9 DEF CommandSilent, RuntimeAt, GotAt
  <2>2. tool' = tool /\ tool # None
    BY <1>1, <1>6 DEF RuntimeAt
  <2>3. Whole(p, j, tool)' <=> Whole(p, j, tool)
    BY <1>6, <2>1, <2>2 DEF Whole
  <2> QED BY <1>1, <1>6, <2>1, <2>2, <2>3 DEF RuntimeAt, GotAt
<1> QED BY <1>1, <1>3, <1>7, <1>8, CommandCloses

LEMMA Archives ==
  ASSUME Careful, IInv, NEW p \in Procs, NEW j \in Jobs, j # None, Active(p, j),
         j.kind = "runtime", Command(p), pc[p] = n + 3,
         Here3(p, "compile", All(j, RuntimeObjects), {Archive(j)})
  PROVE  IInv'
<1> DEFINE f == Archive(j)
           objects == All(j, RuntimeObjects)
<1>1. /\ Here(p).do = "compile" /\ Here(p).in = objects /\ Here(p).out = {f}
      /\ RuntimeAt(p, j) /\ job[p] = j
  BY DEF Here3, Active, Doing
<1>2. f \in Paths /\ f[1] = j.dir /\ Product(j) = f
  BY OwnFiles DEF Linkables, Product
<1>3. ASSUME Exist(Here(p).in \union found[p]) PROVE Result(p, f) = Pure(j, tool, links[p])
  <2>1. CC(p) = tool /\ found[p] = {} /\ n \in Nat
    BY <1>1, Lengths DEF CC, RuntimeAt
  <2>2. \A o \in objects : fs[o] = Node(j, o[2], tool, {})
    <3>1. \A o \in objects : fs[o] # None => fs[o] = Node(j, o[2], tool, {})
      BY <1>1, <2>1 DEF RuntimeAt
    <3> QED BY <1>1, <1>3, <3>1 DEF Exist
  <2>3. \A o \in objects : [fs[o] EXCEPT !.stamp = FALSE] = fs[o]
    <3> TAKE o \in objects
    <3>1. PICK x : x = fs[o]
      OBVIOUS
    <3>2. x = Node(j, o[2], tool, {})
      BY <2>2, <3>1
    <3>3. IsNode(x) /\ x.stamp = FALSE
      BY <3>2 DEF IsNode, Node
    <3> QED BY <3>1, <3>3, Restamps
  <2>4. Destamped(objects) = {fs[o] : o \in objects} /\ Destamped({}) = {}
    BY <2>3, DestampSame DEF Destamped
  <2>5. Destamped(objects) = {Node(j, o[2], tool, {}) : o \in objects}
    BY <2>2, <2>4
  <2>6. links[p] = {} /\ CFiles(j) = {}
    BY <1>1, NoLinks DEF CFiles
  <2>7. Compiled(p, j, f) = Node(j, f[2], tool, {Node(j, o[2], tool, {}) : o \in objects})
    BY <1>1, <2>1, <2>4, <2>5 DEF Compiled
  <2>8. Pure(j, tool, links[p]) = Node(j, f[2], tool, {Node(j, o[2], tool, {}) : o \in objects})
    BY <1>2, <2>6 DEF Pure
  <2> QED BY <1>1, <2>7, <2>8, Results
<1> HIDE DEF f, objects
<1>4. ASSUME Advance(p)
      PROVE  pc'[p] = n + 4 /\ links'[p] = links[p] /\ tool' = tool /\ n \in Nat
  BY <1>1, <1>4, Advances, Lengths DEF Command
<1>5. CommandDone(p, j, f) /\ Advance(p) => Doing(p, j)'
  <2> SUFFICES ASSUME CommandDone(p, j, f), Advance(p) PROVE RuntimeAt(p, j)'
    BY DEF Doing
  <2>1. fs'[f] = Result(p, f) /\ f \in wrote'[p] /\ Exist(Here(p).in \union found[p])
    BY <1>1, <1>2 DEF CommandDone, IInv, Disk, Records
  <2>2. found'[p] = {} /\ got'[p] = {}
    BY <1>1, <1>4 DEF CommandDone, RuntimeAt, GotAt
  <2>3. Whole(p, j, tool)'
    BY <1>2, <1>3, <1>4, <2>1 DEF Whole
  <2>4. tool' = tool /\ tool # None
    BY <1>1, <1>4 DEF RuntimeAt
  <2> QED BY <1>4, <2>2, <2>3, <2>4 DEF RuntimeAt, GotAt
<1>6. CommandSilent(p, j) /\ Advance(p) => Doing(p, j)'
  <2> SUFFICES ASSUME CommandSilent(p, j), Advance(p) PROVE RuntimeAt(p, j)'
    BY DEF Doing
  <2>1. fs' = fs /\ wrote' = wrote /\ found'[p] = {} /\ got'[p] = {}
    BY <1>1, <1>4 DEF CommandSilent, RuntimeAt, GotAt
  <2>2. tool' = tool /\ tool # None
    BY <1>1, <1>4 DEF RuntimeAt
  <2>3. Whole(p, j, tool)' <=> Whole(p, j, tool)
    BY <1>4, <2>1, <2>2 DEF Whole
  <2> QED BY <1>1, <1>4, <2>1, <2>2, <2>3 DEF RuntimeAt, GotAt
<1> QED BY <1>1, <1>2, <1>5, <1>6, CommandCloses

LEMMA Installs ==
  ASSUME Careful, IInv, NEW p \in Procs, NEW j \in Jobs, j # None, Active(p, j),
         j.kind = "deps", Command(p), pc[p] \in 3 .. m + 2, pc[p] - 2 \in 1 .. m,
         Here3(p, "install", {}, {File(j, DepArchives[pc[p] - 2])})
  PROVE  IInv'
<1> DEFINE f == File(j, DepArchives[pc[p] - 2])
<1>1. Here(p).out = {f} /\ DepsAt(p, j) /\ job[p] = j
  BY DEF Here3, Active, Doing
<1>2. f \in Paths /\ f[1] = j.dir
  <2>1. f \in Linkables(j)
    BY Lengths DEF Linkables, All
  <2> HIDE DEF f
  <2> QED BY <2>1, OwnFiles
<1> HIDE DEF f
<1>3. CommandDone(p, j, f) /\ Advance(p) => Doing(p, j)'
  <2> SUFFICES ASSUME CommandDone(p, j, f), Advance(p) PROVE DepsAt(p, j)'
    BY DEF Doing
  <2>1. pc'[p] = pc[p] + 1 /\ pc[p] \in Nat
    BY <1>1, Advances
  <2>2. /\ pc'[p] \in 1 .. m + m + m + 4
        /\ \A k \in 1 .. m : /\ ~ pc'[p] > k + m + 3 /\ ~ pc'[p] > k + m + m + 3
                             /\ ~ pc[p] > k + m + m + 3
    BY <2>1, Lengths
  <2>3. found'[p] = {} /\ got'[p] = {}
    BY <1>1, <2>2 DEF CommandDone, DepsAt
  <2> QED BY <2>2, <2>3 DEF DepsAt
<1>4. ~ CommandSilent(p, j)
  BY DEF CommandSilent, Careful
<1> QED BY <1>1, <1>2, <1>3, <1>4, CommandCloses

LEMMA CommandKeeps ==
  ASSUME Careful, IInv, NEW p \in Procs, Command(p)
  PROVE  IInv'
<1>1. ~ Idle(p) /\ (At(p, "compile") \/ At(p, "install"))
  BY Busies DEF Command
<1>2. PICK j \in Jobs : job[p] = j /\ Active(p, j)
  BY <1>1, Running
<1>3. j # None
  BY NoneAssumption
<1>4. Spot(p, j, "compile") \/ Spot(p, j, "install")
  BY <1>1, <1>2, Spots
<1>5. CASE j.kind = "host"
  <2>1. Spot(p, j, "compile")
    BY <1>4, <1>5 DEF Spot, HostSpot
  <2> QED BY <1>2, <1>3, <1>5, <2>1, CompilesHost
<1>6. CASE j.kind = "cross"
  <2>1. Spot(p, j, "compile")
    BY <1>4, <1>6 DEF Spot, CrossSpot
  <2> QED BY <1>2, <1>3, <1>6, <2>1, CompilesCross
<1>7. CASE j.kind = "launcher"
  <2>1. Spot(p, j, "compile")
    BY <1>4, <1>7 DEF Spot, LauncherSpot
  <2> QED BY <1>2, <1>3, <1>7, <2>1, CompilesLauncher
<1>8. CASE j.kind = "runtime"
  <2>1. \/ /\ pc[p] \in 3 .. n + 2 /\ pc[p] - 2 \in 1 .. n
           /\ Here3(p, "compile", {}, {File(j, RuntimeObjects[pc[p] - 2])})
        \/ pc[p] = n + 3 /\ Here3(p, "compile", All(j, RuntimeObjects), {Archive(j)})
    BY <1>4, <1>8 DEF Spot, RuntimeSpot
  <2> QED BY <1>2, <1>3, <1>8, <2>1, CompilesObject, Archives
<1>9. CASE j.kind = "deps"
  <2>1. /\ pc[p] \in 3 .. m + 2 /\ pc[p] - 2 \in 1 .. m
        /\ Here3(p, "install", {}, {File(j, DepArchives[pc[p] - 2])})
    BY <1>4, <1>9 DEF Spot, DepsSpot
  <2> QED BY <1>2, <1>3, <1>9, <2>1, Installs
<1> QED BY <1>5, <1>6, <1>7, <1>8, <1>9, KindsOf

(***************************************************************************)
(* The beginning and the end of a build, and the environment.              *)
(***************************************************************************)
LEMMA StartKeeps ==
  ASSUME Careful, IInv, NEW p \in Procs, NEW j \in Jobs, Start(p, j)
  PROVE  IInv'
<1>1. /\ job[p] = None /\ \A u \in j.uses : built[u] # None
      /\ job' = [job EXCEPT ![p] = j] /\ pc' = [pc EXCEPT ![p] = 1]
      /\ links' = [links EXCEPT ![p] = UNION {built[u].got : u \in j.uses}]
      /\ built' = [built EXCEPT ![j] = None]
      /\ UNCHANGED <<fs, tool, late, verified, found, got, wrote>>
  BY DEF Start, Idle
<1>2. /\ \A q \in Procs : job[q] # None => j.dir \notin Uses(job[q]) /\ job[q].dir \notin Uses(j)
      /\ \A w \in late : w.file[1] \notin Uses(j)
  BY DEF Start, Busy, Careful, Idle
<1>3. /\ job'[p] = j /\ pc'[p] = 1 /\ links'[p] = UNION {built[u].got : u \in j.uses}
      /\ \A q \in Procs : q # p => job'[q] = job[q] /\ pc'[q] = pc[q] /\ links'[q] = links[q]
      /\ \A u \in Jobs : built'[u] = IF u = j THEN None ELSE built[u]
  BY <1>1 DEF IInv, Records
<1>4. verified'[p] = FALSE /\ found'[p] = {} /\ got'[p] = {}
  BY <1>1 DEF IInv, Records, Idle
<1>5. j # None
  BY NoneAssumption
<1>6. Disk'
  BY <1>1 DEF IInv, Disk, Fits
<1>7. Records'
  <2>1. /\ job' \in [Procs -> Jobs \union {None}] /\ pc' \in [Procs -> Nat]
        /\ links' = [q \in Procs |-> links'[q]] /\ built' = [u \in Jobs |-> built'[u]]
    BY <1>1 DEF IInv, Records
  <2>2. \A q \in Procs : job'[q] = None => job[q] = None
    BY <1>3, <1>5
  <2> QED BY <1>1, <2>1, <2>2 DEF IInv, Records, Idle
<1>8. Apart'
  <2> SUFFICES ASSUME NEW q \in Procs, job'[q] # None
               PROVE  /\ \A r \in Procs : r # q /\ job'[r] # None => job'[r].dir \notin Uses(job'[q])
                      /\ \A w \in late' : w.file[1] \notin Uses(job'[q])
    BY DEF Apart, Idle
  <2>1. CASE q = p
    BY <1>1, <1>2, <1>3, <2>1
  <2>2. CASE q # p
    <3>1. job'[q] = job[q] /\ job[q] # None
      BY <1>3, <2>2
    <3>2. \A w \in late' : w.file[1] \notin Uses(job[q])
      BY <1>1, <3>1 DEF IInv, Apart, Idle
    <3>3. ASSUME NEW r \in Procs, r # q, job'[r] # None PROVE job'[r].dir \notin Uses(job[q])
      <4>1. CASE r = p
        BY <1>2, <1>3, <3>1, <4>1
      <4>2. CASE r # p
        BY <1>3, <3>1, <3>3, <4>2 DEF IInv, Apart, Idle
      <4> QED BY <4>1, <4>2
    <3> QED BY <3>1, <3>2, <3>3
  <2> QED BY <2>1, <2>2
<1>9. Linked'
  <2> SUFFICES ASSUME NEW q \in Procs, job'[q] # None
               PROVE  /\ \A u \in job'[q].uses : built'[u] # None
                      /\ links'[q] = UNION {built'[u].got : u \in job'[q].uses}
    BY DEF Linked, Idle
  <2>1. CASE q = p
    <3>1. \A u \in j.uses : u \in Jobs /\ u # j
      BY JobUses
    <3>2. \A u \in j.uses : built'[u] = built[u]
      BY <1>3, <3>1
    <3> QED BY <1>1, <1>3, <2>1, <3>2
  <2>2. CASE q # p
    <3>1. job'[q] = job[q] /\ job[q] \in Jobs /\ links'[q] = links[q] /\ job[q] # None
      BY <1>3, <2>2 DEF IInv, Records
    <3>2. ASSUME NEW u \in job[q].uses PROVE built'[u] = built[u]
      <4>1. u \in Jobs /\ u.dir \in Uses(job[q])
        BY <3>1, JobUses DEF Uses
      <4>2. u # j
        BY <1>2, <3>1, <4>1
      <4> QED BY <1>3, <4>1, <4>2
    <3>3. /\ \A u \in job[q].uses : built[u] # None
          /\ links[q] = UNION {built[u].got : u \in job[q].uses}
      BY <3>1 DEF IInv, Linked, Idle
    <3> QED BY <3>1, <3>2, <3>3
  <2> QED BY <2>1, <2>2
<1>10. Held'
  <2> SUFFICES ASSUME NEW u \in Jobs, built'[u] # None PROVE HeldBy(u)'
    BY DEF Held
  <2>1. u # j /\ built'[u] = built[u] /\ HeldBy(u)
    BY <1>3 DEF IInv, Held
  <2>2. \A q \in Procs : job'[q] # u
    BY <1>3, <2>1 DEF HeldBy
  <2> QED BY <1>1, <2>1, <2>2 DEF HeldBy
<1>11. Sound'
  BY <1>3 DEF IInv, Sound, ProductsAreFunctions, ManifestNamesCompiler, DepHashesReproducible
<1>12. Doing(p, j)'
  <2>1. HostAt(p, j)' /\ LauncherAt(p, j)'
    BY <1>3, <1>4 DEF HostAt, LauncherAt, GotAt
  <2>4. CrossAt(p, j)'
    <3>1. verified'[p] = IF pc'[p] > 2 THEN j.sha ELSE FALSE
      <4>1. ~ pc'[p] > 2
        BY <1>3
      <4> QED BY <1>4, <4>1, Zenon
    <3>2. GotAt(p, j, 8)'
      BY <1>3, <1>4 DEF GotAt
    <3> QED BY <1>3, <3>1, <3>2 DEF CrossAt
  <2>2. RuntimeAt(p, j)'
    BY <1>3, <1>4, Lengths DEF RuntimeAt, GotAt
  <2>3. DepsAt(p, j)'
    <3>1. \A k \in 1 .. m : ~ 1 > k + m + 3 /\ ~ 1 > k + m + m + 3
      BY Lengths
    <3>2. 1 \in 1 .. m + m + m + 4
      BY Lengths
    <3> QED BY <1>3, <1>4, <3>1, <3>2 DEF DepsAt
  <2> QED BY <2>1, <2>2, <2>3, <2>4 DEF Doing
<1>13. ASSUME NEW q \in Procs, NEW k \in Jobs, job'[q] = k PROVE Doing(q, k)'
  <2>1. CASE q = p
    BY <1>3, <1>12, <1>13, <2>1
  <2>2. CASE q # p
    <3>1. Doing(q, k)
      BY <1>3, <1>13, <2>2 DEF IInv
    <3> QED BY <1>1, <1>3, <2>2, <3>1, Frame
  <2> QED BY <2>1, <2>2
<1> QED BY <1>6, <1>7, <1>8, <1>9, <1>10, <1>11, <1>13 DEF IInv

\* What a build that has come to its end has read.
Ended(p, j) ==
  /\ j.kind # "deps" =>
       \E t \in Tools \union {HostCC} :
         /\ fs[Product(j)] = Pure(j, t, links[p]) /\ got[p] = {fs[Product(j)]}
         /\ j.kind = "cross" => /\ t \in Pinned /\ (j.sha => t = Genuine)
                                /\ verified[p] = j.sha
  /\ j.kind = "deps" => /\ got[p] = {fs[f] : f \in All(j, DepArchives)}
                        /\ \A f \in All(j, DepArchives) : fs[f].stamp = FALSE /\ fs[f] # None

LEMMA Ends ==
  ASSUME IInv, NEW p \in Procs, NEW j \in Jobs, job[p] = j, pc[p] > Len(Plan(j))
  PROVE  Ended(p, j)
<1>1. Doing(p, j) /\ tool \in Tools \union {None}
  BY DEF IInv, Records
<1>2. CASE j.kind = "host"
  <2>1. HostAt(p, j) /\ Len(Plan(j)) = 4
    BY <1>1, <1>2, HostSteps DEF Doing
  <2>2. pc[p] = 5
    BY <2>1 DEF HostAt
  <2> QED BY <1>2, <2>1, <2>2 DEF HostAt, GotAt, Whole, Ended
<1>3. CASE j.kind = "cross"
  <2>1. CrossAt(p, j) /\ Len(Plan(j)) = 7
    BY <1>1, <1>3, CrossSteps, Zenon DEF Doing
  <2>2. pc[p] = 8
    BY <2>1 DEF CrossAt
  <2>3. Whole(p, j, tool) /\ tool \in Pinned /\ (j.sha => tool = Genuine) /\ verified[p] = j.sha
    BY <2>1, <2>2 DEF CrossAt
  <2>4. got[p] = {fs[Product(j)]} /\ tool \in Tools
    BY <2>1, <2>2, <2>3, BuildAssumption DEF CrossAt, GotAt
  <2> QED BY <1>3, <2>3, <2>4 DEF Whole, Ended
<1>4. CASE j.kind = "runtime"
  <2>1. RuntimeAt(p, j) /\ Len(Plan(j)) = n + 5 /\ n \in Nat
    BY <1>1, <1>4, RuntimeSteps, Lengths, Zenon DEF Doing
  <2>2. pc[p] = n + 6
    BY <2>1 DEF RuntimeAt
  <2>3. Whole(p, j, tool) /\ tool # None /\ got[p] = {fs[Product(j)]}
    <3>1. pc[p] > 2 /\ pc[p] > n + 4
      BY <2>1, <2>2
    <3>2. fs[Archive(j)] # None /\ tool # None
      BY <2>1, <3>1 DEF RuntimeAt
    <3> QED BY <2>1, <2>2, <3>1, <3>2 DEF RuntimeAt, GotAt
  <2> QED BY <1>1, <1>4, <2>3 DEF Whole, Ended
<1>5. CASE j.kind = "launcher"
  <2>1. LauncherAt(p, j) /\ Len(Plan(j)) = 6
    BY <1>1, <1>5, LauncherSteps, Zenon DEF Doing
  <2>2. pc[p] = 7
    BY <2>1 DEF LauncherAt
  <2>3. Whole(p, j, tool) /\ tool # None /\ got[p] = {fs[Product(j)]}
    BY <2>1, <2>2 DEF LauncherAt, GotAt
  <2> QED BY <1>1, <1>5, <2>3 DEF Whole, Ended
<1>6. CASE j.kind = "deps"
  <2>1. DepsAt(p, j) /\ Len(Plan(j)) = m + m + m + 3 /\ m \in Nat
    BY <1>1, <1>6, DepsSteps, Lengths, Zenon DEF Doing
  <2>2. pc[p] = m + m + m + 4
    BY <2>1 DEF DepsAt
  <2>3. \A k \in 1 .. m : pc[p] > k + m + 3 /\ pc[p] > k + m + m + 3
    BY <2>1, <2>2
  <2>4. {k \in 1 .. m : pc[p] > k + m + m + 3} = 1 .. m
    BY <2>3
  <2>5. got[p] = {fs[File(j, DepArchives[k])] : k \in 1 .. m}
    BY <2>1, <2>4 DEF DepsAt
  <2>6. \A k \in 1 .. m : /\ fs[File(j, DepArchives[k])].stamp = FALSE
                          /\ fs[File(j, DepArchives[k])] # None
    BY <2>1, <2>3 DEF DepsAt
  <2>7. All(j, DepArchives) = {File(j, DepArchives[k]) : k \in 1 .. m}
    BY Lengths DEF All
  <2>8. got[p] = {fs[f] : f \in All(j, DepArchives)}
    BY <2>5, <2>7
  <2>9. \A f \in All(j, DepArchives) : fs[f].stamp = FALSE /\ fs[f] # None
    BY <2>6, <2>7
  <2> QED BY <1>6, <2>8, <2>9 DEF Ended
<1> QED BY <1>2, <1>3, <1>4, <1>5, <1>6, KindsOf

LEMMA ReturnKeeps ==
  ASSUME Careful, IInv, NEW p \in Procs, Return(p)
  PROVE  IInv'
<1>1. PICK j \in Jobs : job[p] = j /\ Active(p, j)
  BY Running DEF Return
<1>2. pc[p] > Len(Plan(j)) /\ j # None /\ ~ Idle(p)
  BY <1>1, NoneAssumption DEF Return
<1>3. Ended(p, j)
  BY <1>1, <1>2, Ends
<1>4. /\ built' = [built EXCEPT ![j] = [got |-> got[p], links |-> links[p],
                                         verified |-> verified[p]]]
      /\ Leave(p) /\ UNCHANGED <<fs, tool, late>>
  BY <1>1 DEF Return
<1>5. \A k \in Jobs : k # j => built'[k] = built[k]
  BY <1>4 DEF IInv, Records
<1>6. /\ built'[j].got = got[p] /\ built'[j].links = links[p]
      /\ built'[j].verified = verified[p]
  BY <1>4 DEF IInv, Records
<1>7. /\ job'[p] = None
      /\ \A q \in Procs : q # p =>
           /\ job'[q] = job[q] /\ pc'[q] = pc[q] /\ links'[q] = links[q]
           /\ verified'[q] = verified[q] /\ found'[q] = found[q]
           /\ got'[q] = got[q] /\ wrote'[q] = wrote[q]
  BY <1>4 DEF Leave, IInv, Records
<1>8. Disk'
  BY <1>4 DEF IInv, Disk, Fits
<1>9. Records'
  <2>1. job' \in [Procs -> Jobs \union {None}] /\ pc' \in [Procs -> Nat]
    BY <1>4 DEF IInv, Records, Leave
  <2>2. /\ links' = [q \in Procs |-> links'[q]] /\ verified' = [q \in Procs |-> verified'[q]]
        /\ found' = [q \in Procs |-> found'[q]] /\ got' = [q \in Procs |-> got'[q]]
        /\ wrote' = [q \in Procs |-> wrote'[q]] /\ built' = [k \in Jobs |-> built'[k]]
    BY <1>4 DEF IInv, Records, Leave
  <2>3. verified'[p] = FALSE /\ found'[p] = {} /\ got'[p] = {}
    BY <1>4 DEF IInv, Records, Leave
  <2>4. \A q \in Procs : job'[q] = None => verified'[q] = FALSE /\ found'[q] = {} /\ got'[q] = {}
    BY <1>7, <2>3 DEF IInv, Records, Idle
  <2> QED BY <1>4, <2>1, <2>2, <2>4 DEF IInv, Records, Idle
<1>10. \A q \in Procs : job'[q] # None => q # p /\ job'[q] = job[q] /\ j.dir \notin Uses(job[q])
  BY <1>1, <1>2, <1>7 DEF IInv, Apart, Idle
<1>11. Apart'
  BY <1>4, <1>10 DEF IInv, Apart, Idle
<1>12. Linked'
  <2> SUFFICES ASSUME NEW q \in Procs, job'[q] # None
               PROVE  /\ \A u \in job'[q].uses : built'[u] # None
                      /\ links'[q] = UNION {built'[u].got : u \in job'[q].uses}
    BY DEF Linked, Idle
  <2>1. /\ job'[q] = job[q] /\ links'[q] = links[q] /\ job[q] # None /\ job[q] \in Jobs
        /\ j.dir \notin Uses(job[q])
    BY <1>7, <1>10 DEF IInv, Records
  <2>2. ASSUME NEW u \in job[q].uses PROVE built'[u] = built[u]
    <3>1. u \in Jobs /\ u.dir \in Uses(job[q])
      BY <2>1, JobUses DEF Uses
    <3> QED BY <1>5, <2>1, <3>1
  <2>3. /\ \A u \in job[q].uses : built[u] # None
        /\ links[q] = UNION {built[u].got : u \in job[q].uses}
    BY <2>1 DEF IInv, Linked, Idle
  <2> QED BY <2>1, <2>2, <2>3
<1>13. HeldBy(j)'
  <2>1. \A q \in Procs : job'[q] # j
    <3>1. \A q \in Procs : job'[q] = j => j.dir \notin Uses(j)
      BY <1>2, <1>10
    <3> QED BY <3>1 DEF Uses
  <2>2. \A w \in late' : w.file[1] # j.dir
    BY <1>1, <1>2, <1>4 DEF IInv, Apart, Uses
  <2>3. CASE j.kind = "deps"
    <3>1. Linkables(j) = All(j, DepArchives)
      BY <2>3 DEF Linkables
    <3> QED BY <1>3, <1>4, <1>6, <2>1, <2>2, <2>3, <3>1 DEF HeldBy, Ended
  <2>4. CASE j.kind # "deps"
    <3>1. Linkables(j) = {Product(j)}
      BY <2>4 DEF Linkables
    <3>2. PICK t : fs[Product(j)] = Pure(j, t, links[p]) /\ got[p] = {fs[Product(j)]}
      BY <1>3, <2>4 DEF Ended
    <3>3. fs[Product(j)].stamp = FALSE
      BY <3>2 DEF Pure, Node
    <3> QED BY <1>4, <1>6, <2>1, <2>2, <3>1, <3>2, <3>3 DEF HeldBy
  <2> QED BY <2>3, <2>4
<1>14. Held'
  <2> SUFFICES ASSUME NEW u \in Jobs, built'[u] # None, u # j PROVE HeldBy(u)'
    BY <1>13 DEF Held
  <2>1. built'[u] = built[u] /\ HeldBy(u)
    BY <1>5 DEF IInv, Held
  <2>2. \A q \in Procs : job'[q] # u
    BY <1>7, <2>1, NoneAssumption DEF HeldBy
  <2> QED BY <1>4, <2>1, <2>2 DEF HeldBy
<1>15. Sound'
  <2>1. ProductsAreFunctions'
    <3> SUFFICES ASSUME NEW k \in Jobs, built'[k] # None, k.kind # "deps"
                 PROVE  \E t \in Tools \union {HostCC} :
                          built'[k].got = {Pure(k, t, built'[k].links)}
      BY DEF ProductsAreFunctions
    <3>1. CASE k = j
      BY <1>3, <1>6, <3>1 DEF Ended
    <3>2. CASE k # j
      BY <1>5, <3>2 DEF IInv, Sound, ProductsAreFunctions
    <3> QED BY <3>1, <3>2
  <2>2. ManifestNamesCompiler'
    <3> SUFFICES ASSUME NEW k \in Jobs, built'[k] # None, k.kind = "cross"
                 PROVE  /\ built'[k].verified = k.sha
                        /\ \A x \in built'[k].got :
                             x.by \in Pinned /\ (built'[k].verified => x.by = Genuine)
      BY DEF ManifestNamesCompiler
    <3>1. CASE k = j
      <4>1. PICK t : /\ fs[Product(j)] = Pure(j, t, links[p]) /\ got[p] = {fs[Product(j)]}
                     /\ t \in Pinned /\ (j.sha => t = Genuine) /\ verified[p] = j.sha
        BY <1>3, <3>1 DEF Ended
      <4>2. fs[Product(j)].by = t
        BY <4>1 DEF Pure, Node
      <4> QED BY <1>6, <3>1, <4>1, <4>2
    <3>2. CASE k # j
      BY <1>5, <3>2 DEF IInv, Sound, ManifestNamesCompiler
    <3> QED BY <3>1, <3>2
  <2>3. DepHashesReproducible'
    <3> SUFFICES ASSUME NEW k \in Jobs, built'[k] # None, k.kind = "deps"
                 PROVE  /\ {x.name : x \in built'[k].got}
                             = {<<k.what, f[2]>> : f \in All(k, DepArchives)}
                        /\ \A x \in built'[k].got : ~ x.stamp
      BY DEF DepHashesReproducible
    <3>1. CASE k = j
      <4>1. /\ got[p] = {fs[f] : f \in All(j, DepArchives)}
            /\ \A f \in All(j, DepArchives) : fs[f].stamp = FALSE /\ fs[f] # None
        BY <1>3, <3>1 DEF Ended
      <4>2. \A f \in All(j, DepArchives) : fs[f].name = <<j.what, f[2]>>
        <5>1. \A f \in All(j, DepArchives) : f \in Paths /\ f[1] = j.dir
          BY <3>1, OwnFiles DEF Linkables
        <5>2. \A f \in All(j, DepArchives) : Fits(f, fs[f])
          BY <4>1, <5>1 DEF IInv, Disk
        <5> QED BY <5>1, <5>2 DEF Fits
      <4>3. {x.name : x \in got[p]} = {<<j.what, f[2]>> : f \in All(j, DepArchives)}
        BY <4>1, <4>2
      <4> QED BY <1>6, <3>1, <4>1, <4>3
    <3>2. CASE k # j
      BY <1>5, <3>2 DEF IInv, Sound, DepHashesReproducible
    <3> QED BY <3>1, <3>2
  <2> QED BY <2>1, <2>2, <2>3 DEF Sound
<1>16. ASSUME NEW q \in Procs, NEW k \in Jobs, job'[q] = k PROVE Doing(q, k)'
  <2>1. q # p /\ job[q] = k
    BY <1>7, <1>16, NoneAssumption
  <2>2. Doing(q, k)
    BY <2>1 DEF IInv
  <2> QED BY <1>4, <1>7, <2>1, <2>2, Frame
<1> QED BY <1>8, <1>9, <1>11, <1>12, <1>14, <1>15, <1>16 DEF IInv

LEMMA LateWriteKeeps ==
  ASSUME Careful, IInv, NEW w \in late, LateWrite(w)
  PROVE  IInv'
<1>1. /\ late' \subseteq late /\ fs' \in {fs, [fs EXCEPT ![w.file] = w.node]}
      /\ UNCHANGED <<tool, job, pc, links, verified, found, got, wrote, built>>
  BY DEF LateWrite, process
<1>2. w.file \in Paths /\ Fits(w.file, w.node) /\ fs = [f \in Paths |-> fs[f]]
  BY DEF IInv, Disk
<1>3. /\ fs' = [f \in Paths |-> fs'[f]] /\ \A f \in Paths : f # w.file => fs'[f] = fs[f]
      /\ fs'[w.file] \in {fs[w.file], w.node}
  BY <1>1, <1>2
<1>4. Disk'
  <2>1. \A f \in Paths : fs'[f] # None => Fits(f, fs'[f])
    BY <1>2, <1>3 DEF IInv, Disk
  <2> QED BY <1>1, <1>3, <2>1 DEF IInv, Disk, Fits
<1>5. Records' /\ Apart' /\ Linked'
  <2>1. Records'
    BY <1>1 DEF IInv, Records, Idle
  <2>2. Apart' /\ Linked'
    BY <1>1 DEF IInv, Apart, Linked, Idle
  <2> QED BY <2>1, <2>2
<1>6. Held'
  <2> SUFFICES ASSUME NEW u \in Jobs, built'[u] # None PROVE HeldBy(u)'
    BY DEF Held
  <2>1. HeldBy(u)
    BY <1>1 DEF IInv, Held
  <2>2. \A f \in Linkables(u) : fs'[f] = fs[f]
    BY <1>3, <2>1, OwnFiles DEF HeldBy
  <2> QED BY <1>1, <2>1, <2>2 DEF HeldBy
<1>7. Sound'
  BY <1>1 DEF IInv, Sound, ProductsAreFunctions, ManifestNamesCompiler, DepHashesReproducible
<1>8. ASSUME NEW q \in Procs, NEW k \in Jobs, job'[q] = k PROVE Doing(q, k)'
  <2>1. job[q] = k /\ Doing(q, k) /\ k # None
    BY <1>1, <1>8, NoneAssumption DEF IInv
  <2>2. w.file[1] # k.dir
    BY <2>1 DEF IInv, Apart, Uses, Idle
  <2>3. \A f \in Paths : f[1] = k.dir => fs'[f] = fs[f]
    BY <1>3, <2>2
  <2> QED BY <1>1, <2>1, <2>3, Frame
<1> QED BY <1>4, <1>5, <1>6, <1>7, <1>8 DEF IInv

LEMMA SwapKeeps ==
  ASSUME Careful, IInv, NEW t \in Tools \union {None}, Swap(t)
  PROVE  IInv'
<1>1. /\ tool' = t /\ \A p \in Procs : job[p] = None
      /\ UNCHANGED <<fs, late, job, pc, links, verified, found, got, wrote, built>>
  BY DEF Swap, Careful, process, Idle
<1>2. Disk' /\ Records' /\ Apart' /\ Linked'
  <2>1. Disk'
    BY <1>1 DEF IInv, Disk, Fits
  <2>2. Records'
    BY <1>1 DEF IInv, Records, Idle
  <2>3. Apart' /\ Linked'
    BY <1>1 DEF IInv, Apart, Linked, Idle
  <2> QED BY <2>1, <2>2, <2>3
<1>3. Held'
  BY <1>1 DEF IInv, Held, HeldBy
<1>4. Sound'
  BY <1>1 DEF IInv, Sound, ProductsAreFunctions, ManifestNamesCompiler, DepHashesReproducible
<1>5. \A p \in Procs, j \in Jobs : job'[p] # j
  BY <1>1, NoneAssumption
<1> QED BY <1>2, <1>3, <1>4, <1>5 DEF IInv

LEMMA StutterKeeps ==
  ASSUME IInv, UNCHANGED vars
  PROVE  IInv'
<1>1. UNCHANGED <<fs, tool, late, job, pc, links, verified, found, got, wrote, built>>
  BY DEF vars, process
<1>2. Disk' /\ Records' /\ Apart' /\ Linked'
  <2>1. Disk'
    BY <1>1 DEF IInv, Disk, Fits
  <2>2. Records'
    BY <1>1 DEF IInv, Records, Idle
  <2>3. Apart' /\ Linked'
    BY <1>1 DEF IInv, Apart, Linked, Idle
  <2> QED BY <2>1, <2>2, <2>3
<1>3. Held'
  BY <1>1 DEF IInv, Held, HeldBy
<1>4. Sound'
  BY <1>1 DEF IInv, Sound, ProductsAreFunctions, ManifestNamesCompiler, DepHashesReproducible
<1>5. ASSUME NEW q \in Procs, NEW k \in Jobs, job'[q] = k PROVE Doing(q, k)'
  <2>1. Doing(q, k)
    BY <1>1, <1>5 DEF IInv
  <2> QED BY <1>1, <2>1, Frame
<1> QED BY <1>2, <1>3, <1>4, <1>5 DEF IInv

LEMMA InitHolds ==
  ASSUME Init
  PROVE  IInv
<1>1. Disk /\ Records
  BY DEF Init, Disk, Records, Idle
<1>2. Apart /\ Linked /\ Held
  BY DEF Init, Apart, Linked, Held, Idle
<1>3. Sound
  BY DEF Init, Sound, ProductsAreFunctions, ManifestNamesCompiler, DepHashesReproducible
<1>4. \A p \in Procs, j \in Jobs : job[p] # j
  BY NoneAssumption DEF Init
<1> QED BY <1>1, <1>2, <1>3, <1>4 DEF IInv

LEMMA NextKeeps ==
  ASSUME Careful, IInv, [Next]_vars
  PROVE  IInv'
<1>1. ASSUME NEW p \in Procs, NEW j \in Jobs, Start(p, j) PROVE IInv'
  BY <1>1, StartKeeps
<1>2. ASSUME NEW p \in Procs,
             \/ Which(p) \/ Configure(p) \/ VerifyVersion(p) \/ VerifyIntegrity(p)
             \/ Generate(p) \/ Discover(p) \/ Command(p) \/ Normalise(p)
             \/ Clean(p) \/ Check(p) \/ Read(p) \/ Return(p)
      PROVE  IInv'
  BY <1>2, WhichKeeps, ConfigureKeeps, VerifyVersionKeeps, VerifyIntegrityKeeps,
     GenerateKeeps, DiscoverKeeps, CommandKeeps, NormaliseKeeps, CleanKeeps, CheckKeeps,
     ReadKeeps, ReturnKeeps, Zenon
<1>3. ASSUME NEW w \in late, LateWrite(w) PROVE IInv'
  BY <1>3, LateWriteKeeps
<1>4. ASSUME NEW t \in Tools \union {None}, Swap(t) PROVE IInv'
  BY <1>4, SwapKeeps
<1>5. CASE UNCHANGED vars
  BY <1>5, StutterKeeps
<1> QED BY <1>1, <1>2, <1>3, <1>4, <1>5, Zenon DEF Next

(***************************************************************************)
(* The theorems.                                                           *)
(***************************************************************************)
THEOREM Inductive ==
  ASSUME Careful
  PROVE  Spec => []IInv
<1>1. Init => IInv
  BY InitHolds
<1>2. IInv /\ [Next]_vars => IInv'
  BY NextKeeps
<1> QED BY <1>1, <1>2, PTL DEF Spec

\* "Same source + same target + same toolchain -> byte-identical payload"
\* (artifact.py), for any number of builds and callers and whatever failed,
\* timed out or was left behind, as long as a directory serves one build.
THEOREM SameInputsSameProduct ==
  ASSUME Careful
  PROVE  Spec => []ProductsAreFunctions
<1>1. IInv => ProductsAreFunctions
  BY DEF IInv, Sound
<1> QED BY <1>1, Inductive, PTL

\* The manifest of a cross build (builder_cross.py) names the compiler that
\* made the payload, and says that its hash was compared if and only if it was.
THEOREM ManifestIsTrue ==
  ASSUME Careful
  PROVE  Spec => []ManifestNamesCompiler
<1>1. IInv => ManifestNamesCompiler
  BY DEF IInv, Sound
<1> QED BY <1>1, Inductive, PTL

\* What build_cross_deps (builder_deps.py) hashes are all its archives, and
\* none of the times at which they were made.
THEOREM ArchiveHashesAreStable ==
  ASSUME Careful
  PROVE  Spec => []DepHashesReproducible
<1>1. IInv => DepHashesReproducible
  BY DEF IInv, Sound
<1> QED BY <1>1, Inductive, PTL

\* No build reads as its product what an earlier one has left (builder.py,
\* builder_cross.py, c_runtime.py, deploy.py).
THEOREM NothingStaleIsRead ==
  ASSUME Careful
  PROVE  Spec => []ProductsAreFresh
<1>1. ASSUME IInv PROVE ProductsAreFresh
  <2> SUFFICES ASSUME NEW p \in Procs, At(p, "read"), job[p].kind # "deps"
               PROVE  Product(job[p]) \in wrote[p]
    BY DEF ProductsAreFresh
  <2>1. PICK j \in Jobs : job[p] = j /\ Active(p, j) /\ Spot(p, j, "read")
    BY <1>1, Running, Busies, Spots
  <2>2. Doing(p, j) /\ j.kind # "deps"
    BY <2>1 DEF Active
  <2>3. CASE j.kind = "host"
    BY <2>1, <2>2, <2>3 DEF Spot, HostSpot, Doing, HostAt, Whole
  <2>4. CASE j.kind = "cross"
    BY <2>1, <2>2, <2>4 DEF Spot, CrossSpot, Doing, CrossAt, Whole
  <2>5. CASE j.kind = "launcher"
    <3>1. pc[p] = 6
      BY <2>1, <2>5 DEF Spot, LauncherSpot
    <3>2. Whole(p, j, tool)
      BY <2>2, <2>5, <3>1 DEF Doing, LauncherAt
    <3> QED BY <2>1, <3>2 DEF Whole
  <2>6. CASE j.kind = "runtime"
    <3>1. pc[p] = n + 5 /\ pc[p] > n + 4 /\ pc[p] > 2
      BY <2>1, <2>6, Lengths DEF Spot, RuntimeSpot
    <3>2. RuntimeAt(p, j)
      BY <2>2, <2>6 DEF Doing
    <3>3. Whole(p, j, tool)
      BY <3>1, <3>2 DEF RuntimeAt
    <3> QED BY <2>1, <3>3 DEF Whole
  <2> QED BY <2>2, <2>3, <2>4, <2>5, <2>6, KindsOf
<1> QED BY <1>1, Inductive, PTL
=============================================================================
