----------------------------- MODULE RigidBody -----------------------------
(***************************************************************************)
(* lowering/pinocchio_rbd.py: generate_dynamics reads a robot description  *)
(* and emits its forward dynamics, with the articulated-body algorithm     *)
(* over a tree that it extracts from a compiled MuJoCo model or from a     *)
(* Pinocchio one.                                                          *)
(*                                                                         *)
(* Space is a line with its affine maps instead of three dimensions with   *)
(* rigid motions: a motion is a pair (w, v), a revolute joint moves along  *)
(* (1, 0), a prismatic one along (0, 1). Transforms do not commute, cross  *)
(* products do not vanish and transforms preserve them, so every term of   *)
(* the recursion counts. Numbers are modulo the prime P; an expression in  *)
(* q, v and tau is evaluated at the one point a description names.         *)
(***************************************************************************)
EXTENDS Matrices, FiniteSets

CONSTANTS
  Robots,      \* descriptions: sequences of bodies, parents before children
  Backends,    \* the backends callers ask for
  Lengths      \* lengths of the armature and damping vectors callers pass, 0 for none

\* parent 0 is the world. joints are the types of the joints between a body
\* and its parent; mass, com and ic give its inertia, shift and scale its
\* frame in its parent's; q, qd, tau, armature and damping are its joint's. A
\* vector of a caller, when it is as long as nv, holds the robot's own values.
ASSUME RobotAssumption ==
  \A R \in Robots : \A b \in DOMAIN R :
    R[b].parent \in 0..(b - 1) /\ R[b].offset \in BOOLEAN

VARIABLES
  robot,   \* the description, <<>> before it is read
  stage,   \* "none", "pass1", "pass2", "pass3", "emitted", "wrapped", "rejected"
  tree,    \* the list of moving bodies
  step,    \* the index j of the running pass
  vel, cor, IA, pA, U, D, uacc, acc, qdd,   \* the lists of the three passes
  dofs,    \* nv, as the model counts it
  source,  \* tree_source
  geared,  \* is the armature of the joints among the data?
  damped   \* is their damping?
lists == <<vel, cor, IA, pA, U, D, uacc, acc, qdd>>
rbdVars == <<robot, stage, tree, step, lists, dofs, source, geared, damped>>

-----------------------------------------------------------------------------
(***************************************************************************)
(* Spatial algebra.                                                        *)
(***************************************************************************)
Mod(m) == Grid(Rows(m), Cols(m), LAMBDA i, j : m[i][j] % P)
Plus(a, b) == Entrywise(LAMBDA x, y : (x + y) % P, a, b)
Minus(a, b) == Entrywise(LAMBDA x, y : (x - y) % P, a, b)
Times(a, b) == MTimes(a, b)
DividedBy(a, d) == Entrywise(LAMBDA x, y : Over(x, y), a, d)
Zero == <<<<0>>, <<0>>>>

xrot(s) == <<<<1, 0>>, <<0, s>>>>
xtrans(r) == Mod(<<<<1, 0>>, <<-r, 1>>>>)
spatial_inertia(m, c, ic) == Mod(<<<<ic + m * c * c, m * c>>, <<m * c, m>>>>)
crm(m) == Mod(<<<<0, 0>>, <<-m[2][1], m[1][1]>>>>)
rot_axis(angle) == (angle % (P - 1)) + 1   \* some scale, never 0
Gravity == <<<<0>>, <<P - 3>>>>
Minus0(m) == Minus(Zero, m)

\* _joint_type_axis and the motion subspace.
Kind(type) == CASE type = "hinge" -> "R" [] type = "slide" -> "P"
Subspace(kind) == IF kind = "R" THEN <<<<1>>, <<0>>>> ELSE <<<<0>>, <<1>>>>
JointTransform(kind, q) == IF kind = "R" THEN xrot(rot_axis(q)) ELSE xtrans(q)

-----------------------------------------------------------------------------
(***************************************************************************)
(* The tree.                                                               *)
(***************************************************************************)
local_X(R, b) == Times(xrot(R[b].scale), xtrans(R[b].shift))
body_spatial_inertia(R, b) == spatial_inertia(R[b].mass, R[b].com, R[b].ic)

Moving(R) == {b \in DOMAIN R : Len(R[b].joints) = 1}
Index(R, b) == Cardinality({x \in Moving(R) : x <= b})

\* The nearest body above b that is not fixed, and the transform from there;
\* 0 stands for the world and for a body that is not in the list.
ancestor(R, b) ==
  LET up[x \in DOMAIN R] ==
        LET p == R[x].parent IN
        IF p = 0 \/ Len(R[p].joints) > 0
        THEN [parent |-> IF p \in Moving(R) THEN Index(R, p) ELSE 0, X |-> local_X(R, x)]
        ELSE [parent |-> up[p].parent, X |-> Times(local_X(R, x), up[p].X)]
  IN up[b]

\* A fixed body's inertia goes to its moving ancestor; the base's never moves.
Folded(R, k, own) ==
  LET Fixed == {b \in DOMAIN R : R[b].joints = <<>> /\ ancestor(R, b).parent = k}
      add[n \in 0..Len(R)] ==
        IF n = 0 THEN own
        ELSE IF n \notin Fixed THEN add[n - 1]
        ELSE LET X == ancestor(R, n).X IN
             Plus(add[n - 1],
                  Times(Times(Transpose(X), body_spatial_inertia(R, n)), X))
  IN add[Len(R)]

_extract_tree_from_mujoco(R) ==
  [k \in 1..Cardinality(Moving(R)) |->
     LET b == CHOOSE x \in Moving(R) : Index(R, x) = k
         kind == Kind(R[b].joints[1])
     IN [parent |-> ancestor(R, b).parent, XT |-> ancestor(R, b).X, kind |-> kind,
         S |-> Subspace(kind), I |-> Folded(R, k, body_spatial_inertia(R, b)), body |-> b]]

\* Pinocchio has folded fixed bodies into joints itself: of its models, those
\* without a fixed body are the ones that can be written down here.
_extract_tree(R) ==
  [k \in 1..Len(R) |->
     LET kind == Kind(R[k].joints[1]) IN
     [parent |-> R[k].parent, XT |-> local_X(R, k), kind |-> kind,
      S |-> Subspace(kind), I |-> body_spatial_inertia(R, k), body |-> k]]

\* Coordinates and degrees of freedom that a joint type has.
Positions == [hinge |-> 1, slide |-> 1, ball |-> 4, free |-> 7]
Freedoms == [hinge |-> 1, slide |-> 1, ball |-> 3, free |-> 6]
CountOf(R, size) ==
  LET all[n \in 0..Len(R)] ==
        LET own[i \in 0..2] ==
              IF i = 0 THEN 0
              ELSE own[i - 1] + (IF i \in DOMAIN R[n].joints THEN size[R[n].joints[i]] ELSE 0)
        IN IF n = 0 THEN 0 ELSE all[n - 1] + own[2]
  IN all[Len(R)]

_checked_vector(length, n) == length \in {0, n}

-----------------------------------------------------------------------------
(***************************************************************************)
(* Reading a description.                                                  *)
(***************************************************************************)
Start(R, t) ==
  /\ robot' = R /\ tree' = t /\ stage' = "pass1" /\ step' = 1
  /\ IA' = [k \in DOMAIN t |-> t[k].I]
  /\ UNCHANGED <<vel, cor, pA, U, D, uacc, acc, qdd>>

End(R, s) == robot' = R /\ stage' = s /\ UNCHANGED <<tree, step, lists>>

\* Pinocchio's own expression, taken as correct: only its size matters here.
_emit_pinocchio_casadi(R) == End(R, "wrapped")

\* The compiled model brings armature and damping with it.
_generate_from_mujoco ==
  /\ stage = "none"
  /\ \E R \in Robots, backend \in Backends, arm, damp \in Lengths :
       /\ source' = "mujoco" /\ dofs' = CountOf(R, Freedoms)
       /\ geared' = TRUE /\ damped' = TRUE
       /\ IF \/ backend = "pinocchio-casadi"
             \/ CountOf(R, Positions) # dofs'
             \/ \E b \in Moving(R) : R[b].offset
             \/ ~_checked_vector(arm, dofs') \/ ~_checked_vector(damp, dofs')
          THEN End(R, "rejected")
          ELSE Start(R, _extract_tree_from_mujoco(R))

\* Pinocchio's parser brings neither; its bindings may be there or not.
_generate_from_pinocchio ==
  /\ stage = "none"
  /\ \E R \in Robots, backend \in Backends, arm, damp \in Lengths, bindings \in BOOLEAN :
       LET chosen == IF backend # "auto" THEN backend
                     ELSE IF bindings THEN "pinocchio-casadi" ELSE "jaxility-aba"
       IN /\ \A b \in DOMAIN R : Len(R[b].joints) = 1
          /\ source' = "pinocchio" /\ dofs' = CountOf(R, Freedoms)
          /\ geared' = (arm # 0) /\ damped' = (damp # 0)
          /\ IF \/ CountOf(R, Positions) # dofs'
                \/ ~_checked_vector(arm, dofs') \/ ~_checked_vector(damp, dofs')
                \/ chosen = "pinocchio-casadi" /\ ~bindings
             THEN End(R, "rejected")
             ELSE IF chosen = "pinocchio-casadi" THEN _emit_pinocchio_casadi(R)
             ELSE Start(R, _extract_tree(R))

-----------------------------------------------------------------------------
(***************************************************************************)
(* _emit_jaxility_aba: three passes over the tree.                         *)
(***************************************************************************)
N == Len(tree)
Joint(j) == robot[tree[j].body]
xup(j) == Times(JointTransform(tree[j].kind, Joint(j).q), tree[j].XT)
Damping(b) == IF damped THEN robot[b].damping ELSE 0
Armature(b) == IF geared THEN robot[b].armature ELSE 0
tau(j) == (Joint(j).tau - Damping(tree[j].body) * Joint(j).qd) % P
S(j) == tree[j].S
Set(list, j, x) == [k \in DOMAIN list \union {j} |-> IF k = j THEN x ELSE list[k]]

Pass1 ==
  /\ stage = "pass1" /\ step <= N
  /\ LET j  == step
         p  == tree[j].parent
         vJ == Times(S(j), Scalar(Joint(j).qd))
         v  == Plus(Times(xup(j), IF p = 0 THEN Zero ELSE vel[p]), vJ)
     IN /\ vel' = Set(vel, j, v)
        /\ cor' = Set(cor, j, Times(crm(v), vJ))
        /\ pA' = Set(pA, j, Minus0(Times(Times(Transpose(crm(v)), tree[j].I), v)))
  /\ step' = step + 1
  /\ UNCHANGED <<robot, stage, tree, IA, U, D, uacc, acc, qdd, dofs, source, geared, damped>>

\* Deviation: the sweep starts at the base, so parents go before their children.
Pass2Forward ==
  /\ stage = "pass2" /\ step >= 1
  /\ LET j  == N + 1 - step
         p  == tree[j].parent
         Uj == Times(IA[j], S(j))
         Dj == Plus(Times(Transpose(S(j)), Uj), Scalar(Armature(tree[j].body)))
         uj == Minus(Scalar(tau(j)), Times(Transpose(S(j)), pA[j]))
         Ia == Minus(IA[j], DividedBy(Times(Uj, Transpose(Uj)), Dj))
         pa == Plus(Plus(pA[j], Times(Ia, cor[j])), Times(Uj, DividedBy(uj, Dj)))
         Xt == Transpose(xup(j))
     IN /\ U' = Set(U, j, Uj) /\ D' = Set(D, j, Dj) /\ uacc' = Set(uacc, j, uj)
        /\ IF p = 0 THEN UNCHANGED <<IA, pA>>
           ELSE /\ IA' = [IA EXCEPT ![p] = Plus(@, Times(Times(Xt, Ia), xup(j)))]
                /\ pA' = [pA EXCEPT ![p] = Plus(@, Times(Xt, pa))]
  /\ step' = step - 1
  /\ UNCHANGED <<robot, stage, tree, vel, cor, acc, qdd, dofs, source, geared, damped>>

Pass2 ==
  /\ stage = "pass2" /\ step >= 1
  /\ LET j  == step
         p  == tree[j].parent
         Uj == Times(IA[j], S(j))
         Dj == Plus(Times(Transpose(S(j)), Uj), Scalar(Armature(tree[j].body)))
         uj == Minus(Scalar(tau(j)), Times(Transpose(S(j)), pA[j]))
         Ia == Minus(IA[j], DividedBy(Times(Uj, Transpose(Uj)), Dj))
         pa == Plus(Plus(pA[j], Times(Ia, cor[j])), Times(Uj, DividedBy(uj, Dj)))
         Xt == Transpose(xup(j))
     IN /\ U' = Set(U, j, Uj) /\ D' = Set(D, j, Dj) /\ uacc' = Set(uacc, j, uj)
        /\ IF p = 0 THEN UNCHANGED <<IA, pA>>
           ELSE /\ IA' = [IA EXCEPT ![p] = Plus(@, Times(Times(Xt, Ia), xup(j)))]
                /\ pA' = [pA EXCEPT ![p] = Plus(@, Times(Xt, pa))]
  /\ step' = step - 1
  /\ UNCHANGED <<robot, stage, tree, vel, cor, acc, qdd, dofs, source, geared, damped>>

Pass3 ==
  /\ stage = "pass3" /\ step <= N
  /\ LET j  == step
         p  == tree[j].parent
         at == Plus(Times(xup(j), IF p = 0 THEN Minus0(Gravity) ELSE acc[p]), cor[j])
         dd == DividedBy(Minus(uacc[j], Times(Transpose(U[j]), at)), D[j])
     IN /\ acc' = Set(acc, j, Plus(at, Times(S(j), dd)))
        /\ qdd' = Set(qdd, j, dd[1][1])
  /\ step' = step + 1
  /\ UNCHANGED <<robot, stage, tree, vel, cor, IA, pA, U, D, uacc, dofs, source, geared, damped>>

\* From one loop to the next.
NextPass ==
  /\ \/ stage = "pass1" /\ step > N /\ stage' = "pass2" /\ step' = N
     \/ stage = "pass2" /\ step < 1 /\ stage' = "pass3" /\ step' = 1
     \/ stage = "pass3" /\ step > N /\ stage' = "emitted" /\ step' = 0
  /\ UNCHANGED <<robot, tree, lists, dofs, source, geared, damped>>

RigidBodyInit ==
  /\ robot = <<>> /\ stage = "none" /\ tree = <<>> /\ step = 0 /\ dofs = 0
  /\ vel = <<>> /\ cor = <<>> /\ IA = <<>> /\ pA = <<>> /\ U = <<>> /\ D = <<>>
  /\ uacc = <<>> /\ acc = <<>> /\ qdd = <<>>
  /\ source = "none" /\ geared = FALSE /\ damped = FALSE

RigidBodyNext ==
  _generate_from_mujoco \/ _generate_from_pinocchio \/ Pass1 \/ Pass2 \/ Pass3 \/ NextPass

-----------------------------------------------------------------------------
(***************************************************************************)
(* Properties: the equations of motion of the described robot, body by     *)
(* body, fixed ones included, with no tree and no articulated inertia.     *)
(***************************************************************************)
HasJoint(b) == robot[b].joints # <<>>
Acceleration(b) == IF HasJoint(b) THEN qdd[Index(robot, b)] ELSE 0
BodyX(b) ==
  IF HasJoint(b)
  THEN Times(JointTransform(Kind(robot[b].joints[1]), robot[b].q), local_X(robot, b))
  ELSE local_X(robot, b)
Axis(b) == IF HasJoint(b) THEN Subspace(Kind(robot[b].joints[1])) ELSE Zero

Velocities ==
  LET v[b \in 0..Len(robot)] ==
        IF b = 0 THEN Zero
        ELSE Plus(Times(BodyX(b), v[robot[b].parent]), Times(Axis(b), Scalar(robot[b].qd)))
  IN v
Accelerations ==
  LET a[b \in 0..Len(robot)] ==
        IF b = 0 THEN Minus0(Gravity)
        ELSE Plus(Plus(Times(BodyX(b), a[robot[b].parent]),
                       Times(Axis(b), Scalar(Acceleration(b)))),
                  Times(crm(Velocities[b]), Times(Axis(b), Scalar(robot[b].qd))))
  IN a
\* What a body and everything it carries need to be moved that way.
Forces ==
  LET n == Len(robot)
      Own(b) == LET I == body_spatial_inertia(robot, b) IN
                Minus(Times(I, Accelerations[b]),
                      Times(Times(Transpose(crm(Velocities[b])), I), Velocities[b]))
      f[b \in 1..n] ==
        LET sum[c \in b..n] ==
              IF c = b THEN Own(b)
              ELSE IF robot[c].parent # b THEN sum[c - 1]
              ELSE Plus(sum[c - 1], Times(Transpose(BodyX(c)), f[c]))
        IN sum[n]
  IN f

\* The emitted accelerations are those at which every joint's torque, less
\* its damping, balances the inertia of all it carries and of its rotor: the
\* three passes and the folding of fixed bodies solve the equations of motion,
\* on every tree. Through MuJoCo the armature is the robot's, always; through
\* Pinocchio it is what the caller passes.
EquationsOfMotion ==
  (stage = "emitted" /\ \A j \in DOMAIN D : D[j] # Scalar(0)) =>
    \A b \in DOMAIN robot : HasJoint(b) =>
      (robot[b].tau - Damping(b) * robot[b].qd) % P
        = (Times(Transpose(Axis(b)), Forces[b])[1][1]
           + (IF source = "mujoco" \/ geared THEN robot[b].armature ELSE 0) * Acceleration(b)) % P
=============================================================================
