--------------------------- MODULE LoweringProofs ---------------------------
(***************************************************************************)
(* The lowering pipeline for every function, template and problem.         *)
(***************************************************************************)
EXTENDS Lowering, WellFoundedInduction, FiniteSetTheorems, TLAPS

(***************************************************************************)
(* References: what set_reference_trajectory accepts is what is tracked.   *)
(***************************************************************************)

\* The horizon and the references travel from the specification to the problem;
\* no push is cut short before there is a solver; the stages track what they should.
TrackInv ==
  /\ phase = "spec" => spec.N = Horizon
  /\ Built => ocp.N = Horizon /\ ocp.yref = spec.xref \o spec.uref /\ ocp.yrefe = spec.xref
  /\ phase # "solver" => cut = {}
  /\ TracksWhatWasAccepted

\* What the six ways to a specification have in common.
LEMMA SpecHorizon ==
  ASSUME NEW Q, NEW R, NEW Qe, NEW xref, NEW uref, NEW x0, NEW ul, NEW uu, NEW xl, NEW xu,
         NEW s \in OcpTemplateSpec(Q, R, Qe, xref, uref, x0, ul, uu, xl, xu)
  PROVE  s.N = Horizon
BY DEF OcpTemplateSpec

LEMMA LqrHorizon ==
  ASSUME NEW d, NEW Q, NEW R, NEW xref, NEW uref, NEW x0, NEW opt,
         NEW s \in lqr(d, Q, R, xref, uref, x0, opt)
  PROVE  s.N = Horizon
BY SpecHorizon DEF lqr

\* Taking a specification of the right horizon.
LEMMA TakeTracks ==
  ASSUME TrackInv, NEW specs, NEW want, Take(specs, want),
         \A s \in specs : s.N = Horizon
  PROVE  TrackInv'
<1>1. phase = "dynamics" /\ phase' \in {"refused", "spec"} /\ cut' = cut
  BY DEF Take
<1>2. phase' = "spec" => spec' \in specs
  BY <1>1 DEF Take
<1> QED BY <1>1, <1>2 DEF TrackInv, Built, TracksWhatWasAccepted

LEMMA SpecsTrack ==
  ASSUME TrackInv,
         CallLqr \/ CallTracking \/ CallCentroidal \/ CallMultiContact \/ CallWbc \/ WriteSpec
  PROVE  TrackInv'
<1>1. CASE CallLqr
  BY <1>1, TakeTracks, LqrHorizon DEF CallLqr
<1>2. CASE CallTracking
  BY <1>2, TakeTracks, LqrHorizon DEF CallTracking, tracking_mpc
<1>3. CASE CallCentroidal
  BY <1>3, TakeTracks, LqrHorizon DEF CallCentroidal, centroidal_mpc
<1>4. CASE CallMultiContact
  BY <1>4, TakeTracks, LqrHorizon DEF CallMultiContact, multi_contact_centroidal_mpc, centroidal_mpc
<1>5. CASE CallWbc
  <2>1. ASSUME NEW tasks, NEW x0, NEW opt, NEW s \in wbc(dyn, tasks, x0, opt)
        PROVE s.N = Horizon
    BY <2>1, SpecHorizon DEF wbc
  <2> QED BY <1>5, <2>1, TakeTracks DEF CallWbc
<1>6. CASE WriteSpec
  BY <1>6, TakeTracks, SpecHorizon DEF WriteSpec
<1> QED BY <1>1, <1>2, <1>3, <1>4, <1>5, <1>6

\* A push that gets to stage k has got to the stages before it.
LEMMA ReachesDown ==
  ASSUME NEW n \in Nat, NEW k \in 0..n, NEW push, Reaches(push, n)
  PROVE  Reaches(push, k)
<1>1. 0..k \subseteq 0..n
  BY SMT
<1> QED BY <1>1 DEF Reaches

\* A stage tracks what was accepted, or what a push that was cut short left there.
Tracks(k) ==
  LET came == {push \in cut : Reaches(push, k)} IN
  IF came = {} THEN yref[k] = Reference(given, k)
  ELSE k < ocp.N /\ yref[k] \in {Reference(push, k) : push \in came}

LEMMA TrackSame ==
  ASSUME TrackInv, UNCHANGED <<phase, spec, ocp, yref, given, cut>>
  PROVE  TrackInv'
<1>1. /\ phase' = phase /\ spec' = spec /\ ocp' = ocp
      /\ yref' = yref /\ given' = given /\ cut' = cut
  OBVIOUS
<1>2. ASSUME NEW k PROVE {push \in cut : Reaches(push, k)}' = {push \in cut : Reaches(push, k)}
  BY <1>1 DEF Reaches
<1>3. ASSUME NEW k
      PROVE  /\ Reference(given, k)' = Reference(given, k)
             /\ \A push : Reference(push, k)' = Reference(push, k)
  BY <1>1 DEF Reference
<1>4. ASSUME phase = "solver", NEW k \in 0..ocp.N PROVE Tracks(k)'
  <2>1. Tracks(k)
    BY <1>4 DEF TrackInv, TracksWhatWasAccepted, Tracks
  <2> QED BY <1>1, <1>2, <1>3, <2>1 DEF Tracks
<1>5. TracksWhatWasAccepted'
  BY <1>1, <1>4 DEF TracksWhatWasAccepted, Tracks
<1> QED BY <1>1, <1>5 DEF TrackInv, Built

LEMMA PushTracks ==
  ASSUME TrackInv, PushReferences
  PROVE  TrackInv'
<1>1. PICK traj \in Trajectories, uref \in Vectors \union {None} :
        set_reference_trajectory(traj, uref)
  BY DEF PushReferences
<1> DEFINE n == ocp.N
           new == [traj |-> traj, u |-> Default(uref, Zeros(Len(spec.R)))]
<1>2. phase = "solver" /\ UNCHANGED <<dyn, phase, asked, spec, ocp>>
  BY <1>1 DEF set_reference_trajectory
<1>3. n \in Nat /\ n = ocp'.N
  BY <1>2, OcpAssumption DEF TrackInv, Built
<1>4. \A k \in 0..n : Tracks(k)
  BY <1>2 DEF TrackInv, TracksWhatWasAccepted, Tracks
<1>5. /\ \A push, k : Reaches(push, k)' <=> Reaches(push, k)
      /\ \A push, k : Reference(push, k)' = Reference(push, k)
  BY <1>2 DEF Reaches, Reference
<1>6. \/ UNCHANGED <<yref, given, cut>>
      \/ /\ yref' = [k \in 0..n |-> IF Reaches(new, k) THEN Reference(new, k) ELSE yref[k]]
         /\ IF Reaches(new, n) THEN given' = new /\ cut' = {}
            ELSE cut' = cut \union {new} /\ UNCHANGED given
  BY <1>1 DEF set_reference_trajectory
<1> HIDE DEF n, new
<1>7. CASE UNCHANGED <<yref, given, cut>>
  BY <1>2, <1>7, TrackSame
<1>8. ASSUME yref' = [k \in 0..n |-> IF Reaches(new, k) THEN Reference(new, k) ELSE yref[k]],
             IF Reaches(new, n) THEN given' = new /\ cut' = {}
             ELSE cut' = cut \union {new} /\ UNCHANGED given,
             NEW k \in 0..n
      PROVE  LET came == {push \in cut' : Reaches(push, k)} IN
             IF came = {} THEN yref'[k] = Reference(given', k)
             ELSE k < n /\ yref'[k] \in {Reference(push, k) : push \in came}
  <2> DEFINE came == {push \in cut' : Reaches(push, k)}
  <2>1. CASE Reaches(new, n)
    <3>1. Reaches(new, k) /\ given' = new /\ cut' = {}
      BY <1>3, <1>8, <2>1, ReachesDown
    <3> QED BY <1>8, <3>1
  <2>2. CASE ~Reaches(new, n) /\ Reaches(new, k)
    <3>1. k < n
      BY <1>3, <2>2
    <3>2. new \in came
      BY <1>8, <2>2
    <3>3. yref'[k] = Reference(new, k)
      BY <1>8, <2>2
    <3> QED BY <3>1, <3>2, <3>3
  <2>3. CASE ~Reaches(new, n) /\ ~Reaches(new, k)
    <3>1. came = {push \in cut : Reaches(push, k)} /\ given' = given /\ yref'[k] = yref[k]
      BY <1>8, <2>3
    <3> QED BY <1>4, <3>1 DEF Tracks, n
  <2> QED BY <2>1, <2>2, <2>3
<1>9. CASE ~UNCHANGED <<yref, given, cut>>
  <2>1. \A k \in 0..n :
          LET came == {push \in cut' : Reaches(push, k)} IN
          IF came = {} THEN yref'[k] = Reference(given', k)
          ELSE k < n /\ yref'[k] \in {Reference(push, k) : push \in came}
    BY <1>6, <1>8, <1>9
  <2>2. TracksWhatWasAccepted'
    BY <1>2, <1>3, <2>1 DEF TracksWhatWasAccepted, Reaches, Reference
  <2> QED BY <1>2, <2>2 DEF TrackInv, Built
<1> QED BY <1>7, <1>9

\* A new solver tracks the references of its problem.
LEMMA MakeTracks ==
  ASSUME TrackInv, MakeSolver
  PROVE  TrackInv'
<1>1. /\ phase = "ocp" /\ phase' = "solver" /\ UNCHANGED <<dyn, asked, spec, ocp, cut>>
      /\ yref' = [k \in 0..ocp.N |-> IF k = ocp.N THEN ocp.yrefe ELSE ocp.yref]
      /\ given' = [traj |-> [k \in 1..(ocp.N + 1) |-> spec.xref], u |-> spec.uref]
  BY DEF MakeSolver
<1>2. /\ ocp.N = Horizon /\ cut = {}
      /\ ocp.yref = spec.xref \o spec.uref /\ ocp.yrefe = spec.xref
  BY <1>1 DEF TrackInv, Built
<1>3. ASSUME NEW k \in 0..ocp.N PROVE yref'[k] = Reference(given', k)
  <2>1. k + 1 \in 1..(ocp.N + 1)
    BY <1>2, OcpAssumption
  <2> QED BY <1>1, <1>2, <2>1 DEF Reference
<1>4. TracksWhatWasAccepted'
  BY <1>1, <1>2, <1>3 DEF TracksWhatWasAccepted, Reference
<1> QED BY <1>1, <1>2, <1>4 DEF TrackInv, Built

\* Every step keeps TrackInv.
LEMMA TrackNext == TrackInv /\ [Next]_vars => TrackInv'
<1> SUFFICES ASSUME TrackInv, [Next]_vars PROVE TrackInv'
  OBVIOUS
<1>1. CASE UNCHANGED ocpVars
  BY <1>1, TrackSame DEF ocpVars
<1>2. ASSUME NEW d, Deliver(d) PROVE TrackInv'
  BY <1>2 DEF Deliver, TrackInv, Built, TracksWhatWasAccepted
<1>3. CASE CallLqr \/ CallTracking \/ CallCentroidal \/ CallMultiContact \/ CallWbc \/ WriteSpec
  BY <1>3, SpecsTrack
<1>4. CASE build_ocp
  <2>1. phase = "spec" /\ cut' = cut /\ spec' = spec /\ phase' \in {"ocp", "refused"}
        /\ (phase' = "ocp" => ocp' = OcpOf(dyn, spec))
    BY <1>4 DEF build_ocp
  <2>2. LET o == OcpOf(dyn, spec) IN
        o.N = spec.N /\ o.yref = spec.xref \o spec.uref /\ o.yrefe = spec.xref
    BY DEF OcpOf
  <2> QED BY <2>1, <2>2 DEF TrackInv, Built, TracksWhatWasAccepted
<1>5. CASE MakeSolver
  BY <1>5, MakeTracks
<1>6. CASE PushReferences
  BY <1>6, PushTracks
<1>7. CASE UNCHANGED vars
  BY <1>1, <1>7 DEF vars
<1>8. CASE DeliverTranslated
  BY <1>2, <1>8 DEF DeliverTranslated
<1>9. CASE DeliverGenerated
  BY <1>2, <1>9 DEF DeliverGenerated
<1>10. CASE ForgetTranslation
  BY <1>1, <1>10 DEF ForgetTranslation
<1> QED BY <1>1, <1>3, <1>4, <1>5, <1>6, <1>7, <1>8, <1>9, <1>10 DEF Next, OcpNext

\* Every stage of a live solver tracks the trajectory accepted last, or the
\* problem's reference before the first. A push that is cut short disturbs the
\* stages that it came to and no other, and never the terminal one: these track
\* one of the pushes cut short since, until the next is accepted. For every
\* horizon, problem and sequence of pushes.
THEOREM AcceptedIsTracked == Spec => []TracksWhatWasAccepted
<1>1. Init => TrackInv
  BY DEF Init, OcpInit, TrackInv, Built, TracksWhatWasAccepted
<1>2. TrackInv => TracksWhatWasAccepted
  BY DEF TrackInv
<1> QED BY <1>1, <1>2, TrackNext, PTL DEF Spec

(***************************************************************************)
(* Bounds: what a caller asks of a template reaches every stage.           *)
(***************************************************************************)

\* The bounds of a specification are those its caller has in mind.
Meant(s, want) ==
  /\ want.ubox # None => Box(s.ul, s.uu) = want.ubox
  /\ want.xbox # None => Box(s.xl, s.xu) = want.xbox
  /\ \A f \in want.swing, i \in 1..3 :
       /\ Box(s.ul, s.uu)[1][3 * (f - 1) + i] = 0
       /\ Box(s.ul, s.uu)[2][3 * (f - 1) + i] = 0

\* Those of the problem are those of its specification.
BoxInv ==
  /\ phase \in {"spec", "ocp", "solver"} => Meant(spec, asked)
  /\ Built => /\ ocp.bu = Box(spec.ul, spec.uu)
              /\ ocp.bx = Box(spec.xl, spec.xu) /\ ocp.bxe = Box(spec.xl, spec.xu)

LEMMA SpecBounds ==
  ASSUME NEW Q, NEW R, NEW Qe, NEW xref, NEW uref, NEW x0, NEW ul, NEW uu, NEW xl, NEW xu,
         NEW s \in OcpTemplateSpec(Q, R, Qe, xref, uref, x0, ul, uu, xl, xu)
  PROVE  s.ul = ul /\ s.uu = uu /\ s.xl = xl /\ s.xu = xu
BY DEF OcpTemplateSpec

LEMMA LqrBounds ==
  ASSUME NEW d, NEW Q, NEW R, NEW xref, NEW uref, NEW x0, NEW opt,
         NEW s \in lqr(d, Q, R, xref, uref, x0, opt)
  PROVE  /\ s.ul = Lower(opt.ubox) /\ s.uu = Upper(opt.ubox)
         /\ s.xl = Lower(opt.xbox) /\ s.xu = Upper(opt.xbox)
BY SpecBounds DEF lqr

\* Taking a box apart and putting it together again.
LEMMA BoxAgain ==
  ASSUME NEW box \in Boxes
  PROVE  Box(Lower(box), Upper(box)) = box
<1>1. box = <<box[1], box[2]>> /\ box[1] # <<>> /\ box[2] # <<>>
  BY BoxAssumption
<1>2. box # <<>>
  BY <1>1
<1> QED BY <1>1, <1>2 DEF Box, Lower, Upper, None

\* The box of a stance holds a swing foot at zero.
LEMMA SwingBox ==
  ASSUME NEW stance \in Stances, NEW f \in {g \in DOMAIN stance : ~stance[g]}, NEW i \in 1..3
  PROVE  LET box == friction_box_bounds(stance)
             entry == 3 * (f - 1) + i
         IN /\ Box(Lower(box), Upper(box))[1][entry] = 0
            /\ Box(Lower(box), Upper(box))[2][entry] = 0
<1> DEFINE box == friction_box_bounds(stance)
           n == 3 * Len(stance)
           e == 3 * (f - 1) + i
           Foot(k) == ((k - 1) \div 3) + 1
           lower == [k \in 1..n |-> IF stance[Foot(k)] /\ ~(k % 3 = 0) THEN -2 ELSE 0]
           upper == [k \in 1..n |-> IF ~stance[Foot(k)] THEN 0 ELSE IF k % 3 = 0 THEN 3 ELSE 2]
<1>1. stance \in Seq(BOOLEAN) /\ f \in 1..Len(stance) /\ Len(stance) \in Nat /\ ~stance[f]
  BY BoxAssumption
<1>2. e \in 1..n /\ Foot(e) = f
  BY <1>1, SMT
<1>3. box = <<lower, upper>>
  BY DEF friction_box_bounds
<1>4. lower[e] = 0 /\ upper[e] = 0
  BY <1>1, <1>2
<1>5. lower # <<>> /\ upper # <<>>
  <2>1. DOMAIN lower # {} /\ DOMAIN upper # {}
    BY <1>2
  <2>2. DOMAIN <<>> = {}
    OBVIOUS
  <2> QED BY <2>1, <2>2
<1> HIDE DEF lower, upper, box, e
<1>6. Lower(box) = lower /\ Upper(box) = upper
  BY <1>3 DEF Lower, Upper, None
<1>7. Box(Lower(box), Upper(box)) = <<lower, upper>>
  BY <1>5, <1>6 DEF Box, None
<1>8. /\ Box(Lower(box), Upper(box))[1][e] = 0
      /\ Box(Lower(box), Upper(box))[2][e] = 0
  BY <1>4, <1>7
<1> QED BY <1>8 DEF box, e

\* Taking a specification that means what is asked.
LEMMA TakeMeant ==
  ASSUME BoxInv, NEW specs, NEW want, Take(specs, want),
         \A s \in specs : Meant(s, want)
  PROVE  BoxInv'
<1>1. phase' \in {"refused", "spec"}
  BY DEF Take
<1>2. phase' = "spec" => spec' \in specs /\ asked' = want
  BY DEF Take
<1>3. phase' = "spec" => Meant(spec', asked')
  BY <1>2
<1>4. Meant(spec', asked') => Meant(spec, asked)'
  BY DEF Meant, Box, None
<1> QED BY <1>1, <1>3, <1>4 DEF BoxInv, Built

\* Bounds that came through a template as they were given.
LEMMA OptionsMeant ==
  ASSUME NEW opt \in Options, NEW tasks, NEW s,
         s.ul = Lower(opt.ubox), s.uu = Upper(opt.ubox),
         s.xl = Lower(opt.xbox), s.xu = Upper(opt.xbox)
  PROVE  Meant(s, Want(tasks, opt, {}))
<1>1. opt.ubox \in Boxes \union {None} /\ opt.xbox \in Boxes \union {None}
  BY BoxAssumption
<1>2. /\ opt.ubox # None => Box(s.ul, s.uu) = opt.ubox
      /\ opt.xbox # None => Box(s.xl, s.xu) = opt.xbox
  BY <1>1, BoxAgain
<1> QED BY <1>2 DEF Meant, Want

LEMMA SpecsMeant ==
  ASSUME ~OneSided, BoxInv,
         CallLqr \/ CallTracking \/ CallCentroidal \/ CallMultiContact \/ CallWbc \/ WriteSpec
  PROVE  BoxInv'
<1>1. CASE CallLqr
  <2>1. PICK Q, R, xref \in Vectors, opt \in Options :
          Take(lqr(dyn, Q, R, xref, None, Q, opt),
               Want(<<Task(1, Q, R, xref, Zeros(Len(R)))>>, opt, {}))
    BY <1>1 DEF CallLqr
  <2>2. \A s \in lqr(dyn, Q, R, xref, None, Q, opt) : \A tasks : Meant(s, Want(tasks, opt, {}))
    BY LqrBounds, OptionsMeant
  <2> QED BY <2>1, <2>2, TakeMeant
<1>2. CASE CallTracking
  <2>1. PICK Q, R, uref \in Vectors, refs \in Trajectories \union {None, <<None>>}, opt \in Options :
          Take(tracking_mpc(dyn, Q, R, uref, Q, refs, opt),
               Want(<<Task(1, Q, R, IF refs = None THEN Zeros(Len(Q)) ELSE refs[1], uref)>>, opt, {}))
    BY <1>2 DEF CallTracking
  <2> DEFINE first == IF refs = None THEN None ELSE refs[1]
  <2>2. tracking_mpc(dyn, Q, R, uref, Q, refs, opt) \subseteq lqr(dyn, Q, R, first, uref, Q, opt)
    BY DEF tracking_mpc
  <2> HIDE DEF first
  <2>3. \A s \in lqr(dyn, Q, R, first, uref, Q, opt) : \A tasks : Meant(s, Want(tasks, opt, {}))
    BY LqrBounds, OptionsMeant
  <2>4. \A s \in tracking_mpc(dyn, Q, R, uref, Q, refs, opt) : \A tasks : Meant(s, Want(tasks, opt, {}))
    BY <2>2, <2>3
  <2> QED BY <2>1, <2>4, TakeMeant
<1>3. CASE CallCentroidal
  <2>1. PICK Q, R, wrench \in Vectors, opt \in Options :
          Take(centroidal_mpc(dyn, Q, R, None, wrench, Q, opt),
               Want(<<Task(1, Q, R, Zeros(Len(Q)), wrench)>>, opt, {}))
    BY <1>3 DEF CallCentroidal
  <2>2. \A s \in centroidal_mpc(dyn, Q, R, None, wrench, Q, opt) : \A tasks :
          Meant(s, Want(tasks, opt, {}))
    BY LqrBounds, OptionsMeant DEF centroidal_mpc
  <2> QED BY <2>1, <2>2, TakeMeant
<1>4. CASE CallMultiContact
  <2>1. PICK Q, R, target \in Vectors, stance \in Stances, Qe \in Vectors \union {None} :
          Take(multi_contact_centroidal_mpc(dyn, Q, R, target, None, Q, stance, Qe),
               Want(<<Task(1, Q, R, target, Zeros(Len(R)))>>,
                    [Qe |-> Qe, ubox |-> None, xbox |-> None], {f \in DOMAIN stance : ~stance[f]}))
    BY <1>4 DEF CallMultiContact
  <2> DEFINE want == Want(<<Task(1, Q, R, target, Zeros(Len(R)))>>,
                          [Qe |-> Qe, ubox |-> None, xbox |-> None], {f \in DOMAIN stance : ~stance[f]})
             box == friction_box_bounds(stance)
  <2>2. want.ubox = None /\ want.xbox = None /\ want.swing = {f \in DOMAIN stance : ~stance[f]}
    BY DEF Want
  <2>3. \A f \in want.swing, i \in 1..3 :
          /\ Box(Lower(box), Upper(box))[1][3 * (f - 1) + i] = 0
          /\ Box(Lower(box), Upper(box))[2][3 * (f - 1) + i] = 0
    BY <2>2, SwingBox
  <2> HIDE DEF want, box
  <2>4. ASSUME NEW s \in multi_contact_centroidal_mpc(dyn, Q, R, target, None, Q, stance, Qe)
        PROVE  Meant(s, want)
    <3>1. s.ul = Lower(box) /\ s.uu = Upper(box)
      BY <2>4, LqrBounds DEF multi_contact_centroidal_mpc, centroidal_mpc, box
    <3> QED BY <2>2, <2>3, <3>1 DEF Meant
  <2> QED BY <2>1, <2>4, TakeMeant DEF want
<1>5. CASE CallWbc
  <2>1. PICK tasks \in Tasks, x0 \in Vectors, opt \in Options :
          Take(wbc(dyn, tasks, x0, opt), Want(tasks, opt, {}))
    BY <1>5 DEF CallWbc
  <2>2. ASSUME NEW s \in wbc(dyn, tasks, x0, opt) PROVE Meant(s, Want(tasks, opt, {}))
    <3>1. /\ s.ul = Lower(opt.ubox) /\ s.uu = Upper(opt.ubox)
          /\ s.xl = Lower(opt.xbox) /\ s.xu = Upper(opt.xbox)
      BY <2>2, SpecBounds DEF wbc
    <3> QED BY <3>1, OptionsMeant
  <2> QED BY <2>1, <2>2, TakeMeant
<1>6. CASE WriteSpec
  <2>1. PICK Q, R, Qe, xref \in Vectors, box \in Boxes, l, u \in BOOLEAN :
          LET lower == IF l THEN box[1] ELSE None
              upper == IF u THEN box[2] ELSE None
              ubox == IF l \/ u THEN <<lower, upper>> ELSE None
          IN /\ l # u => OneSided
             /\ Take(OcpTemplateSpec(Q, R, Qe, xref, Zeros(Len(R)), Q, lower, upper, None, None),
                     Want(<<Task(1, Q, R, xref, Zeros(Len(R)))>>,
                          [Qe |-> Qe, ubox |-> ubox, xbox |-> None], {}))
    BY <1>6 DEF WriteSpec
  <2> DEFINE lower == IF l THEN box[1] ELSE None
             upper == IF u THEN box[2] ELSE None
             ubox == IF l \/ u THEN <<lower, upper>> ELSE None
             want == Want(<<Task(1, Q, R, xref, Zeros(Len(R)))>>,
                          [Qe |-> Qe, ubox |-> ubox, xbox |-> None], {})
  <2>2. want.ubox = ubox /\ want.xbox = None /\ want.swing = {}
    BY DEF Want
  <2>3. l = u
    BY <2>1
  <2>4. ubox # None => Box(lower, upper) = ubox
    BY <2>3, BoxAssumption DEF Box, None
  <2> HIDE DEF lower, upper, ubox, want
  <2>5. ASSUME NEW s \in OcpTemplateSpec(Q, R, Qe, xref, Zeros(Len(R)), Q, lower, upper, None, None)
        PROVE Meant(s, want)
    <3>1. s.ul = lower /\ s.uu = upper
      BY <2>5, SpecBounds
    <3> QED BY <2>2, <2>4, <3>1 DEF Meant
  <2> QED BY <2>1, <2>5, TakeMeant DEF want, ubox, lower, upper
<1> QED BY <1>1, <1>2, <1>3, <1>4, <1>5, <1>6

\* Every step keeps BoxInv.
LEMMA BoxNext == ~OneSided /\ BoxInv /\ [Next]_vars => BoxInv'
<1> SUFFICES ASSUME ~OneSided, BoxInv, [Next]_vars PROVE BoxInv'
  OBVIOUS
<1>1. CASE UNCHANGED <<phase, asked, spec, ocp>>
  BY <1>1 DEF BoxInv, Built, Meant, Box, None
<1>2. ASSUME NEW d, Deliver(d) PROVE BoxInv'
  BY <1>2 DEF Deliver, BoxInv, Built
<1>3. CASE CallLqr \/ CallTracking \/ CallCentroidal \/ CallMultiContact \/ CallWbc \/ WriteSpec
  BY <1>3, SpecsMeant
<1>4. CASE build_ocp
  <2>1. phase = "spec" /\ UNCHANGED <<asked, spec>>
    BY <1>4 DEF build_ocp
  <2>2. \/ phase' = "refused"
        \/ phase' = "ocp" /\ ocp' = OcpOf(dyn, spec)
    BY <1>4 DEF build_ocp
  <2>3. Meant(spec, asked)'
    BY <2>1 DEF BoxInv, Meant, Box, None
  <2>4. CASE phase' = "refused"
    BY <2>4 DEF BoxInv, Built
  <2>5. CASE phase' = "ocp" /\ ocp' = OcpOf(dyn, spec)
    <3>1. /\ ocp'.bu = Box(spec.ul, spec.uu)
          /\ ocp'.bx = Box(spec.xl, spec.xu) /\ ocp'.bxe = Box(spec.xl, spec.xu)
      BY <2>5 DEF OcpOf
    <3>2. spec' = spec
      BY <2>1
    <3> QED BY <2>3, <3>1, <3>2 DEF BoxInv, Built, Box, None
  <2> QED BY <2>2, <2>4, <2>5
<1>5. CASE MakeSolver
  <2>1. phase = "ocp" /\ phase' = "solver" /\ UNCHANGED <<asked, spec, ocp>>
    BY <1>5 DEF MakeSolver
  <2>2. Meant(spec, asked)'
    BY <2>1 DEF BoxInv, Meant, Box, None
  <2> QED BY <2>1, <2>2 DEF BoxInv, Built, Box, None
<1>6. CASE PushReferences
  BY <1>1, <1>6 DEF PushReferences, set_reference_trajectory
<1>7. CASE UNCHANGED ocpVars
  BY <1>1, <1>7 DEF ocpVars
<1>8. CASE UNCHANGED vars
  BY <1>7, <1>8 DEF vars
<1>9. CASE DeliverTranslated
  BY <1>2, <1>9 DEF DeliverTranslated
<1>10. CASE DeliverGenerated
  BY <1>2, <1>10 DEF DeliverGenerated
<1>11. CASE ForgetTranslation
  BY <1>7, <1>11 DEF ForgetTranslation
<1> QED BY <1>3, <1>4, <1>5, <1>6, <1>7, <1>8, <1>9, <1>10, <1>11 DEF Next, OcpNext

\* If bounds come in pairs, those of input and state that a caller gave to a
\* template or wrote into a specification hold at every stage of the problem, the
\* terminal one included, and a swing foot exerts no force: for every template,
\* bound and number of contacts.
THEOREM BoundsReachProblem ==
  ASSUME ~OneSided
  PROVE  Spec => []BoxesEnforced
<1>1. Init => BoxInv
  BY DEF Init, OcpInit, BoxInv, Built
<1>2. BoxInv => BoxesEnforced
  BY DEF BoxInv, BoxesEnforced, Meant, Built
<1>3. ~OneSided
  OBVIOUS
<1>4. BoxInv /\ [Next]_vars => BoxInv'
  BY <1>3, BoxNext
<1> QED BY <1>1, <1>2, <1>4, PTL DEF Spec

(***************************************************************************)
(* Matrices.                                                               *)
(***************************************************************************)

\* m has r rows of c numbers.
IsMatrix(m, r, c) ==
  /\ r \in Nat \ {0} /\ c \in Nat \ {0}
  /\ m \in [1..r -> [1..c -> Field]]

LEMMA SizeOf ==
  ASSUME NEW m, NEW r, NEW c, IsMatrix(m, r, c)
  PROVE  /\ Rows(m) = r /\ Cols(m) = c /\ m # Raised
         /\ \A i \in 1..r : Len(m[i]) = c
<1>1. r \in Nat \ {0} /\ c \in Nat \ {0} /\ m \in [1..r -> [1..c -> Field]]
  BY DEF IsMatrix
<1>2. \A i \in 1..r : m[i] \in [1..c -> Field]
  BY <1>1
<1>3. \A i \in 1..r : m[i] \in Seq(Field) /\ Len(m[i]) = c
  BY <1>1, <1>2
<1>4. Len(m) = r
  <2>1. m \in Seq(Seq(Field))
    BY <1>1, <1>3
  <2> QED BY <1>1, <2>1
<1>5. 1 \in 1..r
  BY <1>1
<1>6. m # <<>>
  BY <1>1, <1>4
<1> QED BY <1>3, <1>4, <1>5, <1>6 DEF Rows, Cols, Raised

\* Matrices of one size with the same entries are the same.
LEMMA SameEntries ==
  ASSUME NEW m, NEW n, NEW r, NEW c, IsMatrix(m, r, c),
         n = [i \in 1..r |-> [j \in 1..c |-> m[i][j]]]
  PROVE  n = m
<1>1. \A i \in 1..r : m[i] = [j \in 1..c |-> m[i][j]]
  BY DEF IsMatrix
<1>2. m = [i \in 1..r |-> m[i]]
  BY DEF IsMatrix
<1>3. [i \in 1..r |-> m[i]] = [i \in 1..r |-> [j \in 1..c |-> m[i][j]]]
  BY <1>1
<1> QED BY <1>2, <1>3

\* Numbers modulo P.
LEMMA FieldOf ==
  /\ 0 \in Field /\ 1 \in Field
  /\ \A x \in Int : x % P \in Field
  /\ \A x \in Field : x \in Int /\ x % P = x
BY PrimeAssumption DEF Field

LEMMA OverIn ==
  ASSUME NEW a \in Field, NEW b \in Field
  PROVE  Over(a, b) \in Field
<1>1. CASE b = 0
  BY <1>1, FieldOf DEF Over
<1>2. CASE b # 0
  <2>1. (CHOOSE i \in Field : (b * i) % P = 1) \in Field
    BY <1>2, PrimeAssumption
  <2> DEFINE inv == CHOOSE i \in Field : (b * i) % P = 1
  <2>2. inv \in Int /\ a \in Int
    BY <2>1, FieldOf
  <2>3. Over(a, b) = (a * inv) % P
    BY <1>2 DEF Over
  <2> HIDE DEF inv
  <2>4. a * inv \in Int
    BY <2>2
  <2> QED BY <2>3, <2>4, FieldOf
<1> QED BY <1>1, <1>2

(***************************************************************************)
(* Induction, on sets instead of predicates, which the provers can use.    *)
(***************************************************************************)

\* A set of numbers that is not empty has a least one.
LEMMA Least ==
  ASSUME NEW T \in SUBSET Nat, T # {}
  PROVE  \E n \in T : \A m \in T : n <= m
<1>1. PICK R : IsWellFoundedOn(R, Nat) /\ \A x, y \in Nat : x < y => <<x, y>> \in R
  <2>1. \A x, y \in Nat : x < y => <<x, y>> \in OpToRel(<, Nat)
    BY DEF OpToRel
  <2> QED BY <2>1, NatLessThanWellFounded, Zenon
<1>2. IsWellFoundedOn(R, Nat)
  BY <1>1
<1>3. \E x \in T : \A y \in T : ~ (<<y, x>> \in R)
  BY <1>2, WFMin
<1>4. PICK n \in T : \A y \in T : ~ (<<y, n>> \in R)
  BY <1>3
<1>5. \A m \in T : ~ (m < n)
  BY <1>1, <1>4
<1> QED BY <1>5

\* What holds of 0 and of the next number after each holds up to n.
LEMMA UpTo ==
  ASSUME NEW n \in Nat, NEW T, 0 \in T, \A k \in 0 .. (n - 1) : k \in T => k + 1 \in T
  PROVE  \A k \in 0 .. n : k \in T
<1> DEFINE Out == {k \in 0 .. n : k \notin T}
<1>1. SUFFICES ASSUME Out # {} PROVE FALSE
  OBVIOUS
<1>2. PICK k \in Out : \A m \in Out : k <= m
  <2>1. Out \in SUBSET Nat
    OBVIOUS
  <2> HIDE DEF Out
  <2> QED BY <2>1, <1>1, Least
<1>3. k - 1 \in 0 .. (n - 1) /\ k - 1 \notin Out
  BY <1>2
<1> QED BY <1>2, <1>3

\* Values computed one from the other.
Chain(f, base, next, n) ==
  f = [k \in 0..n |-> IF k = 0 THEN base ELSE next[<<f[k - 1], k>>]]

LEMMA ChainExists ==
  ASSUME NEW n \in Nat, NEW V, NEW base \in V, NEW next \in [V \X (1..n) -> V]
  PROVE  \E f \in [0..n -> V] : Chain(f, base, next, n)
<1> DEFINE T == {m \in 0..n : \E f \in [0..m -> V] : Chain(f, base, next, m)}
<1>1. 0 \in T
  <2> DEFINE f == [k \in 0..0 |-> base]
  <2>1. f \in [0..0 -> V] /\ Chain(f, base, next, 0)
    BY DEF Chain
  <2> QED BY <2>1
<1>2. ASSUME NEW m \in 0 .. (n - 1), m \in T PROVE m + 1 \in T
  <2>1. PICK f \in [0..m -> V] : Chain(f, base, next, m)
    BY <1>2
  <2>2. m + 1 \in 1..n /\ f[m] \in V
    BY <2>1
  <2>3. next[<<f[m], m + 1>>] \in V
    BY <2>2
  <2> DEFINE g == [k \in 0..(m + 1) |-> IF k <= m THEN f[k] ELSE next[<<f[m], m + 1>>]]
  <2>4. g \in [0..(m + 1) -> V]
    BY <2>1, <2>3
  <2>5. \A k \in 0..(m + 1) : g[k] = IF k = 0 THEN base ELSE next[<<g[k - 1], k>>]
    <3> TAKE k \in 0..(m + 1)
    <3>1. CASE k <= m
      <4>1. g[k] = f[k] /\ (k # 0 => g[k - 1] = f[k - 1])
        BY <3>1
      <4>2. f[k] = IF k = 0 THEN base ELSE next[<<f[k - 1], k>>]
        BY <2>1, <3>1 DEF Chain
      <4> HIDE DEF g
      <4> QED BY <4>1, <4>2
    <3>2. CASE k = m + 1
      <4>1. g[k] = next[<<f[m], m + 1>>] /\ g[m] = f[m] /\ k - 1 = m /\ k # 0
        BY <3>2
      <4> HIDE DEF g
      <4> QED BY <4>1, <3>2
    <3> QED BY <3>1, <3>2
  <2>6. g = [k \in 0..(m + 1) |-> g[k]]
    OBVIOUS
  <2> HIDE DEF g
  <2>7. Chain(g, base, next, m + 1)
    BY <2>5, <2>6 DEF Chain
  <2> QED BY <2>2, <2>4, <2>7
<1> HIDE DEF T
<1>3. \A m \in 0 .. (n - 1) : m \in T => m + 1 \in T
  BY <1>2
<1>4. \A m \in 0 .. n : m \in T
  BY <1>1, <1>3, UpTo
<1> QED BY <1>4 DEF T

\* The powers of a number: numbers again, and the two that the translator
\* multiplies out.
LEMMA PowerIn ==
  ASSUME NEW x \in Field
  PROVE  /\ \A n \in Field \union {2, 3, -1} : Power(x, n) \in Field
         /\ Power(x, 2) = (x * x) % P
         /\ Power(x, 3) = (((x * x) % P) * x) % P
<1> DEFINE IsPowers(p) == p = [k \in 0..P |-> IF k = 0 THEN 1 ELSE (x * p[k - 1]) % P]
           p == CHOOSE p : IsPowers(p)
<1>0. P \in Nat /\ P > 2 /\ x \in Int
  BY PrimeAssumption, FieldOf
<1>1. \E f : IsPowers(f)
  <2> DEFINE next == [e \in Field \X (1..P) |-> (x * e[1]) % P]
  <2>1. next \in [Field \X (1..P) -> Field]
    <3>1. ASSUME NEW e \in Field \X (1..P) PROVE (x * e[1]) % P \in Field
      <4>1. e[1] \in Int
        BY FieldOf
      <4>2. x * e[1] \in Int
        BY <1>0, <4>1
      <4> QED BY <4>2, FieldOf
    <3> QED BY <3>1
  <2>2. \A y \in Field, k \in 1..P : next[<<y, k>>] = (x * y) % P
    OBVIOUS
  <2> HIDE DEF next
  <2>3. PICK f \in [0..P -> Field] : Chain(f, 1, next, P)
    BY <1>0, <2>1, FieldOf, ChainExists
  <2>4. \A k \in 0..P : f[k] = IF k = 0 THEN 1 ELSE (x * f[k - 1]) % P
    <3> TAKE k \in 0..P
    <3>1. f[k] = IF k = 0 THEN 1 ELSE next[<<f[k - 1], k>>]
      BY <2>3 DEF Chain
    <3>2. k # 0 => k - 1 \in 0..P /\ k \in 1..P
      BY <1>0
    <3> QED BY <2>2, <2>3, <3>1, <3>2
  <2>5. f = [k \in 0..P |-> f[k]]
    BY <2>3
  <2> QED BY <2>4, <2>5
<1>2. IsPowers(p)
  BY <1>1
<1>3. \A n : Power(x, n) = IF n >= 0 THEN p[n] ELSE Over(1, p[-n])
  BY DEF Power
<1> HIDE DEF p
<1>4. \A k \in 0..P : p[k] = IF k = 0 THEN 1 ELSE (x * p[k - 1]) % P
  BY <1>2
<1> HIDE DEF IsPowers
<1>5. \A k \in 0..P : p[k] \in Field
  <2> DEFINE T == {k \in 0..P : p[k] \in Field}
  <2>1. 0 \in T
    BY <1>0, <1>4, FieldOf
  <2>2. ASSUME NEW k \in 0 .. (P - 1), k \in T PROVE k + 1 \in T
    <3>1. k + 1 \in 0..P /\ k + 1 # 0 /\ (k + 1) - 1 = k
      BY <1>0
    <3>2. p[k + 1] = (x * p[k]) % P
      BY <1>4, <3>1
    <3>3. p[k] \in Int
      BY <2>2, FieldOf
    <3>4. x * p[k] \in Int
      BY <1>0, <3>3
    <3> QED BY <3>1, <3>2, <3>4, FieldOf
  <2> HIDE DEF T
  <2>3. \A k \in 0 .. (P - 1) : k \in T => k + 1 \in T
    BY <2>2
  <2>4. \A k \in 0..P : k \in T
    BY <1>0, <2>1, <2>3, UpTo
  <2> QED BY <2>4 DEF T
<1>6. p[0] = 1 /\ p[1] = x /\ p[2] = (x * x) % P /\ p[3] = (x * p[2]) % P
  <2>1. 0 \in 0..P /\ 1 \in 0..P /\ 2 \in 0..P /\ 3 \in 0..P
    BY <1>0
  <2>2. p[0] = 1
    BY <1>4, <2>1
  <2>3. p[1] = (x * p[0]) % P
    BY <1>4, <2>1
  <2>4. x * 1 = x /\ x % P = x
    BY <1>0, FieldOf
  <2>5. p[2] = (x * p[1]) % P
    BY <1>4, <2>1
  <2>6. p[3] = (x * p[2]) % P
    BY <1>4, <2>1
  <2> QED BY <2>2, <2>3, <2>4, <2>5, <2>6
<1>7. \A n \in Field \union {2, 3} : n >= 0 /\ n \in 0..P
  BY <1>0 DEF Field
<1>8. \A n \in Field \union {2, 3} : Power(x, n) = p[n] /\ Power(x, n) \in Field
  BY <1>3, <1>5, <1>7
<1>9. Power(x, -1) \in Field
  <2>1. Power(x, -1) = Over(1, p[1])
    BY <1>3
  <2>2. p[1] \in Field
    BY <1>6
  <2> QED BY <2>1, <2>2, OverIn, FieldOf
<1>10. x * p[2] = p[2] * x
  <2>1. 2 \in 0..P
    BY <1>0
  <2>2. p[2] \in Int
    BY <1>5, <2>1, FieldOf
  <2> QED BY <1>0, <2>2
<1> QED BY <1>6, <1>8, <1>9, <1>10

(***************************************************************************)
(* Arithmetic, entry by entry.                                             *)
(***************************************************************************)

LEMMA ApplyIn ==
  ASSUME NEW prim \in Arith, NEW x \in Field, NEW y \in Field
  PROVE  Apply(prim, x, y) \in Field
<1>1. x \in Int /\ y \in Int
  BY FieldOf
<1>2. x + y \in Int /\ x - y \in Int /\ x * y \in Int
  BY <1>1
<1>3. (x + y) % P \in Field /\ (x - y) % P \in Field /\ (x * y) % P \in Field
  BY <1>2, FieldOf
<1> QED BY <1>3, OverIn, PowerIn DEF Apply, Arith

LEMMA FunctionIn ==
  ASSUME NEW prim \in Smooth, NEW x \in Field
  PROVE  Function(prim, x) \in Field
<1> DEFINE k == CHOOSE n \in DOMAIN Functions : Functions[n] = prim
<1>1. \E n \in DOMAIN Functions : Functions[n] = prim
  BY DEF Functions, Smooth
<1>2. k \in DOMAIN Functions
  BY <1>1
<1>3. k \in Int /\ x \in Int
  BY <1>2, FieldOf DEF Functions
<1>4. Function(prim, x) = (x * x + k) % P
  BY DEF Function
<1> HIDE DEF k
<1>5. x * x + k \in Int
  BY <1>3
<1> QED BY <1>4, <1>5, FieldOf

\* The entry that stands at i, j of a stretched matrix.
LEMMA StretchIs ==
  ASSUME NEW m, NEW r, NEW c, IsMatrix(m, r, c), NEW i \in Nat \ {0}, NEW j \in Nat \ {0},
         r = 1 \/ i <= r, c = 1 \/ j <= c
  PROVE  /\ Stretch(m, i, j) = m[IF r = 1 THEN 1 ELSE i][IF c = 1 THEN 1 ELSE j]
         /\ Stretch(m, i, j) \in Field
         /\ (i <= r /\ j <= c) => Stretch(m, i, j) = m[i][j]
<1>1. r \in Nat \ {0} /\ c \in Nat \ {0} /\ m \in [1..r -> [1..c -> Field]]
  BY DEF IsMatrix
<1>2. Rows(m) = r /\ Cols(m) = c
  BY SizeOf
<1>3. Stretch(m, i, j) = m[IF r = 1 THEN 1 ELSE i][IF c = 1 THEN 1 ELSE j]
  BY <1>2 DEF Stretch
<1>4. (IF r = 1 THEN 1 ELSE i) \in 1..r /\ (IF c = 1 THEN 1 ELSE j) \in 1..c
  BY <1>1
<1>5. (i <= r => (IF r = 1 THEN 1 ELSE i) = i) /\ (j <= c => (IF c = 1 THEN 1 ELSE j) = j)
  BY <1>1
<1> QED BY <1>1, <1>3, <1>4, <1>5

\* Sizes that broadcast: equal, or one of them 1.
Meet(m, n) == m = n \/ m = 1 \/ n = 1

LEMMA WiderIs ==
  ASSUME NEW m \in Nat \ {0}, NEW n \in Nat \ {0}, Meet(m, n)
  PROVE  /\ Wider(m, n) \in Nat \ {0}
         /\ m = 1 \/ Wider(m, n) = m
         /\ n = 1 \/ Wider(m, n) = n
         /\ m = 1 => Wider(m, n) = n
         /\ n = 1 => Wider(m, n) = m
BY DEF Meet, Wider

\* What JAX computes of two arrays that broadcast, as a matrix.
LEMMA JaxArithIs ==
  ASSUME NEW prim \in Arith, NEW a, NEW r1, NEW c1, IsMatrix(a, r1, c1),
         NEW b, NEW r2, NEW c2, IsMatrix(b, r2, c2), Meet(r1, r2), Meet(c1, c2)
  PROVE  /\ IsMatrix(JaxArith(prim, a, b), Wider(r1, r2), Wider(c1, c2))
         /\ JaxArith(prim, a, b) =
              [i \in 1..Wider(r1, r2) |-> [j \in 1..Wider(c1, c2) |->
                 Apply(prim, Stretch(a, i, j), Stretch(b, i, j))]]
<1> DEFINE R == Wider(r1, r2)
           C == Wider(c1, c2)
<1>1. /\ Rows(a) = r1 /\ Cols(a) = c1 /\ Rows(b) = r2 /\ Cols(b) = c2
      /\ r1 \in Nat \ {0} /\ c1 \in Nat \ {0} /\ r2 \in Nat \ {0} /\ c2 \in Nat \ {0}
  BY SizeOf DEF IsMatrix
<1>2. JaxArith(prim, a, b) =
        [i \in 1..R |-> [j \in 1..C |-> Apply(prim, Stretch(a, i, j), Stretch(b, i, j))]]
  BY <1>1 DEF JaxArith, Grid
<1>3. /\ R \in Nat \ {0} /\ C \in Nat \ {0}
      /\ (r1 = 1 \/ R = r1) /\ (r2 = 1 \/ R = r2) /\ (c1 = 1 \/ C = c1) /\ (c2 = 1 \/ C = c2)
  BY <1>1, WiderIs
<1> HIDE DEF R, C
<1>4. ASSUME NEW i \in 1..R, NEW j \in 1..C
      PROVE  Apply(prim, Stretch(a, i, j), Stretch(b, i, j)) \in Field
  <2>1. i \in Nat \ {0} /\ j \in Nat \ {0} /\ i <= R /\ j <= C
    BY <1>3
  <2>2. Stretch(a, i, j) \in Field
    BY <1>3, <2>1, StretchIs
  <2>3. Stretch(b, i, j) \in Field
    BY <1>3, <2>1, StretchIs
  <2> QED BY <2>2, <2>3, ApplyIn
<1>5. IsMatrix(JaxArith(prim, a, b), R, C)
  BY <1>2, <1>3, <1>4 DEF IsMatrix
<1> QED BY <1>2, <1>5 DEF R, C

LEMMA ScalarIs ==
  ASSUME NEW a, NEW r, NEW c, IsMatrix(a, r, c)
  PROVE  IsScalar(a) <=> (r = 1 /\ c = 1)
BY SizeOf DEF IsScalar

\* CasADi's operator by entries.
ByEntry(prim, a, b) == Entrywise(LAMBDA x, y : Apply(prim, x, y), a, b)

\* CasADi and JAX agree where CasADi does not raise without a repmat.
LEMMA ByEntryAgrees ==
  ASSUME NEW prim \in Arith, NEW a, NEW r1, NEW c1, IsMatrix(a, r1, c1),
         NEW b, NEW r2, NEW c2, IsMatrix(b, r2, c2),
         IsScalar(a) \/ IsScalar(b) \/ (r1 = r2 /\ c1 = c2)
  PROVE  ByEntry(prim, a, b) = JaxArith(prim, a, b)
<1> DEFINE R == Wider(r1, r2)
           C == Wider(c1, c2)
           A(i, j) == IF IsScalar(a) THEN a[1][1] ELSE a[i][j]
           B(i, j) == IF IsScalar(b) THEN b[1][1] ELSE b[i][j]
<1>1. /\ Rows(a) = r1 /\ Cols(a) = c1 /\ Rows(b) = r2 /\ Cols(b) = c2
      /\ r1 \in Nat \ {0} /\ c1 \in Nat \ {0} /\ r2 \in Nat \ {0} /\ c2 \in Nat \ {0}
  BY SizeOf DEF IsMatrix
<1>2. /\ IsScalar(a) <=> (r1 = 1 /\ c1 = 1)
      /\ IsScalar(b) <=> (r2 = 1 /\ c2 = 1)
  BY ScalarIs
<1>3. Meet(r1, r2) /\ Meet(c1, c2)
  BY <1>2 DEF Meet
<1>4. JaxArith(prim, a, b) =
        [i \in 1..R |-> [j \in 1..C |-> Apply(prim, Stretch(a, i, j), Stretch(b, i, j))]]
  BY <1>3, JaxArithIs
<1>5. /\ IsScalar(a) => R = r2 /\ C = c2
      /\ IsScalar(b) => R = r1 /\ C = c1
      /\ ~IsScalar(a) /\ ~IsScalar(b) => R = r1 /\ C = c1 /\ r1 = r2 /\ c1 = c2
  BY <1>1, <1>2, WiderIs DEF Meet
<1>6. ByEntry(prim, a, b) = [i \in 1..R |-> [j \in 1..C |-> Apply(prim, A(i, j), B(i, j))]]
  <2>1. CASE IsScalar(a)
    <3>1. ByEntry(prim, a, b) =
            [i \in 1..r2 |-> [j \in 1..c2 |-> Apply(prim, a[1][1], b[i][j])]]
      BY <1>1, <2>1 DEF ByEntry, Entrywise, Grid
    <3>2. ASSUME NEW i \in 1..R, NEW j \in 1..C PROVE B(i, j) = b[i][j]
      <4>1. IsScalar(b) => i = 1 /\ j = 1
        BY <1>1, <1>2, <1>5, <2>1, <3>2
      <4> QED BY <4>1
    <3> HIDE DEF R, C, B
    <3> QED BY <1>5, <2>1, <3>1, <3>2
  <2>2. CASE ~IsScalar(a) /\ IsScalar(b)
    BY <1>1, <1>5, <2>2 DEF ByEntry, Entrywise, Grid
  <2>3. CASE ~IsScalar(a) /\ ~IsScalar(b)
    BY <1>1, <1>5, <2>3 DEF ByEntry, Entrywise, Grid, SameSize
  <2> QED BY <2>1, <2>2, <2>3
<1>7. ASSUME NEW i \in 1..R, NEW j \in 1..C
      PROVE  Stretch(a, i, j) = A(i, j) /\ Stretch(b, i, j) = B(i, j)
  <2>1. /\ i \in Nat \ {0} /\ j \in Nat \ {0} /\ i <= R /\ j <= C
        /\ (r1 = 1 \/ R = r1) /\ (r2 = 1 \/ R = r2) /\ (c1 = 1 \/ C = c1) /\ (c2 = 1 \/ C = c2)
    BY <1>1, <1>3, WiderIs
  <2> HIDE DEF R, C
  <2>2. Stretch(a, i, j) = a[IF r1 = 1 THEN 1 ELSE i][IF c1 = 1 THEN 1 ELSE j]
        /\ (i <= r1 /\ j <= c1 => Stretch(a, i, j) = a[i][j])
    BY <2>1, StretchIs
  <2>3. Stretch(b, i, j) = b[IF r2 = 1 THEN 1 ELSE i][IF c2 = 1 THEN 1 ELSE j]
        /\ (i <= r2 /\ j <= c2 => Stretch(b, i, j) = b[i][j])
    BY <2>1, StretchIs
  <2>4. Stretch(a, i, j) = A(i, j)
    BY <1>2, <1>5, <2>1, <2>2
  <2>5. Stretch(b, i, j) = B(i, j)
    BY <1>2, <1>5, <2>1, <2>3
  <2> QED BY <2>4, <2>5
<1> HIDE DEF R, C, A, B
<1> QED BY <1>4, <1>6, <1>7

\* A repeated matrix, entry by entry.
LEMMA RepmatIs ==
  ASSUME NEW m, NEW r, NEW c, IsMatrix(m, r, c), NEW R, NEW C,
         R \in Nat \ {0}, C \in Nat \ {0}, r = 1 \/ R = r, c = 1 \/ C = c
  PROVE  /\ IsMatrix(Repmat(m, R \div r, C \div c), R, C)
         /\ \A i \in 1..R, j \in 1..C :
              Repmat(m, R \div r, C \div c)[i][j] = Stretch(m, i, j)
<1> DEFINE n == Repmat(m, R \div r, C \div c)
<1>1. /\ Rows(m) = r /\ Cols(m) = c /\ r \in Nat \ {0} /\ c \in Nat \ {0}
  BY SizeOf DEF IsMatrix
<1>2. (R \div r) * r = R /\ (C \div c) * c = C
  <2>1. ASSUME NEW k \in Nat \ {0} PROVE k \div k = 1 /\ 1 * k = k /\ (k \div 1) * 1 = k
    BY SMT
  <2> QED BY <1>1, <2>1
<1>3. n = [i \in 1..R |-> [j \in 1..C |-> m[((i - 1) % r) + 1][((j - 1) % c) + 1]]]
  BY <1>1, <1>2 DEF Repmat, Grid
<1>4. ASSUME NEW i \in 1..R, NEW j \in 1..C
      PROVE  m[((i - 1) % r) + 1][((j - 1) % c) + 1] = Stretch(m, i, j) /\ Stretch(m, i, j) \in Field
  <2>1. i \in Nat \ {0} /\ j \in Nat \ {0} /\ (r = 1 \/ i <= r) /\ (c = 1 \/ j <= c)
    OBVIOUS
  <2>2. ASSUME NEW k \in Nat \ {0}, NEW s \in Nat \ {0}, s = 1 \/ k <= s
        PROVE  ((k - 1) % s) + 1 = IF s = 1 THEN 1 ELSE k
    <3>1. CASE s = 1
      <4>1. (k - 1) % 1 = 0
        BY SMT
      <4> QED BY <3>1, <4>1
    <3>2. CASE s # 1
      <4>1. k - 1 \in 0..(s - 1) /\ k - 1 \in Int
        BY <2>2, <3>2
      <4>2. (k - 1) % s = k - 1
        BY <4>1, SMT
      <4> QED BY <3>2, <4>2
    <3> QED BY <3>1, <3>2
  <2>3. ((i - 1) % r) + 1 = (IF r = 1 THEN 1 ELSE i) /\ ((j - 1) % c) + 1 = IF c = 1 THEN 1 ELSE j
    <3>1. r \in Nat \ {0} /\ c \in Nat \ {0}
      BY <1>1
    <3>2. ((i - 1) % r) + 1 = IF r = 1 THEN 1 ELSE i
      BY ONLY <2>1, <2>2, <3>1, ZenonT(30)
    <3>3. ((j - 1) % c) + 1 = IF c = 1 THEN 1 ELSE j
      BY ONLY <2>1, <2>2, <3>1, ZenonT(30)
    <3> QED BY <3>2, <3>3
  <2>4. Stretch(m, i, j) = m[IF r = 1 THEN 1 ELSE i][IF c = 1 THEN 1 ELSE j]
        /\ Stretch(m, i, j) \in Field
    BY <2>1, StretchIs
  <2> QED BY <2>3, <2>4
<1> HIDE DEF n
<1>5. n = [i \in 1..R |-> [j \in 1..C |-> Stretch(m, i, j)]]
  BY <1>3, <1>4
<1>6. IsMatrix(n, R, C)
  BY <1>4, <1>5 DEF IsMatrix
<1>7. \A i \in 1..R, j \in 1..C : n[i][j] = Stretch(m, i, j)
  BY <1>5
<1> QED BY <1>6, <1>7 DEF n

\* The binary handlers, with the repmat of bcast.
LEMMA ArithAgrees ==
  ASSUME NEW prim \in Arith, NEW a, NEW r1, NEW c1, IsMatrix(a, r1, c1),
         NEW b, NEW r2, NEW c2, IsMatrix(b, r2, c2), Meet(r1, r2), Meet(c1, c2)
  PROVE  _arith(prim, a, b) = Value(JaxArith(prim, a, b))
<1> DEFINE R == Wider(r1, r2)
           C == Wider(c1, c2)
           x == Repmat(a, R \div r1, C \div c1)
           y == Repmat(b, R \div r2, C \div c2)
<1>1. /\ Rows(a) = r1 /\ Cols(a) = c1 /\ Rows(b) = r2 /\ Cols(b) = c2
      /\ r1 \in Nat \ {0} /\ c1 \in Nat \ {0} /\ r2 \in Nat \ {0} /\ c2 \in Nat \ {0}
  BY SizeOf DEF IsMatrix
<1>2. _arith(prim, a, b) = Value(ByEntry(prim, bcast(a, b)[1], bcast(a, b)[2]))
  BY DEF _arith, ByEntry
<1>3. CASE IsScalar(a) \/ IsScalar(b) \/ SameSize(a, b)
  <2>1. bcast(a, b) = <<a, b>>
    BY <1>3 DEF bcast
  <2>2. IsScalar(a) \/ IsScalar(b) \/ (r1 = r2 /\ c1 = c2)
    BY <1>1, <1>3 DEF SameSize
  <2>3. ByEntry(prim, a, b) = JaxArith(prim, a, b)
    BY <2>2, ByEntryAgrees
  <2> QED BY <1>2, <2>1, <2>3
<1>4. CASE ~ (IsScalar(a) \/ IsScalar(b) \/ SameSize(a, b))
  <2>1. bcast(a, b) = <<x, y>>
    BY <1>1, <1>4 DEF bcast
  <2>2. /\ R \in Nat \ {0} /\ C \in Nat \ {0}
        /\ (r1 = 1 \/ R = r1) /\ (r2 = 1 \/ R = r2) /\ (c1 = 1 \/ C = c1) /\ (c2 = 1 \/ C = c2)
    BY <1>1, WiderIs
  <2>3. Wider(R, R) = R /\ Wider(C, C) = C /\ Meet(R, R) /\ Meet(C, C)
    BY DEF Wider, Meet
  <2>4. JaxArith(prim, a, b) =
          [i \in 1..R |-> [j \in 1..C |-> Apply(prim, Stretch(a, i, j), Stretch(b, i, j))]]
    BY JaxArithIs
  <2> HIDE DEF R, C
  <2>5. IsMatrix(x, R, C) /\ \A i \in 1..R, j \in 1..C : x[i][j] = Stretch(a, i, j)
    BY <2>2, RepmatIs
  <2>6. IsMatrix(y, R, C) /\ \A i \in 1..R, j \in 1..C : y[i][j] = Stretch(b, i, j)
    BY <2>2, RepmatIs
  <2> HIDE DEF x, y
  <2>7. ByEntry(prim, x, y) = JaxArith(prim, x, y)
    BY <2>5, <2>6, ByEntryAgrees
  <2>8. JaxArith(prim, x, y) =
          [i \in 1..R |-> [j \in 1..C |-> Apply(prim, Stretch(x, i, j), Stretch(y, i, j))]]
    <3>1. JaxArith(prim, x, y) =
            [i \in 1..Wider(R, R) |-> [j \in 1..Wider(C, C) |->
               Apply(prim, Stretch(x, i, j), Stretch(y, i, j))]]
      BY <2>3, <2>5, <2>6, JaxArithIs
    <3> QED BY <2>3, <3>1
  <2>9. ASSUME NEW i \in 1..R, NEW j \in 1..C
        PROVE  Stretch(x, i, j) = Stretch(a, i, j) /\ Stretch(y, i, j) = Stretch(b, i, j)
    <3>1. i \in Nat \ {0} /\ j \in Nat \ {0} /\ i <= R /\ j <= C
      BY <2>2
    <3>2. Stretch(x, i, j) = x[i][j]
      BY <2>5, <3>1, StretchIs
    <3>3. Stretch(y, i, j) = y[i][j]
      BY <2>6, <3>1, StretchIs
    <3> QED BY <2>5, <2>6, <3>2, <3>3
  <2>10. JaxArith(prim, x, y) = JaxArith(prim, a, b)
    BY <2>4, <2>8, <2>9
  <2> QED BY <1>2, <2>1, <2>7, <2>10
<1> QED BY <1>3, <1>4

\* A power, which CasADi takes without repmat, is what JAX means or is refused.
LEMMA PowAgrees ==
  ASSUME NEW a, NEW r1, NEW c1, IsMatrix(a, r1, c1), NEW b, NEW r2, NEW c2, IsMatrix(b, r2, c2)
  PROVE  _pow(a, b) \in {Value(Raised), Value(JaxArith("pow", a, b))}
<1>1. \A x, y : Apply("pow", x, y) = Power(x, y)
  BY DEF Apply
<1>2. Rows(a) = r1 /\ Cols(a) = c1 /\ Rows(b) = r2 /\ Cols(b) = c2
  BY SizeOf
<1>3. CASE IsScalar(a) \/ IsScalar(b) \/ (r1 = r2 /\ c1 = c2)
  <2>1. "pow" \in Arith
    BY DEF Arith
  <2>2. ByEntry("pow", a, b) = JaxArith("pow", a, b)
    BY <1>3, <2>1, ByEntryAgrees
  <2>3. _pow(a, b) = Value(ByEntry("pow", a, b))
    BY <1>1 DEF _pow, ByEntry, Entrywise, Grid
  <2> QED BY <2>2, <2>3
<1>4. CASE ~ (IsScalar(a) \/ IsScalar(b) \/ (r1 = r2 /\ c1 = c2))
  <2>1. _pow(a, b) = Value(Raised)
    BY <1>2, <1>4 DEF _pow, Entrywise, SameSize
  <2> QED BY <2>1
<1> QED BY <1>3, <1>4

(***************************************************************************)
(* The unary handlers.                                                     *)
(***************************************************************************)

\* What the unary primitives make of an array.
Negated(m) == Grid(Rows(m), Cols(m), LAMBDA p, q : (P - m[p][q]) % P)
Raise(m, y) == Grid(Rows(m), Cols(m), LAMBDA p, q : Power(m[p][q], y))
Smoothed(prim, m) == Grid(Rows(m), Cols(m), LAMBDA p, q : Function(prim, m[p][q]))

\* An operator by entries on one matrix is the table of its values.
LEMMA UnaryIs ==
  ASSUME NEW a, NEW r, NEW c, IsMatrix(a, r, c)
  PROVE  /\ _neg(a) = Value(Negated(a))
         /\ \A prim : _smooth(prim, a) = Value(Smoothed(prim, a))
         /\ IsMatrix(Negated(a), r, c)
         /\ \A prim \in Smooth : IsMatrix(Smoothed(prim, a), r, c)
<1>1. /\ Rows(a) = r /\ Cols(a) = c /\ r \in Nat \ {0} /\ c \in Nat \ {0}
      /\ IsScalar(a) => r = 1 /\ c = 1
  BY SizeOf, ScalarIs DEF IsMatrix
<1>0. \A i \in 1..r, j \in 1..c : a[i][j] \in Field
  BY DEF IsMatrix
<1>2. \A i \in 1..r, j \in 1..c : (P - a[i][j]) % P \in Field
  <2>1. \A x \in Field : P - x \in Int
    BY FieldOf, PrimeAssumption
  <2> QED BY <1>0, <2>1, FieldOf
<1>3. IsMatrix(Negated(a), r, c)
  BY <1>1, <1>2 DEF IsMatrix, Grid, Negated
<1>4. ASSUME NEW prim \in Smooth
      PROVE IsMatrix(Smoothed(prim, a), r, c)
  BY <1>0, <1>1, <1>4, FunctionIn DEF IsMatrix, Grid, Smoothed
<1>5. _neg(a) = Value(Negated(a))
  BY <1>1 DEF _neg, Entrywise, Grid, SameSize, Negated
<1>6. ASSUME NEW prim
      PROVE  _smooth(prim, a) = Value(Smoothed(prim, a))
  BY <1>1 DEF _smooth, Entrywise, Grid, SameSize, Smoothed
<1> QED BY <1>3, <1>4, <1>5, <1>6

\* Repeated multiplication and CasADi's power give the power JAX means.
LEMMA IntegerPowAgrees ==
  ASSUME NEW a, NEW r, NEW c, IsMatrix(a, r, c), NEW y \in {2, 3, -1}
  PROVE  _integer_pow(a, y) = Value(Raise(a, y)) /\ IsMatrix(Raise(a, y), r, c)
<1> DEFINE m == Raise(a, y)
           Multiplied(u, v) == Entrywise(LAMBDA p, q : (p * q) % P, u, v)
<1>1. /\ Rows(a) = r /\ Cols(a) = c /\ r \in Nat \ {0} /\ c \in Nat \ {0}
      /\ IsScalar(a) => r = 1 /\ c = 1
  BY SizeOf, ScalarIs DEF IsMatrix
<1>2. \A i \in 1..r, j \in 1..c : a[i][j] \in Field
  BY DEF IsMatrix
<1>3. m = [i \in 1..r |-> [j \in 1..c |-> Power(a[i][j], y)]]
  BY <1>1 DEF Grid, Raise
<1>0. \A i \in 1..r, j \in 1..c : Power(a[i][j], y) \in Field
  BY <1>2, PowerIn
<1> HIDE DEF m
<1>4. IsMatrix(m, r, c)
  BY <1>0, <1>1, <1>3 DEF IsMatrix
<1>5. ASSUME NEW u, IsMatrix(u, r, c)
      PROVE  Multiplied(u, a) = [i \in 1..r |-> [j \in 1..c |-> (u[i][j] * a[i][j]) % P]]
  <2>1. /\ Rows(u) = r /\ Cols(u) = c
        /\ IsScalar(u) => r = 1 /\ c = 1
    BY <1>5, SizeOf, ScalarIs
  <2> QED BY <1>1, <2>1 DEF Entrywise, Grid, SameSize
<1>6. Multiplied(a, a) = [i \in 1..r |-> [j \in 1..c |-> (a[i][j] * a[i][j]) % P]]
  BY <1>5
<1>7. CASE y = 2
  <2>1. _integer_pow(a, y) = Value(Multiplied(a, a))
    BY <1>7 DEF _integer_pow, Entrywise, Grid
  <2>2. \A i \in 1..r, j \in 1..c : Power(a[i][j], y) = (a[i][j] * a[i][j]) % P
    BY <1>2, <1>7, PowerIn
  <2>3. Multiplied(a, a) = m
    BY <1>3, <1>6, <2>2
  <2> HIDE DEF Multiplied
  <2> QED BY <1>4, <2>1, <2>3 DEF m
<1>8. CASE y = 3
  <2>1. _integer_pow(a, y) = Value(Multiplied(Multiplied(a, a), a))
    BY <1>8 DEF _integer_pow, Entrywise, Grid
  <2> DEFINE u == Multiplied(a, a)
  <2>2. u = [i \in 1..r |-> [j \in 1..c |-> (a[i][j] * a[i][j]) % P]]
    BY <1>6
  <2>3. \A i \in 1..r, j \in 1..c : (a[i][j] * a[i][j]) % P \in Field
    <3>1. \A x \in Field : x * x \in Int
      BY FieldOf
    <3> QED BY <1>2, <3>1, FieldOf
  <2> HIDE DEF u
  <2>4. IsMatrix(u, r, c)
    BY <1>1, <2>2, <2>3 DEF IsMatrix
  <2>5. Multiplied(u, a) = [i \in 1..r |-> [j \in 1..c |-> (u[i][j] * a[i][j]) % P]]
    BY <1>5, <2>4
  <2>6. \A i \in 1..r, j \in 1..c :
          Power(a[i][j], y) = (((a[i][j] * a[i][j]) % P) * a[i][j]) % P
    BY <1>2, <1>8, PowerIn
  <2>7. Multiplied(u, a) = m
    BY <1>3, <2>2, <2>5, <2>6
  <2> HIDE DEF Multiplied
  <2> QED BY <1>4, <2>1, <2>7 DEF m, u
<1>9. CASE y = -1
  <2>1. _integer_pow(a, y) = Value(Entrywise(LAMBDA p, q : Power(p, y), a, a))
    BY <1>9 DEF _integer_pow, Entrywise, Grid
  <2>2. Entrywise(LAMBDA p, q : Power(p, y), a, a) = m
    BY <1>1, <1>3 DEF Entrywise, Grid, SameSize
  <2> QED BY <1>4, <2>1, <2>2 DEF m
<1> QED BY <1>7, <1>8, <1>9

(***************************************************************************)
(* The handlers that move entries.                                         *)
(***************************************************************************)

LEMMA TransposeOf ==
  ASSUME NEW m, NEW r, NEW c, IsMatrix(m, r, c)
  PROVE  /\ IsMatrix(Transpose(m), c, r)
         /\ \A i \in 1..c, j \in 1..r : Transpose(m)[i][j] = m[j][i]
<1>1. Rows(m) = r /\ Cols(m) = c
  BY SizeOf
<1>2. Transpose(m) = [i \in 1..c |-> [j \in 1..r |-> m[j][i]]]
  BY <1>1 DEF Transpose, Grid
<1>3. \A i \in 1..r, j \in 1..c : m[i][j] \in Field
  BY DEF IsMatrix
<1> QED BY <1>2, <1>3 DEF IsMatrix

LEMMA TransposeAt ==
  ASSUME NEW m, NEW r, NEW c, IsMatrix(m, r, c), NEW i \in 1..c, NEW j \in 1..r
  PROVE  Transpose(m)[i][j] = m[j][i]
<1>1. Rows(m) = r /\ Cols(m) = c
  BY SizeOf
<1>2. Transpose(m) = [x \in 1..c |-> [y \in 1..r |-> m[y][x]]]
  BY <1>1 DEF Transpose, Grid
<1> QED BY <1>2

\* A matrix is what its entries say.
LEMMA EqualEntries ==
  ASSUME NEW m, NEW n, NEW r, NEW c, IsMatrix(m, r, c), IsMatrix(n, r, c),
         \A i \in 1..r, j \in 1..c : m[i][j] = n[i][j]
  PROVE  m = n
<1>1. \A i \in 1..r : m[i] = [j \in 1..c |-> m[i][j]] /\ n[i] = [j \in 1..c |-> n[i][j]]
  BY DEF IsMatrix
<1>2. \A i \in 1..r : m[i] = n[i]
  BY <1>1
<1>3. m = [i \in 1..r |-> m[i]] /\ n = [i \in 1..r |-> n[i]]
  BY DEF IsMatrix
<1> QED BY <1>2, <1>3

\* A matrix of one entry is its own transpose.
LEMMA SingleTransposed ==
  ASSUME NEW m, IsMatrix(m, 1, 1)
  PROVE  Transpose(m) = m
<1>1. Transpose(m) = [i \in 1..1 |-> [j \in 1..1 |-> m[j][i]]]
  BY SizeOf DEF Transpose, Grid
<1>2. [i \in 1..1 |-> [j \in 1..1 |-> m[j][i]]] = [i \in 1..1 |-> [j \in 1..1 |-> m[i][j]]]
  OBVIOUS
<1> QED BY <1>1, <1>2, SameEntries

LEMMA ShapeIs ==
  ASSUME NEW shape \in Shapes
  PROVE  /\ ToRows(shape) \in Nat \ {0} /\ ToCols(shape) \in Nat \ {0}
         /\ \/ shape = <<>> /\ ToRows(shape) = 1 /\ ToCols(shape) = 1
            \/ Len(shape) = 1 /\ shape = <<ToRows(shape)>> /\ ToCols(shape) = 1
            \/ Len(shape) = 2 /\ shape = <<ToRows(shape), ToCols(shape)>>
<1>1. Dims \subseteq Nat \ {0}
  BY TranslatorAssumption
<1>2. CASE shape = <<>>
  BY <1>2 DEF ToRows, ToCols
<1>3. ASSUME NEW d \in Dims, shape = <<d>>
      PROVE  ToRows(shape) = d /\ ToCols(shape) = 1 /\ Len(shape) = 1
  BY <1>3 DEF ToRows, ToCols
<1>4. ASSUME NEW d \in Dims, NEW e \in Dims, shape = <<d, e>>
      PROVE  ToRows(shape) = d /\ ToCols(shape) = e /\ Len(shape) = 2
  BY <1>4 DEF ToRows, ToCols
<1>5. \/ shape = <<>>
      \/ \E d \in Dims : shape = <<d>>
      \/ \E d \in Dims, e \in Dims : shape = <<d, e>>
  BY DEF Shapes
<1>6. ASSUME NEW d \in Dims, shape = <<d>>
      PROVE  ToRows(shape) \in Nat \ {0} /\ ToCols(shape) = 1 /\ Len(shape) = 1
             /\ shape = <<ToRows(shape)>>
  BY <1>1, <1>3, <1>6
<1>7. ASSUME NEW d \in Dims, NEW e \in Dims, shape = <<d, e>>
      PROVE  ToRows(shape) \in Nat \ {0} /\ ToCols(shape) \in Nat \ {0} /\ Len(shape) = 2
             /\ shape = <<ToRows(shape), ToCols(shape)>>
  BY <1>1, <1>4, <1>7
<1> QED BY <1>2, <1>5, <1>6, <1>7

\* Dividing a size by itself or by one, as bcast and the broadcasts do.
LEMMA Quotients ==
  ASSUME NEW k \in Nat \ {0}
  PROVE  k \div k = 1 /\ k \div 1 = k
BY SMT

\* A scalar, or a vector along its own axis, broadcast by a repmat, is what
\* JAX means.
LEMMA BroadcastAgrees ==
  ASSUME NEW a, NEW r, NEW c, IsMatrix(a, r, c), NEW shape \in Shapes,
         NEW bdims \in {<<>>, << 0 >>, << 1 >>},
         bdims = <<>> => r = 1 /\ c = 1,
         bdims # <<>> => c = 1 /\ bdims[1] < Len(shape) /\ r = shape[bdims[1] + 1]
  PROVE  /\ _broadcast_in_dim(a, shape, bdims) = Value(JaxBroadcast(a, shape, bdims))
         /\ IsMatrix(JaxBroadcast(a, shape, bdims), ToRows(shape), ToCols(shape))
<1>0. JaxBroadcast(a, shape, bdims) =
        [i \in 1..ToRows(shape) |-> [j \in 1..ToCols(shape) |->
           Stretch(a, IF bdims = <<>> THEN 1 ELSE IF bdims = << 0 >> THEN i ELSE j, 1)]]
  <2>1. CASE bdims = <<>>
    <3>1. 1 \notin DOMAIN <<>> /\ 2 \notin DOMAIN <<>>
      OBVIOUS
    <3> QED BY <2>1, <3>1 DEF JaxBroadcast, Grid
  <2>2. CASE bdims = << 0 >>
    <3>1. 1 \in DOMAIN << 0 >> /\ 2 \notin DOMAIN << 0 >> /\ << 0 >>[1] = 0 /\ << 0 >> # <<>>
      OBVIOUS
    <3> QED BY <2>2, <3>1 DEF JaxBroadcast, Grid
  <2>3. CASE bdims = << 1 >>
    <3>1. 1 \in DOMAIN << 1 >> /\ 2 \notin DOMAIN << 1 >> /\ << 1 >>[1] = 1 /\ << 1 >> # <<>> /\ << 1 >> # << 0 >>
      OBVIOUS
    <3> QED BY <2>3, <3>1 DEF JaxBroadcast, Grid
  <2> QED BY <2>1, <2>2, <2>3
<1> DEFINE R == ToRows(shape)
           C == ToCols(shape)
           m == JaxBroadcast(a, shape, bdims)
           at(i, j) == Stretch(a, IF bdims = <<>> THEN 1 ELSE IF bdims = << 0 >> THEN i ELSE j, 1)
<1>1. /\ Rows(a) = r /\ Cols(a) = c /\ r \in Nat \ {0} /\ c \in Nat \ {0}
      /\ R \in Nat \ {0} /\ C \in Nat \ {0}
  BY SizeOf, ShapeIs DEF IsMatrix
<1>2. m = [i \in 1..R |-> [j \in 1..C |-> at(i, j)]]
  BY <1>0
<1>3. /\ bdims = << 0 >> => R = r /\ shape # <<>>
      /\ bdims = << 1 >> => C = r /\ Len(shape) = 2
  <2>1. ASSUME bdims = << 0 >> PROVE R = r /\ shape # <<>>
    <3>1. 0 < Len(shape) /\ r = shape[1]
      BY <2>1
    <3>2. shape # <<>>
      BY <3>1
    <3> QED BY <3>1, <3>2 DEF ToRows
  <2>2. ASSUME bdims = << 1 >> PROVE C = r /\ Len(shape) = 2
    <3>1. 1 < Len(shape) /\ r = shape[2]
      BY <2>2
    <3>2. Len(shape) = 2
      <4>1. Len(<<>>) = 0
        OBVIOUS
      <4> QED BY <3>1, <4>1, ShapeIs
    <3> QED BY <3>1, <3>2 DEF ToCols
  <2> QED BY <2>1, <2>2
<1>4. c = 1
  OBVIOUS
<1>5. ASSUME NEW i \in 1..R, NEW j \in 1..C
      PROVE  /\ at(i, j) \in Field
             /\ bdims = <<>> => at(i, j) = a[1][1]
             /\ bdims = << 0 >> => at(i, j) = a[i][1]
             /\ bdims = << 1 >> => at(i, j) = a[j][1]
  <2> DEFINE k == IF bdims = <<>> THEN 1 ELSE IF bdims = << 0 >> THEN i ELSE j
  <2>1. k \in Nat \ {0} /\ k <= r
    BY <1>1, <1>3
  <2>2. /\ bdims = <<>> => k = 1
        /\ bdims = << 0 >> => k = i
        /\ bdims = << 1 >> => k = j
    OBVIOUS
  <2>3. at(i, j) = Stretch(a, k, 1)
    OBVIOUS
  <2> HIDE DEF at, k
  <2>4. Stretch(a, k, 1) \in Field /\ Stretch(a, k, 1) = a[k][1]
    BY <1>1, <1>4, <2>1, StretchIs
  <2> QED BY <2>2, <2>3, <2>4
<1> HIDE DEF at, m
<1>6. IsMatrix(m, R, C)
  BY <1>1, <1>2, <1>5 DEF IsMatrix
<1> HIDE DEF R, C
<1>rep. ASSUME NEW x, NEW u, NEW v, IsMatrix(x, u, v), u = 1 \/ R = u, v = 1 \/ C = v
       PROVE  /\ IsMatrix(Repmat(x, R \div u, C \div v), R, C)
              /\ \A i \in 1..R, j \in 1..C : Repmat(x, R \div u, C \div v)[i][j] = Stretch(x, i, j)
  <2>1. R \in Nat \ {0} /\ C \in Nat \ {0}
    BY <1>1
  <2> QED BY <1>rep, <2>1, RepmatIs
<1>7. \A i \in 1..R, j \in 1..C :
        /\ bdims = <<>> => m[i][j] = a[1][1]
        /\ bdims = << 0 >> => m[i][j] = a[i][1]
        /\ bdims = << 1 >> => m[i][j] = a[j][1]
  BY <1>2, <1>5
<1>8. ASSUME IsMatrix(a, R, C), bdims # << 1 >> \/ (C = 1 /\ R = 1)
      PROVE  m = a
  <2>1. C = 1 /\ R = r
    BY <1>1, <1>8, SizeOf
  <2>2. \A i \in 1..R, j \in 1..C : m[i][j] = a[i][j]
    BY <1>1, <1>7, <1>8, <2>1
  <2> QED BY <1>6, <1>8, <2>2, EqualEntries
<1>9. CASE bdims = <<>>
  <2>1. CASE shape \in {<<>>, << 1 >>, <<1, 1>>}
    <3>1. R = 1 /\ C = 1
      BY <2>1, ShapeIs DEF R, C, ToRows, ToCols
    <3>2. _broadcast_in_dim(a, shape, bdims) = Value(a)
      BY <1>9, <2>1 DEF _broadcast_in_dim
    <3> QED BY <1>6, <1>8, <1>9, <3>1, <3>2 DEF m, R, C
  <2>2. CASE shape \notin {<<>>, << 1 >>, <<1, 1>>}
    <3>1. _broadcast_in_dim(a, shape, bdims) = Value(Repmat(a, shape[1], C))
      BY <1>9, <2>2 DEF _broadcast_in_dim, C
    <3>2. shape[1] = R
      BY <2>2 DEF R, ToRows
    <3>3. R \div r = R /\ C \div c = C
      BY <1>1, <1>4, <1>9, Quotients
    <3>4. /\ IsMatrix(Repmat(a, R \div r, C \div c), R, C)
          /\ \A i \in 1..R, j \in 1..C : Repmat(a, R \div r, C \div c)[i][j] = Stretch(a, i, j)
      <4>1. (r = 1 \/ R = r) /\ (c = 1 \/ C = c)
        BY <1>9
      <4>2. IsMatrix(a, r, c)
        OBVIOUS
      <4> QED BY <1>rep, <4>1, <4>2
    <3> DEFINE n == Repmat(a, R, C)
    <3>5. IsMatrix(n, R, C) /\ \A i \in 1..R, j \in 1..C : n[i][j] = Stretch(a, i, j)
      BY <3>3, <3>4
    <3>6. \A i \in 1..R, j \in 1..C : Stretch(a, i, j) = a[1][1]
      BY <1>1, <1>4, <1>9 DEF Stretch
    <3> HIDE DEF n
    <3>7. n = m
      BY <1>6, <1>7, <1>9, <3>5, <3>6, EqualEntries
    <3> QED BY <1>6, <3>1, <3>2, <3>7 DEF n, m, R, C
  <2> QED BY <2>1, <2>2
<1>10. CASE bdims = << 0 >>
  <2>1. bdims # <<>> /\ Len(bdims) = 1
    BY <1>10
  <2>0. Len(shape) \in {1, 2} /\ (Len(shape) = 1 => C = 1)
    <3>1. shape # <<>>
      BY <1>3, <1>10
    <3>2. \/ shape = <<>>
          \/ Len(shape) = 1 /\ ToCols(shape) = 1
          \/ Len(shape) = 2
      BY ShapeIs
    <3> QED BY <3>1, <3>2 DEF C
  <2>2. CASE Len(shape) <= 1 \/ C = 1
    <3>1. C = 1
      BY <2>0, <2>2
    <3>2. _broadcast_in_dim(a, shape, bdims) = Value(a)
      <4>1. CASE Len(shape) = 1
        BY <1>10, <2>1, <4>1 DEF _broadcast_in_dim
      <4>2. CASE Len(shape) = 2
        BY <1>10, <2>1, <3>1, <4>2 DEF _broadcast_in_dim, C
      <4> QED BY <2>0, <4>1, <4>2
    <3>3. IsMatrix(a, R, C)
      BY <1>3, <1>4, <1>10, <3>1 DEF R
    <3>4. m = a
      <4>1. bdims # << 1 >>
        BY <1>10
      <4> QED BY <1>8, <3>3, <4>1
    <3> QED BY <1>6, <3>2, <3>4 DEF m, R, C
  <2>3. CASE ~ (Len(shape) <= 1 \/ C = 1)
    <3>1. Len(shape) = 2
      BY <2>0, <2>3
    <3>2. _broadcast_in_dim(a, shape, bdims) = Value(Repmat(a, 1, C))
      BY <1>10, <2>1, <2>3, <3>1 DEF _broadcast_in_dim, C
    <3>3. R \div r = 1 /\ C \div c = C /\ R = r
      BY <1>1, <1>3, <1>4, <1>10, Quotients DEF R
    <3>4. /\ IsMatrix(Repmat(a, R \div r, C \div c), R, C)
          /\ \A i \in 1..R, j \in 1..C : Repmat(a, R \div r, C \div c)[i][j] = Stretch(a, i, j)
      <4>1. (r = 1 \/ R = r) /\ (c = 1 \/ C = c)
        BY <1>4, <3>3
      <4>2. IsMatrix(a, r, c)
        OBVIOUS
      <4> QED BY <1>rep, <4>1, <4>2
    <3> DEFINE n == Repmat(a, 1, C)
    <3>5. IsMatrix(n, R, C) /\ \A i \in 1..R, j \in 1..C : n[i][j] = Stretch(a, i, j)
      BY <3>3, <3>4
    <3>6. \A i \in 1..R, j \in 1..C : Stretch(a, i, j) = a[i][1]
      BY <1>1, <1>4, <3>3 DEF Stretch
    <3> HIDE DEF n
    <3>7. n = m
      BY <1>6, <1>7, <1>10, <3>5, <3>6, EqualEntries
    <3> QED BY <1>6, <3>2, <3>7 DEF n, m, R, C
  <2> QED BY <2>2, <2>3
<1>11. CASE bdims = << 1 >>
  <2>1. bdims # <<>> /\ Len(bdims) = 1 /\ bdims # << 0 >> /\ Len(shape) = 2 /\ C = r
    BY <1>3, <1>11 DEF C
  <2> DEFINE t == Transpose(a)
  <2>2. IsMatrix(t, c, r) /\ \A i \in 1..c, j \in 1..r : t[i][j] = a[j][i]
    BY TransposeOf
  <2>3. shape[1] = R
    BY <2>1 DEF R, ToRows
  <2>4. CASE R = 1
    <3>1. _broadcast_in_dim(a, shape, bdims) = Value(t)
      BY <1>11, <2>1, <2>3, <2>4 DEF _broadcast_in_dim
    <3> HIDE DEF t
    <3>2. IsMatrix(t, R, C)
      BY <1>4, <2>1, <2>2, <2>4
    <3>3. \A i \in 1..R, j \in 1..C : t[i][j] = m[i][j]
      BY <1>4, <1>7, <1>11, <2>1, <2>2, <2>4
    <3>4. t = m
      BY <1>6, <3>2, <3>3, EqualEntries
    <3> QED BY <1>6, <3>1, <3>4 DEF m, R, C
  <2>5. CASE R # 1
    <3>1. _broadcast_in_dim(a, shape, bdims) = Value(Repmat(t, R, 1))
      BY <1>11, <2>1, <2>3, <2>5 DEF _broadcast_in_dim
    <3> HIDE DEF t
    <3>2. R \div c = R /\ C \div r = 1
      BY <1>1, <1>4, <2>1, Quotients
    <3>3. /\ IsMatrix(Repmat(t, R \div c, C \div r), R, C)
          /\ \A i \in 1..R, j \in 1..C : Repmat(t, R \div c, C \div r)[i][j] = Stretch(t, i, j)
      <4>1. c = 1 \/ R = c
        BY <1>4
      <4>2. r = 1 \/ C = r
        BY <2>1
      <4>3. IsMatrix(t, c, r)
        BY <2>2
      <4>4. R \in Nat \ {0}
        BY <1>1
      <4>5. C \in Nat \ {0}
        BY <1>1
      <4> QED BY ONLY <4>1, <4>2, <4>3, <4>4, <4>5, RepmatIs
    <3> DEFINE n == Repmat(t, R, 1)
    <3>4. IsMatrix(n, R, C) /\ \A i \in 1..R, j \in 1..C : n[i][j] = Stretch(t, i, j)
      BY <3>2, <3>3
    <3>5. ASSUME NEW i \in 1..R, NEW j \in 1..C PROVE Stretch(t, i, j) = a[j][1]
      <4>1. i \in Nat \ {0} /\ j \in Nat \ {0} /\ j <= r /\ (r = 1 => j = 1)
        BY <1>1, <2>1
      <4>2. Stretch(t, i, j) = t[IF c = 1 THEN 1 ELSE i][IF r = 1 THEN 1 ELSE j]
        BY <1>4, <2>2, <4>1, StretchIs
      <4>3. Stretch(t, i, j) = t[1][j]
        BY <1>4, <4>1, <4>2
      <4> QED BY <1>1, <1>4, <2>1, <2>2, <4>1, <4>3
    <3> HIDE DEF n
    <3>6. \A i \in 1..R, j \in 1..C : n[i][j] = m[i][j]
      BY <1>7, <1>11, <3>4, <3>5
    <3>7. n = m
      BY <1>6, <3>4, <3>6, EqualEntries
    <3> QED BY <1>6, <3>1, <3>7 DEF n, m, R, C
  <2> QED BY <2>4, <2>5
<1> QED BY <1>9, <1>10, <1>11

\* Concatenation, below and beside.
LEMMA ConcatenationIs ==
  ASSUME NEW a, NEW r1, NEW c1, IsMatrix(a, r1, c1), NEW b, NEW r2, NEW c2, IsMatrix(b, r2, c2)
  PROVE  /\ c1 = c2 => IsMatrix(VertCat(a, b), r1 + r2, c1)
         /\ r1 = r2 => IsMatrix(HorzCat(a, b), r1, c1 + c2)
<1>1. /\ r1 \in Nat \ {0} /\ c1 \in Nat \ {0} /\ r2 \in Nat \ {0} /\ c2 \in Nat \ {0}
      /\ Rows(a) = r1 /\ Cols(a) = c1 /\ Rows(b) = r2 /\ Cols(b) = c2
  <2>1. Rows(a) = r1 /\ Cols(a) = c1
    BY SizeOf
  <2>2. Rows(b) = r2 /\ Cols(b) = c2
    BY SizeOf
  <2> QED BY <2>1, <2>2 DEF IsMatrix
<1>sums. r1 + r2 \in Nat \ {0} /\ c1 + c2 \in Nat \ {0}
  BY <1>1
<1>2. a \in [1..r1 -> [1..c1 -> Field]] /\ b \in [1..r2 -> [1..c2 -> Field]]
  BY DEF IsMatrix
<1>3. ASSUME NEW T, NEW m \in Nat, NEW n \in Nat, NEW s \in [1..m -> T], NEW t \in [1..n -> T]
      PROVE  s \o t \in [1..(m + n) -> T]
  <2>1. s \in Seq(T) /\ t \in Seq(T) /\ Len(s) = m /\ Len(t) = n
    OBVIOUS
  <2> DEFINE u == s \o t
  <2>2. u \in Seq(T) /\ Len(u) = m + n
    BY <2>1
  <2> HIDE DEF u
  <2>3. u \in [1..(m + n) -> T]
    BY <2>2
  <2> QED BY <2>3 DEF u
<1>4. ASSUME c1 = c2 PROVE IsMatrix(VertCat(a, b), r1 + r2, c1)
  <2>1. VertCat(a, b) = a \o b
    BY <1>1, <1>4 DEF VertCat
  <2>2. b \in [1..r2 -> [1..c1 -> Field]]
    BY <1>2, <1>4
  <2>3. a \o b \in [1..(r1 + r2) -> [1..c1 -> Field]]
    BY <1>1, <1>2, <1>3, <2>2
  <2> QED BY <1>1, <1>sums, <2>1, <2>3 DEF IsMatrix
<1>5. ASSUME r1 = r2 PROVE IsMatrix(HorzCat(a, b), r1, c1 + c2)
  <2>1. HorzCat(a, b) = [i \in 1..r1 |-> a[i] \o b[i]]
    BY <1>1, <1>5 DEF HorzCat
  <2>2. ASSUME NEW i \in 1..r1 PROVE a[i] \o b[i] \in [1..(c1 + c2) -> Field]
    <3>1. a[i] \in [1..c1 -> Field] /\ b[i] \in [1..c2 -> Field]
      BY <1>2, <1>5
    <3> QED BY <1>1, <1>3, <3>1
  <2> QED BY <1>1, <1>sums, <2>1, <2>2 DEF IsMatrix
<1> QED BY <1>4, <1>5

\* A count of rows and what is left over.
LEMMA Counted ==
  ASSUME NEW q \in Nat, NEW n \in Nat \ {0}, NEW s \in 0..(n - 1)
  PROVE  (q * n + s) % n = s /\ (q * n + s) \div n = q
BY SMT

\* Counting along the rows and down the columns agree when nothing moves, or
\* when the entries stand in one line before and after.
LEMMA ReshapeAgrees ==
  ASSUME NEW a, NEW r, NEW c, IsMatrix(a, r, c),
         NEW R \in Nat \ {0}, NEW C \in Nat \ {0}, r * c = R * C,
         (R = r /\ C = c) \/ (1 \in {r, c} /\ 1 \in {R, C})
  PROVE  /\ Reshape(a, R, C) = RowMajorReshape(a, R, C)
         /\ IsMatrix(RowMajorReshape(a, R, C), R, C)
<1> DEFINE down(i, j) == (j - 1) * R + (i - 1)
           along(i, j) == (i - 1) * C + (j - 1)
<1>1. /\ Rows(a) = r /\ Cols(a) = c /\ r \in Nat \ {0} /\ c \in Nat \ {0}
      /\ a \in [1..r -> [1..c -> Field]]
  BY SizeOf DEF IsMatrix
<1>2. Reshape(a, R, C) =
        [i \in 1..R |-> [j \in 1..C |-> a[(down(i, j) % r) + 1][(down(i, j) \div r) + 1]]]
  BY <1>1 DEF Reshape, Grid
<1>3. RowMajorReshape(a, R, C) =
        [i \in 1..R |-> [j \in 1..C |-> a[(along(i, j) \div c) + 1][(along(i, j) % c) + 1]]]
  BY <1>1 DEF RowMajorReshape, Grid
<1>4. ASSUME NEW i \in 1..R, NEW j \in 1..C
      PROVE  /\ down(i, j) % r = along(i, j) \div c /\ down(i, j) \div r = along(i, j) % c
             /\ (along(i, j) \div c) + 1 \in 1..r /\ (along(i, j) % c) + 1 \in 1..c
  <2>1. CASE R = r /\ C = c
    <3> DEFINE p == i - 1
               q == j - 1
    <3>1. p \in Nat /\ p \in 0..(r - 1) /\ q \in Nat /\ q \in 0..(c - 1)
      BY <1>1, <2>1
    <3>2. down(i, j) = q * r + p /\ along(i, j) = p * c + q
      BY <2>1
    <3>3. p + 1 \in 1..r /\ q + 1 \in 1..c
      BY <1>1, <3>1
    <3> HIDE DEF p, q, down, along
    <3>4. (q * r + p) % r = p /\ (q * r + p) \div r = q
      <4>1. q \in Nat
        BY <3>1
      <4>2. r \in Nat \ {0}
        BY <1>1
      <4>3. p \in 0..(r - 1)
        BY <3>1
      <4> QED BY <4>1, <4>2, <4>3, Counted
    <3>5. (p * c + q) % c = q /\ (p * c + q) \div c = p
      <4>1. p \in Nat
        BY <3>1
      <4>2. c \in Nat \ {0}
        BY <1>1
      <4>3. q \in 0..(c - 1)
        BY <3>1
      <4> QED BY <4>1, <4>2, <4>3, Counted
    <3> QED BY <3>2, <3>3, <3>4, <3>5
  <2>2. CASE 1 \in {r, c} /\ 1 \in {R, C}
    <3> DEFINE k == (i - 1) + (j - 1)
    <3>1. down(i, j) = k /\ along(i, j) = k /\ k \in Nat /\ k <= R * C - 1
      <4>1. CASE R = 1
        BY <4>1, SMT
      <4>2. CASE C = 1
        BY <4>2, SMT
      <4> QED BY <2>2, <4>1, <4>2
    <3> HIDE DEF k, down, along
    <3>2. k <= r * c - 1
      BY <3>1
    <3>3. CASE c = 1
      <4>1. k \in 0..(r - 1)
        BY <1>1, <3>1, <3>2, <3>3, SMT
      <4>2. k % r = k /\ k \div r = 0 /\ k \div 1 = k /\ k % 1 = 0
        <5>1. (0 * r + k) % r = k /\ (0 * r + k) \div r = 0
          BY <1>1, <4>1, Counted
        <5>2. 0 * r + k = k
          BY <1>1, <3>1
        <5>3. k \div 1 = k /\ k % 1 = 0
          BY <3>1, SMT
        <5> QED BY <5>1, <5>2, <5>3
      <4> QED BY <1>1, <3>1, <3>3, <4>1, <4>2
    <3>4. CASE r = 1
      <4>1. k \in 0..(c - 1)
        BY <1>1, <3>1, <3>2, <3>4, SMT
      <4>2. k % c = k /\ k \div c = 0 /\ k \div 1 = k /\ k % 1 = 0
        <5>1. (0 * c + k) % c = k /\ (0 * c + k) \div c = 0
          <6>1. c \in Nat \ {0} /\ 0 \in Nat
            BY <1>1
          <6> QED BY ONLY <4>1, <6>1, Counted, ZenonT(30)
        <5>2. 0 * c + k = k
          BY <1>1, <3>1
        <5>3. k \div 1 = k /\ k % 1 = 0
          BY <3>1, SMT
        <5> QED BY <5>1, <5>2, <5>3
      <4> QED BY <1>1, <3>1, <3>4, <4>1, <4>2
    <3> QED BY <2>2, <3>3, <3>4
  <2> QED BY <2>1, <2>2
<1> HIDE DEF down, along
<1>5. \A i \in 1..R, j \in 1..C :
        /\ a[(along(i, j) \div c) + 1][(along(i, j) % c) + 1] \in Field
        /\ a[(down(i, j) % r) + 1][(down(i, j) \div r) + 1]
             = a[(along(i, j) \div c) + 1][(along(i, j) % c) + 1]
  BY <1>1, <1>4
<1>6. IsMatrix(RowMajorReshape(a, R, C), R, C)
  BY <1>3, <1>5 DEF IsMatrix
<1>7. Reshape(a, R, C) = RowMajorReshape(a, R, C)
  BY <1>2, <1>3, <1>5
<1> QED BY <1>6, <1>7

(***************************************************************************)
(* Sums and products modulo P.                                             *)
(***************************************************************************)

\* A number is a multiple of P and its remainder.
LEMMA ModOf ==
  ASSUME NEW x \in Int
  PROVE  \E q \in Int : q * P \in Int /\ x = q * P + (x % P)
<1>1. P \in Nat \ {0}
  BY PrimeAssumption
<1>2. x \div P \in Int /\ (x \div P) * P \in Int
  BY <1>1, SMT
<1>3. x = (x \div P) * P + (x % P)
  BY <1>1, SMT
<1> QED BY <1>2, <1>3

\* A multiple of P makes no difference.
LEMMA ModUnique ==
  ASSUME NEW x \in Int, NEW q \in Int
  PROVE  (x + q * P) % P = x % P
<1>0. P \in Nat \ {0} /\ q * P \in Int
  BY PrimeAssumption
<1> DEFINE y == x + q * P
<1>1. y \in Int
  BY <1>0
<1> HIDE DEF y
<1>2. PICK a \in Int : a * P \in Int /\ x = a * P + (x % P)
  BY ModOf
<1>3. PICK b \in Int : b * P \in Int /\ y = b * P + (y % P)
  BY <1>1, ModOf
<1> DEFINE r == x % P
           t == y % P
           d == a + q - b
<1>4. r \in 0..(P - 1) /\ t \in 0..(P - 1) /\ x = a * P + r /\ y = b * P + t
  BY <1>0, <1>1, <1>2, <1>3
<1>5. d \in Int /\ y = x + q * P
  BY DEF y
<1> HIDE DEF r, t, d
<1>6. d * P = t - r
  <2>1. d * P = a * P + q * P - b * P
    BY <1>0, <1>2, <1>3, SMT DEF d
  <2> QED BY <1>0, <1>2, <1>3, <1>4, <1>5, <2>1
<1>7. d = 0
  <2>1. CASE d >= 1
    <3>1. d * P >= P
      BY <1>0, <1>5, <2>1, SMT
    <3> QED BY <1>0, <1>4, <1>6, <3>1
  <2>2. CASE d <= -1
    <3>1. d * P <= -P
      BY <1>0, <1>5, <2>2, SMT
    <3> QED BY <1>0, <1>4, <1>6, <3>1
  <2> QED BY <1>5, <2>1, <2>2
<1>8. d * P = 0
  BY <1>0, <1>7
<1>9. r = t
  BY <1>4, <1>6, <1>8
<1> QED BY <1>9 DEF y, r, t

\* Remainders may be taken before a sum, a difference or a product.
LEMMA ModLaws ==
  ASSUME NEW x \in Int, NEW y \in Int
  PROVE  /\ ((x % P) + y) % P = (x + y) % P
         /\ (x - (y % P)) % P = (x - y) % P
         /\ (x * (y % P)) % P = (x * y) % P
<1>0. P \in Nat \ {0}
  BY PrimeAssumption
<1>1. PICK a \in Int : a * P \in Int /\ x = a * P + (x % P)
  BY ModOf
<1>2. PICK b \in Int : b * P \in Int /\ y = b * P + (y % P)
  BY ModOf
<1>3. x % P \in Int /\ y % P \in Int
  BY <1>0
<1> DEFINE r == x % P
           t == y % P
<1>4. r \in Int /\ t \in Int /\ x = a * P + r /\ y = b * P + t
  BY <1>1, <1>2, <1>3
<1> HIDE DEF r, t
<1>5. (r + y) % P = (x + y) % P
  <2>1. x + y = (r + y) + a * P /\ r + y \in Int
    BY <1>1, <1>4
  <2> QED BY <2>1, ModUnique
<1>6. (x - t) % P = (x - y) % P
  <2>1. x - t = (x - y) + b * P /\ x - y \in Int
    BY <1>2, <1>4
  <2> QED BY <2>1, ModUnique
<1>7. (x * t) % P = (x * y) % P
  <2>1. x * t \in Int /\ x * b \in Int
    BY <1>4, SMT
  <2>2. x * y = x * t + (x * b) * P
    <3>1. x * y = x * (b * P + t)
      BY <1>4
    <3>2. x * (b * P + t) = x * t + (x * b) * P
      BY <1>0, <1>4, SMT
    <3> QED BY <3>1, <3>2
  <2> QED BY <2>1, <2>2, ModUnique
<1> QED BY <1>5, <1>6, <1>7 DEF r, t
\* The sums of the first numbers of g.
Sums(s, n, g) ==
  s \in [0..n -> Field] /\ s[0] = 0 /\ \A k \in 1..n : s[k] = (s[k - 1] + g[k]) % P

LEMMA TotalIs ==
  ASSUME NEW n \in Nat, NEW g \in [1..n -> Int]
  PROVE  \E s : Sums(s, n, g) /\ Total(n, g) = s[n]
<1> DEFINE IsSums(s) == s = [k \in 0..n |-> IF k = 0 THEN 0 ELSE (s[k - 1] + g[k]) % P]
           s == CHOOSE s : IsSums(s)
<1>1. Total(n, g) = s[n]
  BY DEF Total
<1>2. PICK f \in [0..n -> Field] : IsSums(f)
  <2> DEFINE next == [e \in Field \X (1..n) |-> (e[1] + g[e[2]]) % P]
  <2>1. next \in [Field \X (1..n) -> Field]
    <3>1. ASSUME NEW e \in Field \X (1..n) PROVE (e[1] + g[e[2]]) % P \in Field
      <4>1. e[1] \in Int /\ g[e[2]] \in Int
        BY FieldOf
      <4>2. e[1] + g[e[2]] \in Int
        BY <4>1
      <4> QED BY <4>2, FieldOf
    <3> QED BY <3>1
  <2>2. \A y \in Field, k \in 1..n : next[<<y, k>>] = (y + g[k]) % P
    OBVIOUS
  <2> HIDE DEF next
  <2>3. PICK f \in [0..n -> Field] : Chain(f, 0, next, n)
    BY <2>1, FieldOf, ChainExists
  <2>4. \A k \in 0..n : f[k] = IF k = 0 THEN 0 ELSE (f[k - 1] + g[k]) % P
    <3> TAKE k \in 0..n
    <3>1. f[k] = IF k = 0 THEN 0 ELSE next[<<f[k - 1], k>>]
      BY <2>3 DEF Chain
    <3>2. k # 0 => k - 1 \in 0..n /\ k \in 1..n
      OBVIOUS
    <3> QED BY <2>2, <2>3, <3>1, <3>2
  <2>5. f = [k \in 0..n |-> f[k]]
    BY <2>3
  <2> QED BY <2>3, <2>4, <2>5
<1>3. IsSums(s)
  BY <1>2
<1> HIDE DEF s
<1>4. \A k \in 0..n : s[k] = IF k = 0 THEN 0 ELSE (s[k - 1] + g[k]) % P
  BY <1>3
<1>5. s = [k \in 0..n |-> s[k]]
  <2>1. s = [k \in 0..n |-> IF k = 0 THEN 0 ELSE (s[k - 1] + g[k]) % P]
    BY <1>3
  <2>2. DOMAIN s = 0..n
    BY <2>1
  <2> HIDE DEF IsSums
  <2> QED BY <1>4, <2>1
<1> HIDE DEF IsSums
<1>6. \A k \in 0..n : s[k] \in Field
  <2> DEFINE T == {k \in 0..n : s[k] \in Field}
  <2>1. 0 \in T
    BY <1>4, FieldOf
  <2>2. ASSUME NEW k \in 0 .. (n - 1), k \in T PROVE k + 1 \in T
    <3>1. k + 1 \in 0..n /\ k + 1 \in 1..n /\ k + 1 # 0 /\ (k + 1) - 1 = k
      OBVIOUS
    <3>2. s[k + 1] = (s[k] + g[k + 1]) % P
      BY <1>4, <3>1
    <3>3. s[k] \in Int /\ g[k + 1] \in Int
      BY <2>2, <3>1, FieldOf
    <3>4. s[k] + g[k + 1] \in Int
      BY <3>3
    <3> QED BY <3>1, <3>2, <3>4, FieldOf
  <2> HIDE DEF T
  <2>3. \A k \in 0 .. (n - 1) : k \in T => k + 1 \in T
    BY <2>2
  <2>4. \A k \in 0..n : k \in T
    BY <2>1, <2>3, UpTo
  <2> QED BY <2>4 DEF T
<1>7. Sums(s, n, g)
  <2>1. s \in [0..n -> Field]
    BY <1>5, <1>6
  <2>2. s[0] = 0 /\ \A k \in 1..n : s[k] = (s[k - 1] + g[k]) % P
    BY <1>4
  <2> QED BY <2>1, <2>2 DEF Sums
<1> QED BY <1>1, <1>7

\* A sum of which at most one number counts.
LEMMA TotalOfOne ==
  ASSUME NEW n \in Nat, NEW g \in [1..n -> Int], NEW i \in 1..n,
         \A k \in 1..n : k # i => g[k] % P = 0
  PROVE  Total(n, g) = g[i] % P
<1>1. PICK s : Sums(s, n, g) /\ Total(n, g) = s[n]
  BY TotalIs
<1>2. /\ s \in [0..n -> Field] /\ s[0] = 0
      /\ \A k \in 1..n : s[k] = (s[k - 1] + g[k]) % P
  BY <1>1 DEF Sums
<1> DEFINE T == {k \in 0..n : s[k] = IF k < i THEN 0 ELSE g[i] % P}
<1>3. 0 \in T
  BY <1>2
<1>4. ASSUME NEW k \in 0 .. (n - 1), k \in T PROVE k + 1 \in T
  <2>1. k + 1 \in 0..n /\ k + 1 \in 1..n /\ (k + 1) - 1 = k /\ k \in 0..n
    OBVIOUS
  <2>2. s[k + 1] = (s[k] + g[k + 1]) % P
    BY <1>2, <2>1
  <2>3. s[k] \in Field /\ s[k] \in Int /\ g[k + 1] \in Int /\ s[k] % P = s[k]
    BY <1>2, <2>1, FieldOf
  <2>4. s[k] = IF k < i THEN 0 ELSE g[i] % P
    BY <1>4
  <2>5. CASE k + 1 = i
    <3>1. s[k] = 0 /\ 0 + g[k + 1] = g[i]
      BY <2>3, <2>4, <2>5
    <3> QED BY <2>1, <2>2, <2>5, <3>1
  <2>6. CASE k + 1 # i
    <3>1. g[k + 1] % P = 0
      BY <2>1, <2>6
    <3>2. ((g[k + 1] % P) + s[k]) % P = (g[k + 1] + s[k]) % P
      BY <2>3, ModLaws
    <3>3. g[k + 1] + s[k] = s[k] + g[k + 1] /\ 0 + s[k] = s[k]
      BY <2>3
    <3>4. s[k + 1] = s[k]
      BY <2>2, <2>3, <3>1, <3>2, <3>3
    <3>5. (k + 1 < i) <=> (k < i)
      BY <2>6
    <3> QED BY <2>1, <2>4, <3>4, <3>5
  <2> QED BY <2>5, <2>6
<1> HIDE DEF T
<1>5. \A k \in 0 .. (n - 1) : k \in T => k + 1 \in T
  BY <1>4
<1>6. \A k \in 0..n : k \in T
  BY <1>3, <1>5, UpTo
<1>7. n \in 0..n /\ ~(n < i)
  OBVIOUS
<1> QED BY <1>1, <1>6, <1>7 DEF T

\* A sum of nothing.
LEMMA TotalOfZeros ==
  ASSUME NEW n \in Nat, NEW g \in [1..n -> Int], \A k \in 1..n : g[k] % P = 0
  PROVE  Total(n, g) = 0
<1>1. CASE n = 0
  <2>1. PICK s : Sums(s, n, g) /\ Total(n, g) = s[n]
    BY TotalIs
  <2> QED BY <1>1, <2>1 DEF Sums
<1>2. CASE n # 0
  <2>1. 1 \in 1..n
    BY <1>2
  <2>2. Total(n, g) = g[1] % P
    BY <2>1, TotalOfOne
  <2> QED BY <2>1, <2>2
<1> QED BY <1>1, <1>2

\* A weighted sum of differences from z is a difference from a weighted sum.
LEMMA TotalOfDifferences ==
  ASSUME NEW n \in Nat, NEW a \in [1..n -> Int], NEW r \in [1..n -> Int], NEW z \in Int
  PROVE  Total(n, [k \in 1..n |-> a[k] * (z - r[k])])
           = (z * Total(n, a) - Total(n, [k \in 1..n |-> a[k] * r[k]])) % P
<1> DEFINE b == [k \in 1..n |-> a[k] * r[k]]
           c == [k \in 1..n |-> a[k] * (z - r[k])]
<1>1. b \in [1..n -> Int] /\ c \in [1..n -> Int]
  <2>1. \A k \in 1..n : a[k] * r[k] \in Int /\ a[k] * (z - r[k]) \in Int
    <3> TAKE k \in 1..n
    <3>1. a[k] \in Int /\ r[k] \in Int /\ z - r[k] \in Int
      OBVIOUS
    <3> QED BY <3>1
  <2> QED BY <2>1
<1>2. \A k \in 1..n : b[k] = a[k] * r[k] /\ c[k] = a[k] * (z - r[k])
  OBVIOUS
<1> HIDE DEF b, c
<1>3. PICK s : Sums(s, n, a) /\ Total(n, a) = s[n]
  BY TotalIs
<1>4. PICK t : Sums(t, n, b) /\ Total(n, b) = t[n]
  BY <1>1, TotalIs
<1>5. PICK u : Sums(u, n, c) /\ Total(n, c) = u[n]
  BY <1>1, TotalIs
<1>6. /\ \A k \in 0..n : s[k] \in Int /\ t[k] \in Int /\ u[k] \in Int
      /\ s[0] = 0 /\ t[0] = 0 /\ u[0] = 0
      /\ \A k \in 1..n : /\ s[k] = (s[k - 1] + a[k]) % P
                         /\ t[k] = (t[k - 1] + b[k]) % P
                         /\ u[k] = (u[k - 1] + c[k]) % P
  <2>1. /\ s \in [0..n -> Field] /\ t \in [0..n -> Field] /\ u \in [0..n -> Field]
        /\ s[0] = 0 /\ t[0] = 0 /\ u[0] = 0
    BY <1>3, <1>4, <1>5 DEF Sums
  <2>2. \A k \in 0..n : s[k] \in Int /\ t[k] \in Int /\ u[k] \in Int
    BY <2>1, FieldOf
  <2> QED BY <1>3, <1>4, <1>5, <2>1, <2>2 DEF Sums
<1> DEFINE T == {k \in 0..n : u[k] = (z * s[k] - t[k]) % P}
<1>7. 0 \in T
  <2>1. z * 0 - 0 = 0
    OBVIOUS
  <2> QED BY <1>6, <2>1, FieldOf
<1>8. ASSUME NEW k \in 0 .. (n - 1), k \in T PROVE k + 1 \in T
  <2>1. k + 1 \in 0..n /\ k + 1 \in 1..n /\ (k + 1) - 1 = k /\ k \in 0..n
    OBVIOUS
  <2> DEFINE A == a[k + 1]
             R == r[k + 1]
  <2>2. /\ s[k + 1] = (s[k] + A) % P /\ t[k + 1] = (t[k] + A * R) % P
        /\ u[k + 1] = (u[k] + A * (z - R)) % P
    BY <1>2, <1>6, <2>1
  <2>3. A \in Int /\ R \in Int /\ s[k] \in Int /\ t[k] \in Int
    BY <1>6, <2>1
  <2>4. u[k] = (z * s[k] - t[k]) % P
    BY <1>8
  <2> DEFINE x == z * s[k] - t[k]
             y == A * (z - R)
             v == s[k] + A
             w == t[k] + A * R
  <2>5. x \in Int /\ y \in Int /\ v \in Int /\ w \in Int /\ z * v \in Int
    <3> HIDE DEF A, R
    <3>1. z * s[k] \in Int /\ A * R \in Int /\ z - R \in Int /\ v \in Int
      BY <2>3
    <3>2. A * (z - R) \in Int /\ z * v \in Int
      BY <2>3, <3>1
    <3>3. x \in Int
      BY <2>3, <3>1
    <3>4. y \in Int
      BY <3>2
    <3>5. w \in Int
      BY <2>3, <3>1
    <3> HIDE DEF x, y, v, w
    <3> QED BY <3>1, <3>2, <3>3, <3>4, <3>5
  <2>6. x + y = z * v - w
    BY <2>3, SMT
  <2>7. u[k + 1] = ((x % P) + y) % P /\ s[k + 1] = v % P /\ t[k + 1] = w % P
    BY <2>2, <2>4
  <2> HIDE DEF A, R, x, y, v, w
  <2>8. u[k + 1] = (x + y) % P
    BY <2>5, <2>7, ModLaws
  <2>9. (z * (v % P) - (w % P)) % P = (z * v - w) % P
    <3>1. v % P \in Int /\ w % P \in Int
      BY <2>5, FieldOf
    <3>2. z * (v % P) \in Int
      BY <3>1
    <3>3. (z * (v % P) - (w % P)) % P = (z * (v % P) - w) % P
      BY <2>5, <3>2, ModLaws
    <3>4. (z * (v % P)) % P = (z * v) % P
      BY <2>5, ModLaws
    <3>5. (((z * (v % P)) % P) + (-w)) % P = (z * (v % P) + (-w)) % P
      BY <2>5, <3>2, ModLaws
    <3>6. (((z * v) % P) + (-w)) % P = (z * v + (-w)) % P
      BY <2>5, ModLaws
    <3>7. z * (v % P) + (-w) = z * (v % P) - w /\ z * v + (-w) = z * v - w
      BY <2>5, <3>2
    <3> QED BY <3>3, <3>4, <3>5, <3>6, <3>7
  <2>10. u[k + 1] = (z * s[k + 1] - t[k + 1]) % P
    BY <2>6, <2>7, <2>8, <2>9
  <2> QED BY <2>1, <2>10
<1> HIDE DEF T
<1>9. \A k \in 0 .. (n - 1) : k \in T => k + 1 \in T
  BY <1>8
<1>10. \A k \in 0..n : k \in T
  BY <1>7, <1>9, UpTo
<1>11. u[n] = (z * s[n] - t[n]) % P
  BY <1>10 DEF T
<1> QED BY <1>3, <1>4, <1>5, <1>11 DEF b, c

(***************************************************************************)
(* Products of matrices.                                                   *)
(***************************************************************************)

\* An entry of a product of matrices that share n columns and rows.
RowByColumn(a, b, n, i, j) == SumOver(n, LAMBDA k : a[i][k] * b[k][j])

\* It is a number, and a single product where one entry is shared.
LEMMA SumIn ==
  ASSUME NEW n \in Nat, NEW a, NEW b, NEW i, NEW j,
         \A k \in 1..n : a[i][k] \in Field /\ b[k][j] \in Field
  PROVE  /\ RowByColumn(a, b, n, i, j) \in Field
         /\ n = 1 => RowByColumn(a, b, n, i, j) = (a[i][1] * b[1][j]) % P
<1> DEFINE g == [k \in 1..n |-> a[i][k] * b[k][j]]
<1>1. g \in [1..n -> Int]
  <2>1. \A k \in 1..n : a[i][k] * b[k][j] \in Int
    <3> TAKE k \in 1..n
    <3>1. a[i][k] \in Int /\ b[k][j] \in Int
      BY FieldOf
    <3> QED BY <3>1
  <2> QED BY <2>1
<1>2. RowByColumn(a, b, n, i, j) = Total(n, g)
  BY DEF RowByColumn, SumOver
<1>3. \A k \in 1..n : g[k] = a[i][k] * b[k][j]
  OBVIOUS
<1> HIDE DEF g
<1>4. Total(n, g) \in Field
  <2>1. PICK s : Sums(s, n, g) /\ Total(n, g) = s[n]
    BY <1>1, TotalIs
  <2> QED BY <2>1 DEF Sums
<1>5. n = 1 => Total(n, g) = g[1] % P
  <2> HAVE n = 1
  <2>1. 1 \in 1..n /\ \A k \in 1..n : k # 1 => g[k] % P = 0
    OBVIOUS
  <2> QED BY <1>1, <2>1, TotalOfOne
<1> QED BY <1>2, <1>3, <1>4, <1>5

\* Matrices that fit: the product is one, and mtimes finds it, a 1x1 operand
\* or not.
LEMMA ProductIs ==
  ASSUME NEW a, NEW r, NEW n, IsMatrix(a, r, n), NEW b, NEW c, IsMatrix(b, n, c)
  PROVE  IsMatrix(MatProduct(a, b), r, c) /\ MTimes(a, b) = MatProduct(a, b)
<1>1. /\ r \in Nat \ {0} /\ n \in Nat \ {0} /\ c \in Nat \ {0}
      /\ Rows(a) = r /\ Cols(a) = n
  BY SizeOf DEF IsMatrix
<1>2. Rows(b) = n /\ Cols(b) = c
  BY SizeOf
<1>3. /\ \A i \in 1..r, k \in 1..n : a[i][k] \in Field
      /\ \A k \in 1..n, j \in 1..c : b[k][j] \in Field
  BY DEF IsMatrix
<1>4. MatProduct(a, b) = [i \in 1..r |-> [j \in 1..c |-> RowByColumn(a, b, n, i, j)]]
  BY <1>1, <1>2 DEF MatProduct, Grid, RowByColumn
<1>5. ASSUME NEW i \in 1..r, NEW j \in 1..c
      PROVE  /\ RowByColumn(a, b, n, i, j) \in Field
             /\ n = 1 => RowByColumn(a, b, n, i, j) = (a[i][1] * b[1][j]) % P
  <2>1. \A k \in 1..n : a[i][k] \in Field /\ b[k][j] \in Field
    BY <1>3
  <2>2. n \in Nat
    BY <1>1
  <2> QED BY <2>1, <2>2, SumIn
<1>6. IsMatrix(MatProduct(a, b), r, c)
  BY <1>1, <1>4, <1>5 DEF IsMatrix
<1>7. n = 1 => MatProduct(a, b) = [i \in 1..r |-> [j \in 1..c |-> (a[i][1] * b[1][j]) % P]]
  BY <1>4, <1>5
<1>8. IsScalar(a) <=> (r = 1 /\ n = 1)
  BY ScalarIs
<1>9. IsScalar(b) <=> (n = 1 /\ c = 1)
  BY ScalarIs
<1>10. CASE IsScalar(a)
  <2>1. MTimes(a, b) = [i \in 1..n |-> [j \in 1..c |-> (a[1][1] * b[i][j]) % P]]
    BY <1>2, <1>10 DEF MTimes, Entrywise, Grid
  <2>2. [i \in 1..r |-> [j \in 1..c |-> (a[i][1] * b[1][j]) % P]]
          = [i \in 1..1 |-> [j \in 1..c |-> (a[1][1] * b[1][j]) % P]]
    BY <1>8, <1>10
  <2>3. [i \in 1..n |-> [j \in 1..c |-> (a[1][1] * b[i][j]) % P]]
          = [i \in 1..1 |-> [j \in 1..c |-> (a[1][1] * b[1][j]) % P]]
    BY <1>8, <1>10
  <2> QED BY <1>6, <1>7, <1>8, <1>10, <2>1, <2>2, <2>3
<1>11. CASE ~IsScalar(a) /\ IsScalar(b)
  <2>1. MTimes(a, b) = [i \in 1..r |-> [j \in 1..n |-> (a[i][j] * b[1][1]) % P]]
    BY <1>1, <1>11 DEF MTimes, Entrywise, Grid
  <2>2. [i \in 1..r |-> [j \in 1..n |-> (a[i][j] * b[1][1]) % P]]
          = [i \in 1..r |-> [j \in 1..1 |-> (a[i][1] * b[1][1]) % P]]
    BY <1>9, <1>11
  <2>3. [i \in 1..r |-> [j \in 1..c |-> (a[i][1] * b[1][j]) % P]]
          = [i \in 1..r |-> [j \in 1..1 |-> (a[i][1] * b[1][1]) % P]]
    BY <1>9, <1>11
  <2> QED BY <1>6, <1>7, <1>9, <1>11, <2>1, <2>2, <2>3
<1>12. CASE ~IsScalar(a) /\ ~IsScalar(b)
  BY <1>1, <1>2, <1>6, <1>12 DEF MTimes
<1> QED BY <1>10, <1>11, <1>12

(***************************************************************************)
(* Slices and selections.                                                  *)
(***************************************************************************)

\* A part that is there is a matrix.
LEMMA BlockIs ==
  ASSUME NEW m, NEW r, NEW c, IsMatrix(m, r, c),
         NEW r0 \in Int, NEW r1 \in Int, NEW c0 \in Int, NEW c1 \in Int,
         0 <= r0, r0 < r1, r1 <= r, 0 <= c0, c0 < c1, c1 <= c
  PROVE  IsMatrix(Block(m, r0, r1, c0, c1), r1 - r0, c1 - c0)
<1>1. r1 - r0 \in Nat \ {0} /\ c1 - c0 \in Nat \ {0}
  OBVIOUS
<1>2. Block(m, r0, r1, c0, c1)
        = [i \in 1..(r1 - r0) |-> [j \in 1..(c1 - c0) |-> m[r0 + i][c0 + j]]]
  BY SizeOf DEF Block, Grid
<1>3. ASSUME NEW i \in 1..(r1 - r0), NEW j \in 1..(c1 - c0) PROVE m[r0 + i][c0 + j] \in Field
  <2>1. r0 + i \in 1..r /\ c0 + j \in 1..c
    BY DEF IsMatrix
  <2> QED BY <2>1 DEF IsMatrix
<1> QED BY <1>1, <1>2, <1>3 DEF IsMatrix

\* A part that is not raised is within the matrix.
LEMMA BlockWithin ==
  ASSUME NEW m, NEW r, NEW c, IsMatrix(m, r, c), NEW r0, NEW r1, NEW c0, NEW c1,
         Block(m, r0, r1, c0, c1) # Raised
  PROVE  0 <= r0 /\ r0 < r1 /\ r1 <= r /\ 0 <= c0 /\ c0 < c1 /\ c1 <= c
BY SizeOf DEF Block

\* A column is flat already.
LEMMA FlatAlready ==
  ASSUME NEW m, NEW r, IsMatrix(m, r, 1)
  PROVE  Reshape(m, r, 1) = m
<1>1. r \in Nat \ {0} /\ Rows(m) = r /\ Cols(m) = 1 /\ r * 1 = r
  <2>1. Rows(m) = r /\ Cols(m) = 1
    BY SizeOf
  <2>2. r \in Nat \ {0}
    BY DEF IsMatrix
  <2> QED BY <2>1, <2>2
<1>2. /\ Reshape(m, r, 1) = RowMajorReshape(m, r, 1)
      /\ IsMatrix(RowMajorReshape(m, r, 1), r, 1)
  BY <1>1, ReshapeAgrees
<1> DEFINE n == RowMajorReshape(m, r, 1)
           along(i, j) == (i - 1) * 1 + (j - 1)
<1>3. n = [i \in 1..r |-> [j \in 1..1 |-> m[(along(i, j) \div 1) + 1][(along(i, j) % 1) + 1]]]
  BY <1>1 DEF RowMajorReshape, Grid
<1>4. ASSUME NEW i \in 1..r, NEW j \in 1..1 PROVE n[i][j] = m[i][j]
  <2>1. j = 1 /\ i \in Int
    BY <1>1
  <2>2. along(i, j) = i - 1 /\ along(i, j) \div 1 = i - 1 /\ along(i, j) % 1 = 0
    BY <2>1, SMT
  <2> HIDE DEF n, along
  <2>3. n[i][j] = m[(along(i, j) \div 1) + 1][(along(i, j) % 1) + 1]
    BY <1>3
  <2>4. (i - 1) + 1 = i /\ 0 + 1 = 1
    BY <2>1
  <2> QED BY <2>1, <2>2, <2>3, <2>4
<1> HIDE DEF n
<1>5. IsMatrix(n, r, 1)
  BY <1>2 DEF n
<1>6. n = m
  BY <1>4, <1>5, EqualEntries
<1> QED BY <1>2, <1>6 DEF n

\* The entries of one index are a part of a column.
LEMMA EntriesAre ==
  ASSUME NEW m, NEW r, IsMatrix(m, r, 1), NEW s \in Int, NEW t \in Int,
         0 <= s, s < t, t <= r
  PROVE  Entries(m, s, t) = Block(m, s, t, 0, 1)
<1>1. r \in Nat \ {0} /\ Rows(m) = r /\ Cols(m) = 1 /\ r * 1 = r
  <2>1. Rows(m) = r /\ Cols(m) = 1
    BY SizeOf
  <2>2. r \in Nat \ {0}
    BY DEF IsMatrix
  <2> QED BY <2>1, <2>2
<1>2. Reshape(m, r, 1) = m
  BY FlatAlready
<1> DEFINE part == Block(m, s, t, 0, 1)
<1>3. Entries(m, s, t) = IF part # Raised /\ r = 1 THEN Transpose(part) ELSE part
  BY <1>1, <1>2 DEF Entries
<1>4. IsMatrix(part, t - s, 1)
  <2>1. IsMatrix(Block(m, s, t, 0, 1), t - s, 1 - 0)
    BY BlockIs
  <2>2. 1 - 0 = 1
    OBVIOUS
  <2> QED BY <2>1, <2>2
<1> HIDE DEF part
<1>5. r = 1 => Transpose(part) = part
  <2> HAVE r = 1
  <2>1. t - s = 1
    OBVIOUS
  <2>2. IsMatrix(part, 1, 1)
    BY <1>4, <2>1
  <2> QED BY <2>2, SingleTransposed
<1> QED BY <1>3, <1>5 DEF part

\* What select_n means.
Selected(pred, off, on) ==
  Grid(Rows(on), Cols(on),
       LAMBDA r, c : IF (IF pred.rank = 0 THEN pred.m[1][1] ELSE pred.m[r][c]) # 0
                     THEN on[r][c] ELSE off[r][c])

\* The branch of a predicate that numpy holds, where it has one entry.
LEMMA SelectAgrees ==
  ASSUME NEW off, NEW on, NEW r, NEW c, IsMatrix(on, r, c), IsMatrix(off, r, c),
         NEW pred, NEW pr, NEW pc, IsMatrix(pred.m, pr, pc), pred.ca = pred.m,
         pred.rank = 0 \/ (pr = r /\ pc = c)
  PROVE  /\ _select_n(pred, off, on)
              \in {Refuse("jnp.where[traced]"), Value(Raised), Value(Selected(pred, off, on))}
         /\ IsMatrix(Selected(pred, off, on), r, c)
<1> DEFINE Truth(i, j) == (IF pred.rank = 0 THEN pred.m[1][1] ELSE pred.m[i][j]) # 0
           m == Selected(pred, off, on)
<1>1. m = [i \in 1..r |-> [j \in 1..c |-> IF Truth(i, j) THEN on[i][j] ELSE off[i][j]]]
  BY SizeOf DEF Grid, Selected
<1> HIDE DEF Truth
<1>2. IsMatrix(m, r, c)
  <2>1. \A i \in 1..r, j \in 1..c : on[i][j] \in Field /\ off[i][j] \in Field
    BY DEF IsMatrix
  <2>2. r \in Nat \ {0} /\ c \in Nat \ {0}
    BY DEF IsMatrix
  <2> HIDE DEF m
  <2> QED BY <1>1, <2>1, <2>2 DEF IsMatrix
<1>3. CASE pred.np /\ IsScalar(pred.ca)
  <2>1. pr = 1 /\ pc = 1
    BY <1>3, ScalarIs
  <2>2. _select_n(pred, off, on) = Value(IF pred.m[1][1] # 0 THEN on ELSE off)
    BY <1>3 DEF _select_n
  <2>3. \A i \in 1..r, j \in 1..c : Truth(i, j) <=> pred.m[1][1] # 0
    BY <2>1 DEF Truth
  <2>4. CASE pred.m[1][1] # 0
    <3>1. m = [i \in 1..r |-> [j \in 1..c |-> on[i][j]]]
      BY <1>1, <2>3, <2>4
    <3> HIDE DEF m
    <3>2. m = on
      BY <3>1, SameEntries
    <3> QED BY <1>2, <2>2, <2>4, <3>2 DEF m
  <2>5. CASE pred.m[1][1] = 0
    <3>1. m = [i \in 1..r |-> [j \in 1..c |-> off[i][j]]]
      BY <1>1, <2>3, <2>5
    <3> HIDE DEF m
    <3>2. m = off
      BY <3>1, SameEntries
    <3> QED BY <1>2, <2>2, <2>5, <3>2 DEF m
  <2> QED BY <2>4, <2>5
<1>4. CASE ~(pred.np /\ IsScalar(pred.ca))
  <2>1. _select_n(pred, off, on) \in {Refuse("jnp.where[traced]"), Value(Raised)}
    BY <1>4 DEF _select_n
  <2> QED BY <1>2, <2>1 DEF m
<1> QED BY <1>3, <1>4

(***************************************************************************)
(* What the translator holds.                                              *)
(***************************************************************************)

\* A value that CasADi holds as JAX means it.
Mats ==
  {m \in Seq(Seq(Field)) : \E r, c \in Nat \ {0} : m \in [1..r -> [1..c -> Field]]}
Held == {v \in [rank : 0..2, m : Mats, ca : Mats, np : BOOLEAN] :
           /\ v.ca = v.m
           /\ v.rank < 2 => Cols(v.m) = 1
           /\ v.rank = 0 => Rows(v.m) = 1}

\* Sizes of an array of the given rank.
Fitting(rank, r, c) == rank \in 0..2 /\ (rank < 2 => c = 1) /\ (rank = 0 => r = 1)

\* A handler's answer for an equation that means m to JAX.
Faithful(ans, rank, m, np) ==
  /\ ans.kind \in {"value", "crash", "CoverageError"}
  /\ ans.kind = "value" => ans.ca = m /\ [rank |-> rank, m |-> m, ca |-> m, np |-> np] \in Held

LEMMA HeldIs ==
  ASSUME NEW v \in Held
  PROVE  /\ IsMatrix(v.m, Rows(v.m), Cols(v.m)) /\ v.ca = v.m /\ v.np \in BOOLEAN
         /\ Fitting(v.rank, Rows(v.m), Cols(v.m))
         /\ Rows(v.m) \in Nat \ {0} /\ Cols(v.m) \in Nat \ {0}
<1>1. v.m \in Mats /\ v.ca = v.m /\ v.np \in BOOLEAN /\ Fitting(v.rank, Rows(v.m), Cols(v.m))
  BY DEF Held, Fitting
<1>2. PICK r \in Nat \ {0}, c \in Nat \ {0} : v.m \in [1..r -> [1..c -> Field]]
  BY <1>1 DEF Mats
<1>3. IsMatrix(v.m, r, c)
  BY <1>2 DEF IsMatrix
<1>4. Rows(v.m) = r /\ Cols(v.m) = c
  BY <1>3, SizeOf
<1> QED BY <1>1, <1>2, <1>3, <1>4

LEMMA IsHeld ==
  ASSUME NEW rank, NEW m, NEW np \in BOOLEAN, NEW r, NEW c, IsMatrix(m, r, c), Fitting(rank, r, c)
  PROVE  [rank |-> rank, m |-> m, ca |-> m, np |-> np] \in Held
<1>1. m \in Mats
  <2>1. r \in Nat \ {0} /\ c \in Nat \ {0} /\ m \in [1..r -> [1..c -> Field]]
    BY DEF IsMatrix
  <2>2. \A i \in 1..r : m[i] \in Seq(Field)
    BY <2>1
  <2>3. m \in Seq(Seq(Field))
    BY <2>1, <2>2
  <2> QED BY <2>1, <2>3 DEF Mats
<1>2. Rows(m) = r /\ Cols(m) = c
  BY SizeOf
<1>3. rank \in 0..2
  BY DEF Fitting
<1>4. [rank |-> rank, m |-> m, ca |-> m, np |-> np] \in [rank : 0..2, m : Mats, ca : Mats, np : BOOLEAN]
  BY <1>1, <1>3
<1> QED BY <1>2, <1>4 DEF Held, Fitting

LEMMA ValueFaithful ==
  ASSUME NEW rank, NEW m, NEW np \in BOOLEAN, NEW r, NEW c, IsMatrix(m, r, c), Fitting(rank, r, c)
  PROVE  Faithful(Value(m), rank, m, np)
BY IsHeld DEF Faithful, Value

LEMMA RefusalFaithful ==
  ASSUME NEW rank, NEW m, NEW np
  PROVE  /\ \A op : Faithful(Refuse(op), rank, m, np)
         /\ Faithful(Value(Raised), rank, m, np)
BY DEF Faithful, Value, Refuse, Raised

\* Equation by equation.
LEMMA ArithFaithful ==
  ASSUME NEW a \in Held, NEW b \in Held, Broadcasts(a, b), NEW prim \in Arith
  PROVE  Faithful(IF prim = "pow" THEN _pow(a.ca, b.ca) ELSE _arith(prim, a.ca, b.ca),
                  Wider(a.rank, b.rank), JaxArith(prim, a.m, b.m), FALSE)
<1> DEFINE r1 == Rows(a.m)
           c1 == Cols(a.m)
           r2 == Rows(b.m)
           c2 == Cols(b.m)
           rank == Wider(a.rank, b.rank)
           m == JaxArith(prim, a.m, b.m)
<1>1. /\ IsMatrix(a.m, r1, c1) /\ a.ca = a.m /\ Fitting(a.rank, r1, c1)
      /\ r1 \in Nat \ {0} /\ c1 \in Nat \ {0}
  BY HeldIs
<1>2. /\ IsMatrix(b.m, r2, c2) /\ b.ca = b.m /\ Fitting(b.rank, r2, c2)
      /\ r2 \in Nat \ {0} /\ c2 \in Nat \ {0}
  BY HeldIs
<1>3. Meet(r1, r2) /\ Meet(c1, c2) /\ (a.rank = b.rank \/ 0 \in {a.rank, b.rank})
  BY DEF Broadcasts, Meet
<1> HIDE DEF r1, c1, r2, c2
<1>4. Fitting(rank, Wider(r1, r2), Wider(c1, c2))
  BY <1>1, <1>2, <1>3 DEF Fitting, Wider
<1> HIDE DEF rank
<1>5. IsMatrix(m, Wider(r1, r2), Wider(c1, c2))
  BY <1>1, <1>2, <1>3, JaxArithIs
<1>6. _arith(prim, a.m, b.m) = Value(m)
  BY <1>1, <1>2, <1>3, ArithAgrees
<1>7. prim = "pow" => _pow(a.m, b.m) \in {Value(Raised), Value(m)}
  BY <1>1, <1>2, PowAgrees
<1> HIDE DEF m
<1>8. Faithful(Value(m), rank, m, FALSE)
  BY <1>4, <1>5, ValueFaithful
<1>9. Faithful(Value(Raised), rank, m, FALSE)
  BY RefusalFaithful
<1>10. \/ (IF prim = "pow" THEN _pow(a.ca, b.ca) ELSE _arith(prim, a.ca, b.ca)) = Value(m)
       \/ (IF prim = "pow" THEN _pow(a.ca, b.ca) ELSE _arith(prim, a.ca, b.ca)) = Value(Raised)
  BY <1>1, <1>2, <1>6, <1>7
<1> QED BY <1>8, <1>9, <1>10 DEF rank, m

LEMMA UnaryFaithful ==
  ASSUME NEW a \in Held
  PROVE  /\ Faithful(_neg(a.ca), a.rank, Negated(a.m), a.np)
         /\ \A y \in {2, 3, -1} : Faithful(_integer_pow(a.ca, y), a.rank, Raise(a.m, y), a.np)
         /\ \A prim \in Smooth : Faithful(_smooth(prim, a.ca), a.rank, Smoothed(prim, a.m), FALSE)
         /\ Faithful(_convert_element_type(a.ca), a.rank, a.m, a.np)
<1> DEFINE r == Rows(a.m)
           c == Cols(a.m)
<1>1. IsMatrix(a.m, r, c) /\ a.ca = a.m /\ Fitting(a.rank, r, c) /\ a.np \in BOOLEAN
  BY HeldIs
<1> HIDE DEF r, c
<1>2. /\ _neg(a.m) = Value(Negated(a.m)) /\ IsMatrix(Negated(a.m), r, c)
      /\ \A prim : _smooth(prim, a.m) = Value(Smoothed(prim, a.m))
      /\ \A prim \in Smooth : IsMatrix(Smoothed(prim, a.m), r, c)
  BY <1>1, UnaryIs
<1>3. \A y \in {2, 3, -1} :
        _integer_pow(a.m, y) = Value(Raise(a.m, y)) /\ IsMatrix(Raise(a.m, y), r, c)
  BY <1>1, IntegerPowAgrees
<1>4. Faithful(_neg(a.ca), a.rank, Negated(a.m), a.np)
  BY <1>1, <1>2, ValueFaithful
<1>5. \A y \in {2, 3, -1} : Faithful(_integer_pow(a.ca, y), a.rank, Raise(a.m, y), a.np)
  BY <1>1, <1>3, ValueFaithful
<1>6. \A prim \in Smooth : Faithful(_smooth(prim, a.ca), a.rank, Smoothed(prim, a.m), FALSE)
  BY <1>1, <1>2, ValueFaithful
<1>7. Faithful(_convert_element_type(a.ca), a.rank, a.m, a.np)
  BY <1>1, ValueFaithful DEF _convert_element_type
<1> QED BY <1>4, <1>5, <1>6, <1>7

LEMMA BroadcastFaithful ==
  ASSUME NEW a \in Held, NEW shape \in Shapes, NEW bdims \in {<<>>, << 0 >>, << 1 >>},
         a.rank = Len(bdims),
         bdims # <<>> => bdims[1] < Len(shape) /\ Rows(a.m) = shape[bdims[1] + 1]
  PROVE  Faithful(_broadcast_in_dim(a.ca, shape, bdims), Len(shape),
                  JaxBroadcast(a.m, shape, bdims), FALSE)
<1> DEFINE r == Rows(a.m)
           c == Cols(a.m)
           m == JaxBroadcast(a.m, shape, bdims)
<1>1. IsMatrix(a.m, r, c) /\ a.ca = a.m /\ Fitting(a.rank, r, c)
  BY HeldIs
<1>2. bdims = <<>> => r = 1 /\ c = 1
  BY <1>1 DEF Fitting
<1>3. bdims # <<>> => c = 1 /\ bdims[1] < Len(shape) /\ r = shape[bdims[1] + 1]
  <2> HAVE bdims # <<>>
  <2>1. a.rank = 1
    OBVIOUS
  <2> QED BY <1>1, <2>1 DEF Fitting
<1> HIDE DEF r, c
<1>4. /\ _broadcast_in_dim(a.m, shape, bdims) = Value(m)
      /\ IsMatrix(m, ToRows(shape), ToCols(shape))
  BY <1>1, <1>2, <1>3, BroadcastAgrees
<1>5. Fitting(Len(shape), ToRows(shape), ToCols(shape))
  <2>1. /\ ToRows(shape) \in Nat \ {0} /\ ToCols(shape) \in Nat \ {0}
        /\ \/ shape = <<>> /\ ToRows(shape) = 1 /\ ToCols(shape) = 1
           \/ Len(shape) = 1 /\ shape = <<ToRows(shape)>> /\ ToCols(shape) = 1
           \/ Len(shape) = 2 /\ shape = <<ToRows(shape), ToCols(shape)>>
    BY ShapeIs
  <2>2. CASE shape = <<>> /\ ToRows(shape) = 1 /\ ToCols(shape) = 1
    <3>1. Len(shape) = 0
      BY <2>2
    <3> QED BY <2>2, <3>1 DEF Fitting
  <2>3. CASE Len(shape) = 1 /\ ToCols(shape) = 1
    BY <2>3 DEF Fitting
  <2>4. CASE Len(shape) = 2
    BY <2>4 DEF Fitting
  <2> QED BY <2>1, <2>2, <2>3, <2>4
<1> HIDE DEF m
<1>6. Faithful(Value(m), Len(shape), m, FALSE)
  BY <1>4, <1>5, ValueFaithful
<1> QED BY <1>1, <1>4, <1>6 DEF m

LEMMA SqueezeFaithful ==
  ASSUME NEW a \in Held, NEW rank \in 0..1,
         \/ IsScalar(a.m)
         \/ Cols(a.m) = 1 /\ rank = 1
  PROVE  Faithful(_squeeze(a.ca), rank, a.m, a.np)
<1>1. IsMatrix(a.m, Rows(a.m), Cols(a.m)) /\ a.ca = a.m /\ a.np \in BOOLEAN
  BY HeldIs
<1>2. Fitting(rank, Rows(a.m), Cols(a.m))
  BY DEF Fitting, IsScalar
<1> QED BY <1>1, <1>2, ValueFaithful DEF _squeeze

LEMMA ConcatenateFaithful ==
  ASSUME NEW a \in Held, NEW b \in Held, NEW dim \in {0, 1}, a.rank = b.rank, dim < a.rank,
         IF dim = 0 THEN Cols(a.m) = Cols(b.m) ELSE Rows(a.m) = Rows(b.m)
  PROVE  Faithful(_concatenate(a.ca, b.ca, dim), a.rank,
                  IF dim = 0 THEN VertCat(a.m, b.m) ELSE HorzCat(a.m, b.m), FALSE)
<1> DEFINE r1 == Rows(a.m)
           c1 == Cols(a.m)
           r2 == Rows(b.m)
           c2 == Cols(b.m)
<1>1. IsMatrix(a.m, r1, c1) /\ a.ca = a.m /\ Fitting(a.rank, r1, c1)
  BY HeldIs
<1>2. IsMatrix(b.m, r2, c2) /\ b.ca = b.m
  BY HeldIs
<1>3. IF dim = 0 THEN c1 = c2 ELSE r1 = r2
  OBVIOUS
<1> HIDE DEF r1, c1, r2, c2
<1>4. /\ c1 = c2 => IsMatrix(VertCat(a.m, b.m), r1 + r2, c1)
      /\ r1 = r2 => IsMatrix(HorzCat(a.m, b.m), r1, c1 + c2)
  BY <1>1, <1>2, ConcatenationIs
<1>5. CASE dim = 0
  <2>1. _concatenate(a.ca, b.ca, dim) = Value(VertCat(a.m, b.m))
    BY <1>1, <1>2, <1>5 DEF _concatenate
  <2>2. Fitting(a.rank, r1 + r2, c1)
    BY <1>1, <1>5 DEF Fitting
  <2>3. IsMatrix(VertCat(a.m, b.m), r1 + r2, c1)
    BY <1>3, <1>4, <1>5
  <2>4. Faithful(Value(VertCat(a.m, b.m)), a.rank, VertCat(a.m, b.m), FALSE)
    BY <2>2, <2>3, ValueFaithful
  <2>5. (IF dim = 0 THEN VertCat(a.m, b.m) ELSE HorzCat(a.m, b.m)) = VertCat(a.m, b.m)
    BY <1>5
  <2> QED BY <2>1, <2>4, <2>5
<1>6. CASE dim = 1
  <2>1. _concatenate(a.ca, b.ca, dim) = Value(HorzCat(a.m, b.m))
    BY <1>1, <1>2, <1>6 DEF _concatenate
  <2>2. Fitting(a.rank, r1, c1 + c2)
    BY <1>1, <1>6 DEF Fitting
  <2>3. IsMatrix(HorzCat(a.m, b.m), r1, c1 + c2)
    BY <1>3, <1>4, <1>6
  <2>4. Faithful(Value(HorzCat(a.m, b.m)), a.rank, HorzCat(a.m, b.m), FALSE)
    BY <2>2, <2>3, ValueFaithful
  <2>5. (IF dim = 0 THEN VertCat(a.m, b.m) ELSE HorzCat(a.m, b.m)) = HorzCat(a.m, b.m)
    BY <1>6
  <2> QED BY <2>1, <2>4, <2>5
<1> QED BY <1>5, <1>6

LEMMA ReshapeFaithful ==
  ASSUME NEW a \in Held, NEW shape \in Shapes,
         Rows(a.m) * Cols(a.m) = ToRows(shape) * ToCols(shape),
         \/ shape = Shape(a)
         \/ 1 \in {Rows(a.m), Cols(a.m)} /\ 1 \in {ToRows(shape), ToCols(shape)}
  PROVE  Faithful(_reshape(a.ca, shape), Len(shape),
                  RowMajorReshape(a.m, ToRows(shape), ToCols(shape)), FALSE)
<1> DEFINE r == Rows(a.m)
           c == Cols(a.m)
           R == ToRows(shape)
           C == ToCols(shape)
           m == RowMajorReshape(a.m, R, C)
<1>1. /\ IsMatrix(a.m, r, c) /\ a.ca = a.m /\ Fitting(a.rank, r, c)
      /\ r \in Nat \ {0} /\ c \in Nat \ {0}
  BY HeldIs
<1>2. /\ R \in Nat \ {0} /\ C \in Nat \ {0}
      /\ \/ shape = <<>> /\ R = 1 /\ C = 1
         \/ Len(shape) = 1 /\ shape = <<R>> /\ C = 1
         \/ Len(shape) = 2 /\ shape = <<R, C>>
  BY ShapeIs
<1>3. shape = Shape(a) => R = r /\ C = c
  <2> HAVE shape = Shape(a)
  <2>1. CASE a.rank = 0
    BY <1>1, <2>1 DEF Shape, Fitting, ToRows, ToCols
  <2>2. CASE a.rank = 1
    BY <1>1, <2>2 DEF Shape, Fitting, ToRows, ToCols
  <2>3. CASE a.rank = 2
    BY <1>1, <2>3 DEF Shape, Fitting, ToRows, ToCols
  <2> QED BY <1>1, <2>1, <2>2, <2>3 DEF Fitting
<1>4. (R = r /\ C = c) \/ (1 \in {r, c} /\ 1 \in {R, C})
  BY <1>3
<1>5. r * c = R * C
  OBVIOUS
<1> HIDE DEF r, c, R, C
<1>6. Reshape(a.m, R, C) = m /\ IsMatrix(m, R, C)
  BY <1>1, <1>2, <1>4, <1>5, ReshapeAgrees
<1>7. Fitting(Len(shape), R, C)
  <2>1. CASE shape = <<>> /\ R = 1 /\ C = 1
    <3>1. Len(shape) = 0
      BY <2>1
    <3> QED BY <2>1, <3>1 DEF Fitting
  <2>2. CASE Len(shape) = 1 /\ C = 1
    BY <2>2 DEF Fitting
  <2>3. CASE Len(shape) = 2
    BY <2>3 DEF Fitting
  <2> QED BY <1>2, <2>1, <2>2, <2>3
<1>8. _reshape(a.ca, shape) = Value(m)
  <2>1. CASE shape = <<>>
    <3>1. r = 1 /\ c = 1 /\ R = 1 /\ C = 1
      <4>1. R = 1 /\ C = 1
        BY <1>2, <2>1
      <4>2. 1 \in {r, c}
        BY <1>4, <4>1
      <4>3. 1 * r = r /\ 1 * c = c /\ r * 1 = r
        BY <1>1
      <4> QED BY <1>5, <4>1, <4>2, <4>3
    <3>2. Reshape(a.m, 1, 1) = a.m
      BY <1>1, <3>1, FlatAlready
    <3> QED BY <1>1, <1>6, <2>1, <3>1, <3>2 DEF _reshape
  <2>2. CASE Len(shape) \in {1, 2} /\ shape[1] = R
    BY <1>1, <1>6, <2>2 DEF _reshape, C
  <2> QED BY <1>2, <2>1, <2>2
<1> HIDE DEF m
<1>9. Faithful(Value(m), Len(shape), m, FALSE)
  BY <1>6, <1>7, ValueFaithful
<1> QED BY <1>8, <1>9 DEF m, R, C

LEMMA TransposeFaithful ==
  ASSUME NEW a \in Held, NEW perm \in {<<>>, << 0 >>, <<0, 1>>, <<1, 0>>}, a.rank = Len(perm)
  PROVE  Faithful(_transpose(a.ca, perm), a.rank,
                  IF perm = <<1, 0>> THEN Transpose(a.m) ELSE a.m, a.np)
<1> DEFINE r == Rows(a.m)
           c == Cols(a.m)
<1>1. IsMatrix(a.m, r, c) /\ a.ca = a.m /\ Fitting(a.rank, r, c) /\ a.np \in BOOLEAN
  BY HeldIs
<1> HIDE DEF r, c
<1>2. CASE perm = <<1, 0>>
  <2>1. _transpose(a.ca, perm) = Value(Transpose(a.m))
    BY <1>1, <1>2 DEF _transpose
  <2>2. Fitting(a.rank, c, r)
    BY <1>2 DEF Fitting
  <2>3. IsMatrix(Transpose(a.m), c, r)
    BY <1>1, TransposeOf
  <2>4. Faithful(Value(Transpose(a.m)), a.rank, Transpose(a.m), a.np)
    BY <1>1, <2>2, <2>3, ValueFaithful
  <2>5. (IF perm = <<1, 0>> THEN Transpose(a.m) ELSE a.m) = Transpose(a.m)
    BY <1>2
  <2> QED BY <2>1, <2>4, <2>5
<1>3. CASE perm # <<1, 0>>
  <2>1. _transpose(a.ca, perm) \in {Value(a.m), Refuse("transpose")}
    BY <1>1, <1>3 DEF _transpose
  <2>2. Faithful(Value(a.m), a.rank, a.m, a.np)
    BY <1>1, ValueFaithful
  <2>3. Faithful(Refuse("transpose"), a.rank, a.m, a.np)
    BY RefusalFaithful
  <2>4. (IF perm = <<1, 0>> THEN Transpose(a.m) ELSE a.m) = a.m
    BY <1>3
  <2> QED BY <2>1, <2>2, <2>3, <2>4
<1> QED BY <1>2, <1>3

\* A contraction of the first axis of the right operand: of matrices, or of
\* two vectors.
LEMMA DotFaithful ==
  ASSUME NEW a \in Held, NEW b \in Held, NEW lc \in {0, 1}, lc < a.rank, 0 < b.rank,
         Rows(b.m) = IF lc = 0 THEN Rows(a.m) ELSE Cols(a.m),
         a.rank = 1 => b.rank = 1
  PROVE  Faithful(_dot_general(a.ca, b.ca, lc, FALSE), a.rank + b.rank - 2,
                  JaxDot(a, b, lc, 0), FALSE)
<1> DEFINE r == Rows(a.m)
           n == Cols(a.m)
           k == Rows(b.m)
           c == Cols(b.m)
           rows == IF lc = 0 THEN n ELSE r
           rank == a.rank + b.rank - 2
           m == JaxDot(a, b, lc, 0)
<1>1. IsMatrix(a.m, r, n) /\ a.ca = a.m /\ Fitting(a.rank, r, n)
  BY HeldIs
<1>2. IsMatrix(b.m, k, c) /\ b.ca = b.m /\ Fitting(b.rank, k, c)
  BY HeldIs
<1>3. (lc = 0 => k = r /\ rows = n) /\ (lc = 1 => k = n /\ rows = r)
  OBVIOUS
<1> HIDE DEF r, n, k, c
<1>4. a.rank = 1 => n = 1 /\ c = 1 /\ lc = 0
  BY <1>1, <1>2 DEF Fitting
<1>5. Fitting(rank, rows, c)
  BY <1>1, <1>2, <1>4 DEF Fitting
<1> HIDE DEF rank, rows
<1>6. _dot_general(a.ca, b.ca, lc, FALSE) = Value(m) /\ IsMatrix(m, rows, c)
  <2> DEFINE A == IF lc = 0 THEN Transpose(a.m) ELSE a.m
             product == MatProduct(A, b.m)
  <2>1. IsMatrix(A, rows, k)
    BY <1>1, <1>3, TransposeOf
  <2>2. _dot_general(a.ca, b.ca, lc, FALSE) = Value(MTimes(A, b.m))
    BY <1>1, <1>2 DEF _dot_general
  <2>3. m = IF a.rank = 1 THEN Transpose(product) ELSE product
    BY DEF JaxDot
  <2> HIDE DEF A
  <2>4. IsMatrix(product, rows, c) /\ MTimes(A, b.m) = product
    BY <1>2, <2>1, ProductIs
  <2>5. a.rank = 1 => Transpose(product) = product
    <3> HAVE a.rank = 1
    <3> HIDE DEF product, m
    <3>1. IsMatrix(product, 1, 1)
      BY <1>3, <1>4, <2>4
    <3> QED BY <3>1, SingleTransposed
  <2> HIDE DEF product, m
  <2> QED BY <2>2, <2>3, <2>4, <2>5
<1> HIDE DEF m
<1>7. Faithful(Value(m), rank, m, FALSE)
  BY <1>5, <1>6, ValueFaithful
<1> QED BY <1>6, <1>7 DEF m, rank

\* The parts of a vector or of a matrix that are within it.
LEMMA PartFaithful ==
  ASSUME NEW a \in Held, a.rank \in {1, 2},
         NEW r0 \in Int, NEW r1 \in Int, NEW c0 \in Int, NEW c1 \in Int,
         0 <= r0, r0 < r1, r1 <= Rows(a.m), 0 <= c0, c0 < c1, c1 <= Cols(a.m),
         a.rank = 1 => c0 = 0 /\ c1 = 1
  PROVE  /\ Faithful(Value(Block(a.m, r0, r1, c0, c1)), a.rank,
                     Block(a.m, r0, r1, c0, c1), a.np)
         /\ a.rank = 1 => Entries(a.ca, r0, r1) = Block(a.m, r0, r1, c0, c1)
<1> DEFINE r == Rows(a.m)
           c == Cols(a.m)
           m == Block(a.m, r0, r1, c0, c1)
<1>1. IsMatrix(a.m, r, c) /\ a.ca = a.m /\ Fitting(a.rank, r, c) /\ a.np \in BOOLEAN
  BY HeldIs
<1>2. r1 <= r /\ c1 <= c
  OBVIOUS
<1> HIDE DEF r, c
<1>3. IsMatrix(m, r1 - r0, c1 - c0)
  BY <1>1, <1>2, BlockIs
<1>4. Fitting(a.rank, r1 - r0, c1 - c0)
  <2>1. a.rank = 1 => c1 - c0 = 1
    OBVIOUS
  <2> QED BY <2>1 DEF Fitting
<1>5. a.rank = 1 => Entries(a.ca, r0, r1) = m
  <2> HAVE a.rank = 1
  <2>1. c = 1 /\ c0 = 0 /\ c1 = 1
    BY <1>1 DEF Fitting
  <2>2. IsMatrix(a.m, r, 1)
    BY <1>1, <2>1
  <2>3. Entries(a.m, r0, r1) = Block(a.m, r0, r1, 0, 1)
    BY <1>2, <2>2, EntriesAre
  <2> QED BY <1>1, <2>1, <2>3
<1> HIDE DEF m
<1>6. Faithful(Value(m), a.rank, m, a.np)
  BY <1>1, <1>3, <1>4, ValueFaithful
<1> QED BY <1>5, <1>6 DEF m

LEMMA SliceFaithful ==
  ASSUME NEW a \in Held, a.rank \in {1, 2}, NEW strided \in BOOLEAN,
         NEW s, NEW l, s[1] \in Int, s[2] \in Int, l[1] \in Int, l[2] \in Int,
         a.rank = 1 => l[1] = 0 /\ l[2] = 1,
         Block(a.m, s[1], s[2], l[1], l[2]) # Raised
  PROVE  LET start == SubSeq(<<s[1], l[1]>>, 1, a.rank)
             limit == SubSeq(<<s[2], l[2]>>, 1, a.rank)
         IN Faithful(_slice(a.ca, start, limit, strided), a.rank,
                     Block(a.m, s[1], s[2], l[1], l[2]), a.np)
<1> DEFINE start == SubSeq(<<s[1], l[1]>>, 1, a.rank)
           limit == SubSeq(<<s[2], l[2]>>, 1, a.rank)
           m == Block(a.m, s[1], s[2], l[1], l[2])
<1>1. IsMatrix(a.m, Rows(a.m), Cols(a.m)) /\ a.ca = a.m
  BY HeldIs
<1>2. /\ 0 <= s[1] /\ s[1] < s[2] /\ s[2] <= Rows(a.m)
      /\ 0 <= l[1] /\ l[1] < l[2] /\ l[2] <= Cols(a.m)
  BY <1>1, BlockWithin
<1>3. Faithful(Value(m), a.rank, m, a.np) /\ (a.rank = 1 => Entries(a.ca, s[1], s[2]) = m)
  BY <1>2, PartFaithful
<1> HIDE DEF m
<1>4. _slice(a.ca, start, limit, strided) \in {Refuse("slice[strided]"), Value(m)}
  <2>1. CASE a.rank = 1
    <3>1. Len(start) = 1 /\ start[1] = s[1] /\ limit[1] = s[2]
      BY <2>1
    <3> QED BY <1>3, <2>1, <3>1 DEF _slice
  <2>2. CASE a.rank = 2
    <3>1. Len(start) = 2 /\ start[1] = s[1] /\ limit[1] = s[2] /\ start[2] = l[1] /\ limit[2] = l[2]
      BY <2>2
    <3> QED BY <1>1, <3>1 DEF _slice, m
  <2> QED BY <2>1, <2>2
<1>5. Faithful(Refuse("slice[strided]"), a.rank, m, a.np)
  BY RefusalFaithful
<1> QED BY <1>3, <1>4, <1>5 DEF m

\* A dynamic slice that starts where its caller says.
LEMMA DynamicSliceFaithful ==
  ASSUME NEW a \in Held, a.rank \in {1, 2}, NEW v \in Held, v.rank = 0,
         NEW size \in Nat \ {0}, size <= Rows(a.m), a.rank = 2 => size <= Cols(a.m),
         Clamped(v.m[1][1], size, Rows(a.m)) = v.m[1][1],
         a.rank = 2 => v.m[1][1] + size <= Cols(a.m)
  PROVE  LET start == v.m[1][1]
             from == Clamped(start, size, Rows(a.m))
         IN Faithful(_dynamic_slice(a.ca, [k \in 1..a.rank |-> v], [k \in 1..a.rank |-> size]),
                     a.rank,
                     IF a.rank = 1 THEN Block(a.m, from, from + size, 0, 1)
                     ELSE LET across == Clamped(start, size, Cols(a.m))
                          IN Block(a.m, from, from + size, across, across + size),
                     a.np)
<1> DEFINE start == v.m[1][1]
           from == Clamped(start, size, Rows(a.m))
           across == Clamped(start, size, Cols(a.m))
           starts == [k \in 1..a.rank |-> v]
           sizes == [k \in 1..a.rank |-> size]
           c0 == IF a.rank = 1 THEN 0 ELSE start
           c1 == IF a.rank = 1 THEN 1 ELSE start + size
           m == Block(a.m, start, start + size, c0, c1)
           s == [k \in DOMAIN starts |-> starts[k].ca[1][1]]
<1>1. /\ IsMatrix(a.m, Rows(a.m), Cols(a.m)) /\ a.ca = a.m /\ Fitting(a.rank, Rows(a.m), Cols(a.m))
      /\ Rows(a.m) \in Nat \ {0} /\ Cols(a.m) \in Nat \ {0}
  BY HeldIs
<1>2. v.ca = v.m /\ start \in Field
  <2>1. IsMatrix(v.m, 1, 1) /\ v.ca = v.m
    BY HeldIs DEF Fitting
  <2> QED BY <2>1 DEF IsMatrix
<1>3. start \in Int /\ 0 <= start
  BY <1>2, PrimeAssumption DEF Field
<1> HIDE DEF start
<1>4. from = start
  BY DEF start
<1>5. start + size <= Rows(a.m)
  BY <1>1, <1>3, <1>4 DEF Clamped
<1>6. a.rank = 2 => across = start
  BY <1>1, <1>3 DEF Clamped, start
<1>7. c0 \in Int /\ c1 \in Int /\ 0 <= c0 /\ c0 < c1 /\ c1 <= Cols(a.m) /\ (a.rank = 1 => c0 = 0 /\ c1 = 1)
  BY <1>1, <1>3 DEF start
<1>8. (IF a.rank = 1 THEN Block(a.m, from, from + size, 0, 1)
       ELSE Block(a.m, from, from + size, across, across + size)) = m
  <2>1. CASE a.rank = 1
    BY <1>4, <2>1
  <2>2. CASE a.rank = 2
    BY <1>4, <1>6, <2>2
  <2> QED BY <2>1, <2>2
<1> HIDE DEF from, across
<1>9. Faithful(Value(m), a.rank, m, a.np) /\ (a.rank = 1 => Entries(a.ca, start, start + size) = m)
  <2> HIDE DEF c0, c1
  <2>1. start + size \in Int /\ start < start + size
    BY <1>3
  <2> QED BY <1>3, <1>5, <1>7, <2>1, PartFaithful
<1>10. _dynamic_slice(a.ca, starts, sizes) \in {Refuse("dynamic_slice[traced]"), Value(m)}
  <2>1. /\ DOMAIN starts = 1..a.rank /\ a.rank \in Nat
        /\ s = [k \in 1..a.rank |-> start]
    BY <1>2 DEF start
  <2>2. Len(s) = a.rank /\ s[1] = start /\ sizes[1] = size
    BY <2>1
  <2>3. a.rank = 2 => s[2] = start /\ sizes[2] = size
    BY <2>1
  <2>4. _dynamic_slice(a.ca, starts, sizes)
          = IF \E k \in DOMAIN starts : ~starts[k].np THEN Refuse("dynamic_slice[traced]")
            ELSE IF Len(s) = 1 THEN Value(Entries(a.ca, s[1], s[1] + sizes[1]))
            ELSE Value(Block(a.ca, s[1], s[1] + sizes[1], s[2], s[2] + sizes[2]))
    BY DEF _dynamic_slice
  <2> HIDE DEF starts, sizes, s
  <2>5. CASE a.rank = 1
    BY <1>9, <2>2, <2>4, <2>5
  <2>6. CASE a.rank = 2
    BY <1>1, <2>2, <2>3, <2>4, <2>6
  <2> QED BY <2>5, <2>6
<1> HIDE DEF m
<1>11. Faithful(Refuse("dynamic_slice[traced]"), a.rank, m, a.np)
  BY RefusalFaithful
<1>12. Faithful(_dynamic_slice(a.ca, starts, sizes), a.rank, m, a.np)
  BY <1>9, <1>10, <1>11
<1> QED BY <1>8, <1>12 DEF from, across, start

LEMMA ShapeOfHeld ==
  ASSUME NEW v \in Held
  PROVE  /\ Len(Shape(v)) = v.rank
         /\ v.rank = 1 => Shape(v) = <<Rows(v.m)>>
         /\ v.rank = 2 => Shape(v) = <<Rows(v.m), Cols(v.m)>>
<1>1. v.rank \in 0..2
  BY HeldIs DEF Fitting
<1>2. CASE v.rank = 0
  <2>1. Shape(v) = <<>>
    BY <1>2 DEF Shape
  <2> QED BY <1>2, <2>1
<1>3. CASE v.rank = 1
  BY <1>3 DEF Shape
<1>4. CASE v.rank = 2
  BY <1>4 DEF Shape
<1> QED BY <1>1, <1>2, <1>3, <1>4

\* Arrays of one shape have one size.
LEMMA ShapesEqual ==
  ASSUME NEW a \in Held, NEW b \in Held, Shape(a) = Shape(b)
  PROVE  Rows(a.m) = Rows(b.m) /\ Cols(a.m) = Cols(b.m) /\ a.rank = b.rank
<1>1. /\ Fitting(a.rank, Rows(a.m), Cols(a.m))
      /\ Fitting(b.rank, Rows(b.m), Cols(b.m))
  BY HeldIs
<1>2. /\ Len(Shape(a)) = a.rank /\ Len(Shape(b)) = b.rank
      /\ a.rank = 1 => Shape(a) = <<Rows(a.m)>>
      /\ a.rank = 2 => Shape(a) = <<Rows(a.m), Cols(a.m)>>
  BY ShapeOfHeld
<1>7. /\ b.rank = 1 => Shape(b) = <<Rows(b.m)>>
      /\ b.rank = 2 => Shape(b) = <<Rows(b.m), Cols(b.m)>>
  BY ShapeOfHeld
<1>3. a.rank = b.rank
  BY <1>2
<1>4. CASE a.rank = 0
  BY <1>1, <1>3, <1>4 DEF Fitting
<1>5. CASE a.rank = 1
  <2>1. <<Rows(a.m)>> = <<Rows(b.m)>>
    BY <1>2, <1>3, <1>5, <1>7
  <2> QED BY <1>1, <1>3, <1>5, <2>1 DEF Fitting
<1>6. CASE a.rank = 2
  <2>1. <<Rows(a.m), Cols(a.m)>> = <<Rows(b.m), Cols(b.m)>>
    BY <1>2, <1>3, <1>6, <1>7
  <2> QED BY <1>3, <2>1
<1> QED BY <1>1, <1>3, <1>4, <1>5, <1>6 DEF Fitting

LEMMA SelectFaithful ==
  ASSUME NEW p \in Held, NEW off \in Held, NEW on \in Held,
         Shape(off) = Shape(on), Shape(p) \in {<<>>, Shape(on)}
  PROVE  Faithful(_select_n(p, off.ca, on.ca), on.rank, Selected(p, off.m, on.m),
                  on.np /\ off.np)
<1> DEFINE r == Rows(on.m)
           c == Cols(on.m)
           m == Selected(p, off.m, on.m)
<1>1. IsMatrix(on.m, r, c) /\ on.ca = on.m /\ Fitting(on.rank, r, c) /\ on.np \in BOOLEAN
  BY HeldIs
<1>2. /\ IsMatrix(off.m, Rows(off.m), Cols(off.m)) /\ off.ca = off.m /\ off.np \in BOOLEAN
      /\ Fitting(off.rank, Rows(off.m), Cols(off.m))
  BY HeldIs
<1>3. /\ IsMatrix(p.m, Rows(p.m), Cols(p.m)) /\ p.ca = p.m
      /\ Fitting(p.rank, Rows(p.m), Cols(p.m))
  BY HeldIs
<1>4. Rows(off.m) = r /\ Cols(off.m) = c
  BY <1>1, <1>2, ShapesEqual
<1>5. p.rank = 0 \/ (Rows(p.m) = r /\ Cols(p.m) = c)
  <2>1. CASE Shape(p) = <<>>
    <3>1. Len(Shape(p)) = 0
      BY <2>1
    <3> QED BY <3>1, ShapeOfHeld
  <2>2. CASE Shape(p) = Shape(on)
    BY <2>2, ShapesEqual
  <2> QED BY <2>1, <2>2
<1>6. IsMatrix(off.m, r, c)
  BY <1>2, <1>4
<1> HIDE DEF r, c
<1>7. /\ _select_n(p, off.m, on.m) \in {Refuse("jnp.where[traced]"), Value(Raised), Value(m)}
      /\ IsMatrix(m, r, c)
  BY <1>1, <1>3, <1>5, <1>6, SelectAgrees
<1> HIDE DEF m
<1>8. (on.np /\ off.np) \in BOOLEAN
  BY <1>1, <1>2
<1>9. Faithful(Value(m), on.rank, m, on.np /\ off.np)
  BY <1>1, <1>7, <1>8, ValueFaithful
<1>10. /\ Faithful(Refuse("jnp.where[traced]"), on.rank, m, on.np /\ off.np)
       /\ Faithful(Value(Raised), on.rank, m, on.np /\ off.np)
  BY RefusalFaithful
<1> QED BY <1>1, <1>2, <1>7, <1>9, <1>10 DEF m

(***************************************************************************)
(* The walk keeps the layout.                                              *)
(***************************************************************************)
\* The targets and the precisions that a frame may name.
Families == {c.family : c \in Calls \union {Defaults}}
Precisions == {c.dtype : c \in Calls \union {Defaults}}
Walks == [env : Seq(Held), args : Nat, family : Families, dtype : Precisions]

SoundInv ==
  /\ frames \in Seq(Walks)
  /\ outcome.kind = "walking" => frames # <<>>
  /\ outcome.kind = "tracing" => sig \in Signatures /\ call \in Calls

\* The innermost frame, and what a handler may be given.
LEMMA Innermost ==
  ASSUME SoundInv, frames # <<>>
  PROVE  Len(frames) \in 1..Len(frames) /\ Frame \in Walks /\ Env \in Seq(Held)
<1>1. frames \in Seq(Walks)
  BY DEF SoundInv
<1>2. Len(frames) \in 1..Len(frames)
  BY <1>1
<1>3. Frame \in Walks
  BY <1>1, <1>2 DEF Frame
<1> QED BY <1>2, <1>3 DEF Walks, Env

LEMMA VarIsHeld ==
  ASSUME SoundInv, NEW i \in Vars
  PROVE  At(i) \in Held
<1>1. outcome.kind = "walking" /\ i \in DOMAIN Env
  BY DEF Vars
<1>2. Env \in Seq(Held)
  BY <1>1, Innermost DEF SoundInv
<1> QED BY <1>1, <1>2 DEF At

\* An equation with a faithful answer.
LEMMA TranslateKeeps ==
  ASSUME SoundInv, NEW prim, NEW ans, NEW rank, NEW m, NEW np,
         Translate(prim, ans, rank, m, np), Faithful(ans, rank, m, np)
  PROVE  SoundInv'
<1>1. outcome.kind = "walking" /\ frames # <<>> /\ frames \in Seq(Walks)
  BY DEF Translate, SoundInv
<1>2. CASE ans.kind = "value"
  <2> DEFINE new == [rank |-> rank, m |-> m, ca |-> ans.ca, np |-> np]
             n == Len(frames)
  <2>1. new \in Held
    BY <1>2 DEF Faithful
  <2> HIDE DEF new
  <2>2. frames' = [frames EXCEPT ![n].env = Append(@, new)] /\ UNCHANGED <<outcome, sig, call>>
    BY <1>2 DEF Translate, new
  <2>3. n \in 1..n /\ frames[n] \in Walks /\ n \in Nat
    BY <1>1, Innermost DEF Frame
  <2>4. Append(frames[n].env, new) \in Seq(Held)
    BY <2>1, <2>3 DEF Walks
  <2>5. [frames[n] EXCEPT !.env = Append(@, new)] \in Walks
    BY <2>3, <2>4 DEF Walks
  <2>6. frames' \in Seq(Walks) /\ frames' # <<>>
    BY <1>1, <2>2, <2>3, <2>5
  <2> QED BY <1>1, <2>2, <2>6 DEF SoundInv
<1>3. CASE ans.kind # "value"
  <2>1. frames' = <<>> /\ outcome'.kind = ans.kind
    BY <1>3 DEF Translate, Fail, Outcome
  <2>2. outcome'.kind \notin {"walking", "tracing"}
    BY <1>3, <2>1 DEF Faithful
  <2> QED BY <2>1, <2>2 DEF SoundInv
<1> QED BY <1>2, <1>3

LEMMA WalkKeeps ==
  ASSUME SoundOnly, SoundInv, WalkEquation
  PROVE  SoundInv'
<1>1. ASSUME NEW prim \in Arith, TranslateArith(prim) PROVE SoundInv'
  <2>1. PICK i \in Vars, j \in Vars :
          /\ Broadcasts(At(i), At(j))
          /\ Translate(prim, IF prim = "pow" THEN _pow(At(i).ca, At(j).ca)
                             ELSE _arith(prim, At(i).ca, At(j).ca),
                       Wider(At(i).rank, At(j).rank), JaxArith(prim, At(i).m, At(j).m), FALSE)
    BY <1>1 DEF TranslateArith
  <2>2. At(i) \in Held /\ At(j) \in Held
    BY VarIsHeld
  <2>3. Faithful(IF prim = "pow" THEN _pow(At(i).ca, At(j).ca)
                 ELSE _arith(prim, At(i).ca, At(j).ca),
                 Wider(At(i).rank, At(j).rank), JaxArith(prim, At(i).m, At(j).m), FALSE)
    BY <2>1, <2>2, ArithFaithful
  <2> QED BY <2>1, <2>3, TranslateKeeps
<1>2. CASE TranslateUnary
  <2>1. PICK i \in Vars :
          \/ Translate("neg", _neg(At(i).ca), At(i).rank, Negated(At(i).m), At(i).np)
          \/ \E y \in {2, 3, -1} :
               Translate("integer_pow", _integer_pow(At(i).ca, y), At(i).rank,
                         Raise(At(i).m, y), At(i).np)
          \/ \E prim \in Smooth :
               Translate(prim, _smooth(prim, At(i).ca), At(i).rank,
                         Smoothed(prim, At(i).m), FALSE)
          \/ Translate("convert_element_type", _convert_element_type(At(i).ca), At(i).rank,
                       At(i).m, At(i).np)
    BY <1>2 DEF TranslateUnary, Sound, Negated, Raise, Smoothed, Grid
  <2>2. At(i) \in Held
    BY VarIsHeld
  <2> QED BY <2>1, <2>2, UnaryFaithful, TranslateKeeps
<1>3. CASE TranslateBroadcast
  <2>1. PICK i \in Vars, shape \in Shapes, bdims \in {<<>>, << 0 >>, << 1 >>} :
          /\ At(i).rank = Len(bdims)
          /\ bdims # <<>> => bdims[1] < Len(shape) /\ Rows(At(i).m) = shape[bdims[1] + 1]
          /\ Translate("broadcast_in_dim", _broadcast_in_dim(At(i).ca, shape, bdims),
                       Len(shape), JaxBroadcast(At(i).m, shape, bdims), FALSE)
    BY <1>3 DEF TranslateBroadcast, Sound
  <2>2. At(i) \in Held
    BY VarIsHeld
  <2>3. Faithful(_broadcast_in_dim(At(i).ca, shape, bdims), Len(shape),
                 JaxBroadcast(At(i).m, shape, bdims), FALSE)
    BY <2>1, <2>2, BroadcastFaithful
  <2> QED BY <2>1, <2>3, TranslateKeeps
<1>4. CASE TranslateRankThree
  <2>1. PICK i \in Vars :
          LET shape == <<1, 1, Rows(At(i).m)>> IN
          \/ Translate("broadcast_in_dim", _broadcast_in_dim(At(i).ca, shape, << 2 >>),
                       3, Raised, FALSE)
          \/ Translate("reshape", _reshape(At(i).ca, shape), 3, Raised, FALSE)
    BY <1>4 DEF TranslateRankThree
  <2> DEFINE shape == <<1, 1, Rows(At(i).m)>>
  <2>2. Len(shape) = 3 /\ shape # <<>> /\ << 2 >> # <<>> /\ << 2 >> # << 0 >> /\ << 2 >> # << 1 >>
    OBVIOUS
  <2> HIDE DEF shape
  <2>3. /\ _broadcast_in_dim(At(i).ca, shape, << 2 >>) = Refuse("broadcast_in_dim")
        /\ _reshape(At(i).ca, shape) = Refuse("reshape")
    BY <2>2 DEF _broadcast_in_dim, _reshape
  <2>4. /\ Faithful(Refuse("broadcast_in_dim"), 3, Raised, FALSE)
        /\ Faithful(Refuse("reshape"), 3, Raised, FALSE)
    BY RefusalFaithful
  <2>5. \/ Translate("broadcast_in_dim", Refuse("broadcast_in_dim"), 3, Raised, FALSE)
        \/ Translate("reshape", Refuse("reshape"), 3, Raised, FALSE)
    BY <2>1, <2>3 DEF shape
  <2> QED BY <2>4, <2>5, TranslateKeeps
<1>5. CASE TranslateSqueeze
  <2>1. PICK i \in Vars, rank \in Nat :
          /\ \/ At(i).rank > 0 /\ IsScalar(At(i).m) /\ rank \in 0..(At(i).rank - 1)
             \/ Cols(At(i).m) = 1 /\ rank = 1
          /\ Translate("squeeze", _squeeze(At(i).ca), rank, At(i).m, At(i).np)
    <3>1. \A i \in Vars : At(i).rank \in Nat
      BY VarIsHeld DEF Held
    <3> QED BY <1>5, <3>1 DEF TranslateSqueeze, Sound
  <2>2. At(i) \in Held
    BY VarIsHeld
  <2>3. rank \in 0..1 /\ (IsScalar(At(i).m) \/ (Cols(At(i).m) = 1 /\ rank = 1))
    BY <2>1, <2>2, HeldIs DEF Fitting
  <2> QED BY <2>1, <2>2, <2>3, SqueezeFaithful, TranslateKeeps
<1>6. CASE TranslateConcatenate
  <2>1. PICK i \in Vars, j \in Vars, dim \in {0, 1} :
          /\ At(i).rank = At(j).rank /\ dim < At(i).rank
          /\ IF dim = 0 THEN Cols(At(i).m) = Cols(At(j).m) ELSE Rows(At(i).m) = Rows(At(j).m)
          /\ Translate("concatenate", _concatenate(At(i).ca, At(j).ca, dim), At(i).rank,
                       IF dim = 0 THEN VertCat(At(i).m, At(j).m)
                       ELSE HorzCat(At(i).m, At(j).m), FALSE)
    BY <1>6 DEF TranslateConcatenate
  <2>2. At(i) \in Held /\ At(j) \in Held
    BY VarIsHeld
  <2>3. Faithful(_concatenate(At(i).ca, At(j).ca, dim), At(i).rank,
                 IF dim = 0 THEN VertCat(At(i).m, At(j).m) ELSE HorzCat(At(i).m, At(j).m), FALSE)
    BY <2>1, <2>2, ConcatenateFaithful
  <2> QED BY <2>1, <2>3, TranslateKeeps
<1>7. CASE TranslateReshape
  <2>1. PICK i \in Vars, shape \in Shapes :
          /\ Rows(At(i).m) * Cols(At(i).m) = ToRows(shape) * ToCols(shape)
          /\ \/ shape = Shape(At(i))
             \/ 1 \in {Rows(At(i).m), Cols(At(i).m)} /\ 1 \in {ToRows(shape), ToCols(shape)}
          /\ Translate("reshape", _reshape(At(i).ca, shape), Len(shape),
                       RowMajorReshape(At(i).m, ToRows(shape), ToCols(shape)), FALSE)
    BY <1>7 DEF TranslateReshape, Sound
  <2>2. At(i) \in Held
    BY VarIsHeld
  <2>3. Faithful(_reshape(At(i).ca, shape), Len(shape),
                 RowMajorReshape(At(i).m, ToRows(shape), ToCols(shape)), FALSE)
    BY <2>1, <2>2, ReshapeFaithful
  <2> QED BY <2>1, <2>3, TranslateKeeps
<1>8. CASE TranslateTranspose
  <2>1. PICK i \in Vars, perm \in {<<>>, << 0 >>, <<0, 1>>, <<1, 0>>} :
          /\ At(i).rank = Len(perm)
          /\ Translate("transpose", _transpose(At(i).ca, perm), At(i).rank,
                       IF perm = <<1, 0>> THEN Transpose(At(i).m) ELSE At(i).m, At(i).np)
    BY <1>8 DEF TranslateTranspose
  <2>2. At(i) \in Held
    BY VarIsHeld
  <2>3. Faithful(_transpose(At(i).ca, perm), At(i).rank,
                 IF perm = <<1, 0>> THEN Transpose(At(i).m) ELSE At(i).m, At(i).np)
    BY <2>1, <2>2, TransposeFaithful
  <2> QED BY <2>1, <2>3, TranslateKeeps
<1>9. CASE TranslateDot
  <2>0. PICK i \in Vars, j \in Vars, lc \in {0, 1}, rc \in {0, 1} :
          LET a == At(i)  b == At(j)
              Extent(v, axis) == IF axis = 0 THEN Rows(v.m) ELSE Cols(v.m)
          IN /\ lc < a.rank /\ rc < b.rank /\ Extent(a, lc) = Extent(b, rc)
             /\ Sound(rc = 0 /\ (a.rank = 1 => b.rank = 1))
             /\ Translate("dot_general", _dot_general(a.ca, b.ca, lc, FALSE),
                          a.rank + b.rank - 2, JaxDot(a, b, lc, rc), FALSE)
    BY <1>9 DEF TranslateDot
  <2>1. /\ lc < At(i).rank /\ 0 < At(j).rank
        /\ Rows(At(j).m) = IF lc = 0 THEN Rows(At(i).m) ELSE Cols(At(i).m)
        /\ At(i).rank = 1 => At(j).rank = 1
        /\ Translate("dot_general", _dot_general(At(i).ca, At(j).ca, lc, FALSE),
                     At(i).rank + At(j).rank - 2, JaxDot(At(i), At(j), lc, 0), FALSE)
    BY <2>0 DEF Sound
  <2>2. At(i) \in Held /\ At(j) \in Held
    BY VarIsHeld
  <2>3. Faithful(_dot_general(At(i).ca, At(j).ca, lc, FALSE),
                 At(i).rank + At(j).rank - 2, JaxDot(At(i), At(j), lc, 0), FALSE)
    BY <2>1, <2>2, DotFaithful
  <2> QED BY <2>1, <2>3, TranslateKeeps
<1>10. CASE TranslateBatchedDot
  <2>1. PICK ans, rank, m, np, prim :
          /\ Translate(prim, ans, rank, m, np)
          /\ ans = Refuse("dot_general[batched]")
    BY <1>10 DEF TranslateBatchedDot, _dot_general
  <2> QED BY <2>1, RefusalFaithful, TranslateKeeps
<1>11. CASE TranslateSlice
  <2>1. PICK i \in Vars, s, l \in {0, 1} \X {1, 2}, strided \in BOOLEAN :
          LET a == At(i)
              start == SubSeq(<<s[1], l[1]>>, 1, a.rank)
              limit == SubSeq(<<s[2], l[2]>>, 1, a.rank)
              m == Block(a.m, s[1], s[2], l[1], l[2])
          IN /\ a.rank > 0 /\ m # Raised
             /\ a.rank = 1 => l = <<0, 1>>
             /\ Translate("slice", _slice(a.ca, start, limit, strided), a.rank, m, a.np)
    BY <1>11 DEF TranslateSlice
  <2> DEFINE a == At(i)
             start == SubSeq(<<s[1], l[1]>>, 1, a.rank)
             limit == SubSeq(<<s[2], l[2]>>, 1, a.rank)
             m == Block(a.m, s[1], s[2], l[1], l[2])
  <2>2. a \in Held
    BY VarIsHeld
  <2> HIDE DEF a
  <2>3. a.rank = 1 => l[1] = 0 /\ l[2] = 1
    BY <2>1 DEF a
  <2>4. m # Raised /\ Translate("slice", _slice(a.ca, start, limit, strided), a.rank, m, a.np)
    BY <2>1, <2>3 DEF a
  <2>5. s[1] \in Int /\ s[2] \in Int /\ l[1] \in Int /\ l[2] \in Int
    OBVIOUS
  <2>6. a.rank \in {1, 2}
    BY <2>1, <2>2, HeldIs DEF Fitting, a
  <2>7. Faithful(_slice(a.ca, start, limit, strided), a.rank, m, a.np)
    BY <2>2, <2>3, <2>4, <2>5, <2>6, SliceFaithful
  <2> HIDE DEF start, limit, m
  <2> QED BY <2>4, <2>7, TranslateKeeps
<1>12. CASE TranslateDynamicSlice
  <2>1. PICK i \in Vars, s \in Vars, size \in Dims :
          LET a == At(i)
              start == At(s).m[1][1]
              from == Clamped(start, size, Rows(a.m))
          IN /\ a.rank \in {1, 2} /\ At(s).rank = 0 /\ size <= Rows(a.m)
             /\ a.rank = 2 => size <= Cols(a.m)
             /\ Sound(from = start /\ (a.rank = 2 => start + size <= Cols(a.m)))
             /\ Translate("dynamic_slice",
                          _dynamic_slice(a.ca, [k \in 1..a.rank |-> At(s)],
                                         [k \in 1..a.rank |-> size]),
                          a.rank,
                          IF a.rank = 1 THEN Block(a.m, from, from + size, 0, 1)
                          ELSE LET across == Clamped(start, size, Cols(a.m))
                               IN Block(a.m, from, from + size, across, across + size),
                          a.np)
    BY <1>12 DEF TranslateDynamicSlice
  <2> DEFINE a == At(i)
             v == At(s)
  <2>2. a \in Held /\ v \in Held
    BY VarIsHeld
  <2>3. size \in Nat \ {0}
    BY TranslatorAssumption
  <2> DEFINE start == v.m[1][1]
             from == Clamped(start, size, Rows(a.m))
             ans == _dynamic_slice(a.ca, [k \in 1..a.rank |-> v], [k \in 1..a.rank |-> size])
             m == IF a.rank = 1 THEN Block(a.m, from, from + size, 0, 1)
                  ELSE LET across == Clamped(start, size, Cols(a.m))
                       IN Block(a.m, from, from + size, across, across + size)
  <2>4. /\ a.rank \in {1, 2} /\ v.rank = 0 /\ size <= Rows(a.m)
        /\ a.rank = 2 => size <= Cols(a.m)
        /\ from = start /\ (a.rank = 2 => start + size <= Cols(a.m))
    BY <2>1 DEF Sound
  <2>5. Translate("dynamic_slice", ans, a.rank, m, a.np)
    BY <2>1
  <2> HIDE DEF a, v
  <2>6. Faithful(ans, a.rank, m, a.np)
    BY <2>2, <2>3, <2>4, DynamicSliceFaithful
  <2> HIDE DEF ans, m
  <2> QED BY <2>5, <2>6, TranslateKeeps
<1>13. CASE TranslateSelect
  <2>1. PICK p \in Vars, i \in Vars, j \in Vars :
          /\ Shape(At(i)) = Shape(At(j)) /\ Shape(At(p)) \in {<<>>, Shape(At(j))}
          /\ Translate("select_n", _select_n(At(p), At(i).ca, At(j).ca), At(j).rank,
                       Selected(At(p), At(i).m, At(j).m), At(j).np /\ At(i).np)
    BY <1>13 DEF TranslateSelect, Selected, Grid
  <2>2. At(p) \in Held /\ At(i) \in Held /\ At(j) \in Held
    BY VarIsHeld
  <2>3. Faithful(_select_n(At(p), At(i).ca, At(j).ca), At(j).rank,
                 Selected(At(p), At(i).m, At(j).m), At(j).np /\ At(i).np)
    BY <2>1, <2>2, SelectFaithful
  <2> QED BY <2>1, <2>3, TranslateKeeps
<1>14. CASE Reject \/ NoHandler
  <2>1. frames' = <<>> /\ outcome'.kind = "CoverageError"
    BY <1>14 DEF Reject, NoHandler, Fail, Outcome
  <2> QED BY <2>1 DEF SoundInv
<1> QED BY <1>1, <1>2, <1>3, <1>4, <1>5, <1>6, <1>7, <1>8, <1>9, <1>10, <1>11, <1>12,
           <1>13, <1>14 DEF WalkEquation

LEMMA KindOf ==
  ASSUME NEW kind, NEW op, NEW c
  PROVE  Outcome(kind, op, c).kind = kind
BY DEF Outcome

\* The inputs and the constants are held as they are given.
LEMMA InputsKeep ==
  ASSUME SoundInv, BuildInputSymbols
  PROVE  SoundInv'
<1>1. sig \in Signatures /\ call \in Calls /\ outcome.kind = "tracing"
  BY DEF SoundInv, BuildInputSymbols
<1>2. CASE \E i \in DOMAIN sig : sig[i].rank > 2
  <2>1. frames' = <<>> /\ outcome'.kind = "CoverageError"
    BY <1>2, KindOf DEF BuildInputSymbols, Fail
  <2> QED BY <2>1 DEF SoundInv
<1>3. CASE ~ \E i \in DOMAIN sig : sig[i].rank > 2
  <2> DEFINE Sym(v, np) == [rank |-> v.rank, m |-> v.m, ca |-> v.m, np |-> np]
             inputs == [i \in DOMAIN sig |-> Sym(sig[i], FALSE)]
             constants == [i \in DOMAIN Consts |-> Sym(Consts[i], TRUE)]
             env == inputs \o constants
  <2>1. ASSUME NEW v, WellShaped(v), NEW np \in BOOLEAN PROVE Sym(v, np) \in Held
    <3>1. IsMatrix(v.m, Rows(v.m), Cols(v.m)) /\ Fitting(v.rank, Rows(v.m), Cols(v.m))
      BY <2>1 DEF WellShaped, IsMatrix, Fitting
    <3> QED BY <3>1, IsHeld
  <2>2. /\ Len(sig) \in Nat /\ DOMAIN sig = 1..Len(sig)
        /\ \A i \in DOMAIN sig : WellShaped(sig[i])
    BY <1>1, <1>3, TranslatorAssumption
  <2>3. /\ Len(Consts) \in Nat /\ DOMAIN Consts = 1..Len(Consts)
        /\ \A i \in DOMAIN Consts : WellShaped(Consts[i])
    BY TranslatorAssumption
  <2> HIDE DEF Sym
  <2>4. inputs \in Seq(Held)
    <3>1. \A i \in 1..Len(sig) : Sym(sig[i], FALSE) \in Held
      BY <2>1, <2>2
    <3>2. inputs \in [1..Len(sig) -> Held]
      BY <2>2, <3>1
    <3> HIDE DEF inputs
    <3> QED BY <2>2, <3>2
  <2>5. constants \in Seq(Held)
    <3>1. \A i \in 1..Len(Consts) : Sym(Consts[i], TRUE) \in Held
      BY <2>1, <2>3
    <3>2. constants \in [1..Len(Consts) -> Held]
      BY <2>3, <3>1
    <3> HIDE DEF constants
    <3> QED BY <2>3, <3>2
  <2> HIDE DEF inputs, constants
  <2>6. env \in Seq(Held) /\ Len(env) \in Nat
    BY <2>4, <2>5
  <2>7. call.family \in Families /\ call.dtype \in Precisions
    BY <1>1 DEF Families, Precisions
  <2>8. /\ frames' = <<[env |-> env, args |-> Len(env),
                        family |-> call.family, dtype |-> call.dtype]>>
        /\ outcome'.kind = "walking"
    <3>1. frames' = <<[env |-> env, args |-> Len(env),
                       family |-> call.family, dtype |-> call.dtype]>>
      BY <1>3 DEF BuildInputSymbols, Sym, inputs, constants
    <3>2. outcome' = Outcome("walking", "", call)
      BY <1>3 DEF BuildInputSymbols
    <3> QED BY <3>1, <3>2, KindOf
  <2> HIDE DEF env
  <2>9. frames' \in Seq(Walks) /\ frames' # <<>>
    <3>1. [env |-> env, args |-> Len(env), family |-> call.family, dtype |-> call.dtype] \in Walks
      BY <2>6, <2>7 DEF Walks
    <3> QED BY <2>8, <3>1
  <2> QED BY <2>8, <2>9 DEF SoundInv
<1> QED BY <1>2, <1>3

\* A jit is entered with the values of its caller and returns one of its own.
LEMMA JitsKeep ==
  ASSUME SoundInv, EnterJit \/ ReturnJit
  PROVE  SoundInv'
<1>1. /\ outcome.kind = "walking" /\ frames # <<>> /\ frames \in Seq(Walks)
      /\ UNCHANGED <<call, sig, outcome>>
  BY DEF EnterJit, ReturnJit, SoundInv
<1>2. Frame \in Walks /\ Env \in Seq(Held)
  BY <1>1, Innermost
<1>3. CASE EnterJit
  <2> DEFINE new == [env |-> Env, args |-> Len(Env),
                     family |-> Defaults.family, dtype |-> Defaults.dtype]
  <2>1. new \in Walks
    <3>1. Len(Env) \in Nat
      BY <1>2
    <3>2. Defaults.family \in Families /\ Defaults.dtype \in Precisions
      BY DEF Families, Precisions
    <3> QED BY <1>2, <3>1, <3>2 DEF Walks
  <2>2. frames' = Append(frames, new)
    BY <1>3 DEF EnterJit
  <2> HIDE DEF new
  <2>3. frames' \in Seq(Walks) /\ frames' # <<>>
    BY <1>1, <2>1, <2>2
  <2> QED BY <1>1, <2>3 DEF SoundInv
<1>4. CASE ReturnJit
  <2> DEFINE n == Len(frames)
             outer == SubSeq(frames, 1, n - 1)
             new == At(Len(Env))
  <2>1. n \in Nat /\ n > 1 /\ Len(Env) > Frame.args
    BY <1>1, <1>4 DEF ReturnJit
  <2>2. Frame.args \in Nat
    BY <1>2 DEF Walks
  <2>3. new \in Held
    <3>1. Len(Env) \in DOMAIN Env
      BY <1>2, <2>1, <2>2
    <3> QED BY <1>2, <3>1 DEF At
  <2>4. outer \in Seq(Walks) /\ Len(outer) = n - 1 /\ n - 1 \in 1..(n - 1)
    BY <1>1, <2>1
  <2>5. frames' = [outer EXCEPT ![n - 1].env = Append(@, new)]
    BY <1>4 DEF ReturnJit
  <2> HIDE DEF outer, new, n
  <2>6. outer[n - 1] \in Walks
    BY <2>4
  <2>7. Append(outer[n - 1].env, new) \in Seq(Held)
    BY <2>3, <2>6 DEF Walks
  <2>8. [outer[n - 1] EXCEPT !.env = Append(@, new)] \in Walks
    BY <2>6, <2>7 DEF Walks
  <2>9. frames' \in Seq(Walks) /\ frames' # <<>>
    BY <2>4, <2>5, <2>6, <2>8
  <2> QED BY <1>1, <2>9 DEF SoundInv
<1> QED BY <1>3, <1>4

LEMMA SoundNext == SoundOnly /\ SoundInv /\ [Next]_vars => SoundInv'
<1> SUFFICES ASSUME SoundOnly, SoundInv, [Next]_vars PROVE SoundInv'
  OBVIOUS
<1>1. CASE UNCHANGED translatorVars
  BY <1>1 DEF translatorVars, SoundInv
<1>2. CASE Fresh /\ Trace
  <2>1. UNCHANGED frames /\ call' \in Calls /\ sig' \in Signatures
    BY <1>2 DEF Trace
  <2>2. PICK c \in Calls, hasWhile \in BOOLEAN :
          outcome' = IF hasWhile THEN Outcome("CoverageError", "lax.while_loop", c)
                                 ELSE Outcome("tracing", "", c)
    BY <1>2 DEF Trace
  <2>3. CASE hasWhile
    <3>1. outcome' = Outcome("CoverageError", "lax.while_loop", c)
      BY <2>2, <2>3
    <3>2. outcome'.kind = "CoverageError"
      BY <3>1, KindOf
    <3> QED BY <2>1, <3>2 DEF SoundInv
  <2>4. CASE ~hasWhile
    <3>1. outcome' = Outcome("tracing", "", c)
      BY <2>2, <2>4
    <3>2. outcome'.kind = "tracing"
      BY <3>1, KindOf
    <3> QED BY <2>1, <3>2 DEF SoundInv
  <2> QED BY <2>3, <2>4
<1>3. CASE BuildInputSymbols
  BY <1>3, InputsKeep
<1>4. CASE WalkEquation
  BY <1>4, WalkKeeps
<1>5. CASE EnterJit \/ ReturnJit
  BY <1>5, JitsKeep
<1>6. CASE DeliverTranslated
  <2>1. UNCHANGED frames /\ outcome'.kind = "translated"
    BY <1>6 DEF DeliverTranslated, Finish, Outcome
  <2> QED BY <2>1 DEF SoundInv
<1>7. CASE ForgetTranslation
  <2>1. frames' = <<>> /\ UNCHANGED outcome /\ outcome.kind = "translated"
    BY <1>7 DEF ForgetTranslation
  <2> QED BY <2>1 DEF SoundInv
<1>8. CASE DeliverGenerated
  BY <1>1, <1>8 DEF DeliverGenerated
<1>9. CASE UNCHANGED vars
  BY <1>1, <1>9 DEF vars
<1> QED BY <1>1, <1>2, <1>3, <1>4, <1>5, <1>6, <1>7, <1>8, <1>9 DEF Next

\* Wherever jaxprs keep to the forms that the translator reads soundly, every
\* value it holds is the matrix that JAX means: for every signature, prime,
\* choice of dimensions, and any chain of equations and nesting of jits.
THEOREM LayoutIsKept ==
  ASSUME SoundOnly
  PROVE  Spec => []LayoutAgrees
<1>1. Init => SoundInv
  <2> HAVE Init
  <2>1. frames = <<>> /\ outcome = Idle
    BY DEF Init, TranslatorInit
  <2>2. outcome.kind = "idle"
    BY <2>1, KindOf DEF Idle
  <2> QED BY <2>1, <2>2 DEF SoundInv
<1>2. SoundInv => LayoutAgrees
  <2> SUFFICES ASSUME SoundInv, NEW f \in DOMAIN frames, NEW i \in DOMAIN frames[f].env
               PROVE  frames[f].env[i].ca = frames[f].env[i].m
    BY DEF LayoutAgrees
  <2>1. frames[f] \in Walks
    BY DEF SoundInv
  <2>2. frames[f].env \in Seq(Held)
    BY <2>1 DEF Walks
  <2>3. frames[f].env[i] \in Held
    BY <2>2
  <2> QED BY <2>3, HeldIs
<1>3. SoundOnly
  OBVIOUS
<1>4. SoundInv /\ [Next]_vars => SoundInv'
  BY <1>3, SoundNext
<1> QED BY <1>1, <1>2, <1>4, PTL DEF Spec

(***************************************************************************)
(* The dynamics fit the state: how many degrees of freedom there are.      *)
(***************************************************************************)

\* Every body has one joint or none, of one of the four types.
OneJoint(R) ==
  /\ Len(R) \in Nat /\ DOMAIN R = 1..Len(R)
  /\ \A b \in DOMAIN R :
       \/ R[b].joints = <<>>
       \/ \E t \in DOMAIN Freedoms : R[b].joints = <<t>>

\* What the joints of a body add to a count.
OwnCount(joints, size) ==
  LET own[i \in 0..2] ==
        IF i = 0 THEN 0
        ELSE own[i - 1] + (IF i \in DOMAIN joints THEN size[joints[i]] ELSE 0)
  IN own[2]

LEMMA OwnIs ==
  ASSUME NEW size \in [DOMAIN Freedoms -> Nat], NEW joints,
         joints = <<>> \/ \E t \in DOMAIN Freedoms : joints = <<t>>
  PROVE  /\ joints = <<>> => OwnCount(joints, size) = 0
         /\ joints # <<>> => OwnCount(joints, size) = size[joints[1]]
         /\ OwnCount(joints, size) \in Nat
<1> DEFINE IsOwn(s) ==
             s = [i \in 0..2 |->
                    IF i = 0 THEN 0
                    ELSE s[i - 1] + (IF i \in DOMAIN joints THEN size[joints[i]] ELSE 0)]
           own == CHOOSE s : IsOwn(s)
<1>1. OwnCount(joints, size) = own[2]
  BY DEF OwnCount
<1> DEFINE first == IF joints = <<>> THEN 0 ELSE size[joints[1]]
<1>2. \A i \in 1..2 : i \in DOMAIN joints => i = 1 /\ joints # <<>>
  OBVIOUS
<1>3. joints # <<>> => 1 \in DOMAIN joints /\ joints[1] \in DOMAIN Freedoms
  OBVIOUS
<1>4. first \in Nat
  BY <1>3
<1>5. (IF 1 \in DOMAIN joints THEN size[joints[1]] ELSE 0) = first
  BY <1>2, <1>3
<1>6. (IF 2 \in DOMAIN joints THEN size[joints[2]] ELSE 0) = 0
  BY <1>2
<1>7. IsOwn([i \in 0..2 |-> IF i = 0 THEN 0 ELSE first])
  <2> DEFINE g == [i \in 0..2 |-> IF i = 0 THEN 0 ELSE first]
  <2>1. g[0] = 0 /\ g[1] = first /\ g[2] = first
    OBVIOUS
  <2>2. \A i \in 0..2 :
          g[i] = IF i = 0 THEN 0
                 ELSE g[i - 1] + (IF i \in DOMAIN joints THEN size[joints[i]] ELSE 0)
    <3>1. g[1] = g[1 - 1] + (IF 1 \in DOMAIN joints THEN size[joints[1]] ELSE 0)
      BY <1>4, <1>5, <2>1
    <3>2. g[2] = g[2 - 1] + (IF 2 \in DOMAIN joints THEN size[joints[2]] ELSE 0)
      BY <1>4, <1>6, <2>1
    <3>3. \A i \in 0..2 : i = 0 \/ i = 1 \/ i = 2
      OBVIOUS
    <3> HIDE DEF g
    <3> QED BY <2>1, <3>1, <3>2, <3>3
  <2>3. g = [i \in 0..2 |-> g[i]]
    OBVIOUS
  <2> HIDE DEF g
  <2>4. IsOwn(g)
    BY <2>2, <2>3
  <2> QED BY <2>4 DEF g
<1>8. IsOwn(own)
  BY <1>7
<1> HIDE DEF own
<1>9. \A i \in 0..2 :
        own[i] = IF i = 0 THEN 0
                 ELSE own[i - 1] + (IF i \in DOMAIN joints THEN size[joints[i]] ELSE 0)
  BY <1>8
<1> HIDE DEF IsOwn
<1>10. own[0] = 0 /\ own[1] = own[1 - 1] + first /\ own[2] = own[2 - 1] + 0
  BY <1>5, <1>6, <1>9
<1>11. own[2] = first
  BY <1>4, <1>10
<1> QED BY <1>1, <1>4, <1>11

\* A count goes from body to body.
LEMMA CountIs ==
  ASSUME NEW R, OneJoint(R), NEW size \in [DOMAIN Freedoms -> Nat]
  PROVE  \E s \in [0..Len(R) -> Nat] :
           /\ s[0] = 0
           /\ \A k \in 1..Len(R) : s[k] = s[k - 1] + OwnCount(R[k].joints, size)
           /\ CountOf(R, size) = s[Len(R)]
<1> DEFINE n == Len(R)
           term(k) == OwnCount(R[k].joints, size)
           IsSums(s) == s = [k \in 0..n |-> IF k = 0 THEN 0 ELSE s[k - 1] + term(k)]
           s == CHOOSE s : IsSums(s)
<1>0. n \in Nat /\ \A k \in 1..n : term(k) \in Nat
  <2>1. ASSUME NEW k \in 1..n PROVE term(k) \in Nat
    BY OwnIs DEF OneJoint
  <2> QED BY <2>1 DEF OneJoint
<1>1. CountOf(R, size) = s[n]
  BY DEF CountOf, OwnCount
<1> HIDE DEF term, n
<1>2. \E f : IsSums(f) /\ f \in [0..n -> Nat]
  <2> DEFINE next == [e \in Nat \X (1..n) |-> e[1] + term(e[2])]
  <2>1. next \in [Nat \X (1..n) -> Nat]
    <3>1. ASSUME NEW e \in Nat \X (1..n) PROVE e[1] + term(e[2]) \in Nat
      <4>1. e[1] \in Nat /\ term(e[2]) \in Nat
        BY <1>0
      <4> QED BY <4>1
    <3> QED BY <3>1
  <2>2. \A y \in Nat, k \in 1..n : next[<<y, k>>] = y + term(k)
    OBVIOUS
  <2> HIDE DEF next
  <2>3. PICK f \in [0..n -> Nat] : Chain(f, 0, next, n)
    BY <1>0, <2>1, ChainExists
  <2>4. \A k \in 0..n : f[k] = IF k = 0 THEN 0 ELSE f[k - 1] + term(k)
    <3> TAKE k \in 0..n
    <3>1. f[k] = IF k = 0 THEN 0 ELSE next[<<f[k - 1], k>>]
      BY <2>3 DEF Chain
    <3>2. k # 0 => k - 1 \in 0..n /\ k \in 1..n
      BY <1>0
    <3> QED BY <2>2, <2>3, <3>1, <3>2
  <2>5. f = [k \in 0..n |-> f[k]]
    BY <2>3
  <2> QED BY <2>3, <2>4, <2>5
<1>3. IsSums(s)
  BY <1>2
<1> HIDE DEF s
<1>4. \A k \in 0..n : s[k] = IF k = 0 THEN 0 ELSE s[k - 1] + term(k)
  BY <1>3
<1>5. s = [k \in 0..n |-> s[k]]
  BY <1>3
<1> HIDE DEF IsSums
<1>6. s[0] = 0 /\ \A k \in 1..n : k \in 0..n /\ s[k] = s[k - 1] + term(k)
  BY <1>0, <1>4
<1>7. \A k \in 0..n : s[k] \in Nat
  <2> DEFINE T == {k \in 0..n : s[k] \in Nat}
  <2>1. 0 \in T
    BY <1>0, <1>6
  <2>2. ASSUME NEW k \in 0 .. (n - 1), k \in T PROVE k + 1 \in T
    <3>1. k + 1 \in 1..n /\ (k + 1) - 1 = k
      BY <1>0
    <3>2. s[k + 1] = s[k] + term(k + 1)
      BY <1>6, <3>1
    <3>3. s[k] \in Nat /\ term(k + 1) \in Nat /\ k + 1 \in 0..n
      BY <1>0, <2>2, <3>1
    <3> QED BY <3>2, <3>3
  <2> HIDE DEF T
  <2>3. \A k \in 0 .. (n - 1) : k \in T => k + 1 \in T
    BY <2>2
  <2>4. \A k \in 0..n : k \in T
    BY <1>0, <2>1, <2>3, UpTo
  <2> QED BY <2>4 DEF T
<1>8. s \in [0..n -> Nat]
  BY <1>5, <1>7
<1> QED BY <1>1, <1>6, <1>8 DEF term, n

\* Where coordinates and degrees of freedom are as many, each joint has one of
\* both, so the degrees of freedom are the bodies that a joint moves.
LEMMA FreedomsAreJoints ==
  ASSUME NEW R, OneJoint(R), CountOf(R, Positions) = CountOf(R, Freedoms)
  PROVE  /\ CountOf(R, Freedoms) = Cardinality(Moving(R))
         /\ Cardinality(Moving(R)) \in Nat
         /\ (\A b \in DOMAIN R : Len(R[b].joints) = 1) => CountOf(R, Freedoms) = Len(R)
<1> DEFINE n == Len(R)
           Upto(k) == {x \in Moving(R) : x <= k}
<1>1. n \in Nat /\ DOMAIN R = 1..n
  BY DEF OneJoint
<1>2. /\ Positions \in [DOMAIN Freedoms -> Nat] /\ Freedoms \in [DOMAIN Freedoms -> Nat]
      /\ \A t \in DOMAIN Freedoms :
           (Freedoms[t] = 1 /\ Positions[t] = 1) \/ Positions[t] > Freedoms[t]
  BY DEF Positions, Freedoms
<1>3. PICK p \in [0..n -> Nat] :
        /\ p[0] = 0
        /\ \A k \in 1..n : p[k] = p[k - 1] + OwnCount(R[k].joints, Positions)
        /\ CountOf(R, Positions) = p[n]
  BY <1>2, CountIs
<1>4. PICK f \in [0..n -> Nat] :
        /\ f[0] = 0
        /\ \A k \in 1..n : f[k] = f[k - 1] + OwnCount(R[k].joints, Freedoms)
        /\ CountOf(R, Freedoms) = f[n]
  BY <1>2, CountIs
<1>5. \A k \in 1..n :
        LET own == OwnCount(R[k].joints, Freedoms)
            pos == OwnCount(R[k].joints, Positions)
        IN /\ own \in Nat /\ pos \in Nat
           /\ \/ k \notin Moving(R) /\ own = 0 /\ pos = 0
              \/ k \in Moving(R) /\ own = 1 /\ pos = 1
              \/ pos > own
  <2> TAKE k \in 1..n
  <2>1. R[k].joints = <<>> \/ \E t \in DOMAIN Freedoms : R[k].joints = <<t>>
    BY <1>1 DEF OneJoint
  <2>2. CASE R[k].joints = <<>>
    <3>1. k \notin Moving(R)
      BY <2>2 DEF Moving
    <3>2. OwnCount(R[k].joints, Freedoms) = 0 /\ OwnCount(R[k].joints, Positions) = 0
      BY <1>2, <2>1, <2>2, OwnIs
    <3> QED BY <3>1, <3>2
  <2>3. CASE \E t \in DOMAIN Freedoms : R[k].joints = <<t>>
    <3>1. PICK t \in DOMAIN Freedoms : R[k].joints = <<t>>
      BY <2>3
    <3>2. k \in Moving(R)
      BY <1>1, <3>1 DEF Moving
    <3>3. R[k].joints # <<>> /\ R[k].joints[1] = t
      BY <3>1
    <3>4. OwnCount(R[k].joints, Freedoms) = Freedoms[t]
      BY <1>2, <2>1, <3>3, OwnIs
    <3>5. OwnCount(R[k].joints, Positions) = Positions[t]
      BY <1>2, <2>1, <3>3, OwnIs
    <3> QED BY <1>2, <3>2, <3>4, <3>5
  <2> QED BY <2>1, <2>2, <2>3
<1>6. Moving(R) \subseteq 1..n /\ IsFiniteSet(1..n) /\ Cardinality(1..n) = n
  <2>1. Moving(R) \subseteq 1..n
    BY <1>1 DEF Moving
  <2> HIDE DEF n
  <2>2. IsFiniteSet(1..n) /\ Cardinality(1..n) = IF 1 > n THEN 0 ELSE n - 1 + 1
    BY <1>1, FS_Interval
  <2>3. Cardinality(1..n) = n
    BY <1>1, <2>2
  <2> QED BY <2>1, <2>2, <2>3
<1>7. \A k \in 0..n : IsFiniteSet(Upto(k)) /\ Cardinality(Upto(k)) \in Nat
  <2> TAKE k \in 0..n
  <2>1. Upto(k) \subseteq 1..n
    BY <1>6
  <2> QED BY <1>6, <2>1, FS_Subset, FS_CardinalityType
<1>8. \A k \in 0..n : p[k] >= f[k] /\ (p[k] = f[k] => f[k] = Cardinality(Upto(k)))
  <2> DEFINE T == {k \in 0..n : p[k] >= f[k] /\ (p[k] = f[k] => f[k] = Cardinality(Upto(k)))}
  <2>1. 0 \in T
    <3>1. Upto(0) = {}
      BY <1>1, <1>6
    <3>2. Cardinality(Upto(0)) = 0
      BY <3>1, FS_EmptySet
    <3> QED BY <1>1, <1>3, <1>4, <3>2
  <2>2. ASSUME NEW k \in 0 .. (n - 1), k \in T PROVE k + 1 \in T
    <3>1. k + 1 \in 1..n /\ k + 1 \in 0..n /\ (k + 1) - 1 = k /\ k \in 0..n
      BY <1>1
    <3> DEFINE own == OwnCount(R[k + 1].joints, Freedoms)
               pos == OwnCount(R[k + 1].joints, Positions)
    <3>2. p[k + 1] = p[k] + pos /\ f[k + 1] = f[k] + own
      BY <1>3, <1>4, <3>1
    <3>3. p[k] >= f[k] /\ (p[k] = f[k] => f[k] = Cardinality(Upto(k)))
      BY <2>2
    <3>4. /\ own \in Nat /\ pos \in Nat
          /\ \/ k + 1 \notin Moving(R) /\ own = 0 /\ pos = 0
             \/ k + 1 \in Moving(R) /\ own = 1 /\ pos = 1
             \/ pos > own
      BY <1>5, <3>1
    <3>5. p[k] \in Nat /\ f[k] \in Nat /\ Cardinality(Upto(k)) \in Nat /\ IsFiniteSet(Upto(k))
      BY <1>7, <3>1
    <3>6. CASE k + 1 \notin Moving(R)
      <4>1. Upto(k + 1) = Upto(k)
        BY <1>1, <1>6, <3>1, <3>6
      <4> HIDE DEF own, pos, Upto
      <4>2. p[k + 1] >= f[k + 1] /\ (p[k + 1] = f[k + 1] => f[k + 1] = Cardinality(Upto(k + 1)))
        BY <3>2, <3>3, <3>4, <3>5, <3>6, <4>1
      <4> QED BY <3>1, <4>2
    <3>7. CASE k + 1 \in Moving(R)
      <4>1. Upto(k + 1) = Upto(k) \union {k + 1} /\ k + 1 \notin Upto(k)
        BY <1>1, <1>6, <3>1, <3>7
      <4> HIDE DEF own, pos, Upto
      <4>2. Cardinality(Upto(k + 1)) = Cardinality(Upto(k)) + 1
        BY <3>5, <4>1, FS_AddElement
      <4>3. p[k + 1] >= f[k + 1] /\ (p[k + 1] = f[k + 1] => f[k + 1] = Cardinality(Upto(k + 1)))
        BY <3>2, <3>3, <3>4, <3>5, <3>7, <4>2
      <4> QED BY <3>1, <4>3
    <3> QED BY <3>6, <3>7
  <2> HIDE DEF T
  <2>3. \A k \in 0 .. (n - 1) : k \in T => k + 1 \in T
    BY <2>2
  <2>4. \A k \in 0..n : k \in T
    BY <1>1, <2>1, <2>3, UpTo
  <2> QED BY <2>4 DEF T
<1>9. n \in 0..n /\ Upto(n) = Moving(R)
  BY <1>1, <1>6
<1> HIDE DEF Upto
<1>10. CountOf(R, Freedoms) = Cardinality(Moving(R)) /\ Cardinality(Moving(R)) \in Nat
  BY <1>3, <1>4, <1>7, <1>8, <1>9
<1>11. (\A b \in DOMAIN R : Len(R[b].joints) = 1) => Moving(R) = 1..n
  BY <1>1 DEF Moving
<1> QED BY <1>6, <1>10, <1>11

(***************************************************************************)
(* The emitted expression has an acceleration for each of them.            *)
(***************************************************************************)

\* A list of n entries.
Listed(list, n) == list = [k \in 1..n |-> list[k]]

LEMMA LenOf ==
  ASSUME NEW n \in Nat, NEW list, Listed(list, n)
  PROVE  Len(list) = n /\ DOMAIN list = 1..n
<1>1. list \in [1..n -> {list[k] : k \in 1..n}]
  BY DEF Listed
<1> QED BY <1>1

Passing == {"pass1", "pass2", "pass3"}

TreeInv ==
  /\ stage \in Passing \union {"emitted"} => dofs \in Nat /\ Len(tree) = dofs
  /\ stage \in Passing => step \in Int
  /\ stage \in {"none", "pass1", "pass2"} => qdd = <<>>
  /\ stage = "pass3" => step \in 1..(dofs + 1) /\ Listed(qdd, step - 1)
  /\ stage = "emitted" => Len(qdd) = dofs

LEMMA StartKeeps ==
  ASSUME NEW R, NEW t, NEW n \in Nat, Start(R, t), Listed(t, n), dofs' = n,
         TreeInv, stage = "none"
  PROVE  TreeInv'
<1>1. stage' = "pass1" /\ step' = 1 /\ tree' = t /\ qdd' = <<>>
  BY DEF Start, TreeInv
<1>2. Len(tree') = n
  BY <1>1, LenOf
<1> QED BY <1>1, <1>2 DEF TreeInv, Passing

LEMMA ReadKeeps ==
  ASSUME \A R \in Robots : OneJoint(R), TreeInv,
         _generate_from_mujoco \/ _generate_from_pinocchio
  PROVE  TreeInv'
<1>1. ASSUME NEW R, NEW s \in {"rejected", "wrapped"}, End(R, s) PROVE TreeInv'
  BY <1>1 DEF End, TreeInv, Passing
<1>2. CASE _generate_from_mujoco
  <2>1. PICK R \in Robots :
          \/ End(R, "rejected")
          \/ /\ dofs' = CountOf(R, Freedoms) /\ CountOf(R, Positions) = dofs'
             /\ Start(R, _extract_tree_from_mujoco(R))
    BY <1>2 DEF _generate_from_mujoco
  <2>2. CASE End(R, "rejected")
    BY <1>1, <2>2
  <2>3. CASE ~End(R, "rejected")
    <3>1. OneJoint(R)
      OBVIOUS
    <3>2. dofs' = Cardinality(Moving(R)) /\ Cardinality(Moving(R)) \in Nat
      BY <2>1, <2>3, <3>1, FreedomsAreJoints
    <3>3. Listed(_extract_tree_from_mujoco(R), Cardinality(Moving(R)))
      BY <3>2 DEF Listed, _extract_tree_from_mujoco
    <3>4. stage = "none" /\ Start(R, _extract_tree_from_mujoco(R))
      BY <1>2, <2>1, <2>3 DEF _generate_from_mujoco
    <3> QED BY <3>2, <3>3, <3>4, StartKeeps
  <2> QED BY <2>2, <2>3
<1>3. CASE _generate_from_pinocchio
  <2>1. PICK R \in Robots :
          \/ End(R, "rejected") \/ End(R, "wrapped")
          \/ /\ \A b \in DOMAIN R : Len(R[b].joints) = 1
             /\ dofs' = CountOf(R, Freedoms) /\ CountOf(R, Positions) = dofs'
             /\ Start(R, _extract_tree(R))
    BY <1>3 DEF _generate_from_pinocchio, _emit_pinocchio_casadi
  <2>2. CASE End(R, "rejected") \/ End(R, "wrapped")
    BY <1>1, <2>2
  <2>3. CASE ~ (End(R, "rejected") \/ End(R, "wrapped"))
    <3>1. OneJoint(R)
      OBVIOUS
    <3>2. dofs' = Len(R) /\ Len(R) \in Nat
      BY <2>1, <2>3, <3>1, FreedomsAreJoints DEF OneJoint
    <3>3. Listed(_extract_tree(R), Len(R))
      BY <3>2 DEF Listed, _extract_tree
    <3>4. stage = "none" /\ Start(R, _extract_tree(R))
      BY <1>3, <2>1, <2>3 DEF _generate_from_pinocchio
    <3> QED BY <3>2, <3>3, <3>4, StartKeeps
  <2> QED BY <2>2, <2>3
<1> QED BY <1>2, <1>3

LEMMA PassesKeep ==
  ASSUME TreeInv, Pass1 \/ Pass2 \/ Pass3 \/ NextPass
  PROVE  TreeInv'
<1>1. CASE Pass1
  <2>1. /\ stage = "pass1" /\ step' = step + 1
        /\ UNCHANGED <<stage, tree, qdd, dofs>>
    BY <1>1 DEF Pass1
  <2> QED BY <2>1 DEF TreeInv, Passing
<1>2. CASE Pass2
  <2>1. /\ stage = "pass2" /\ step' = step - 1
        /\ UNCHANGED <<stage, tree, qdd, dofs>>
    BY <1>2 DEF Pass2
  <2> QED BY <2>1 DEF TreeInv, Passing
<1>3. CASE Pass3
  <2>1. PICK x : /\ stage = "pass3" /\ step <= N /\ step' = step + 1
                 /\ qdd' = Set(qdd, step, x)
                 /\ UNCHANGED <<stage, tree, dofs>>
    BY <1>3 DEF Pass3
  <2>2. dofs \in Nat /\ Len(tree) = dofs /\ step \in 1..dofs /\ Listed(qdd, step - 1)
    BY <2>1 DEF TreeInv, Passing, N
  <2>3. DOMAIN qdd = 1..(step - 1)
    BY <2>2, LenOf
  <2>4. DOMAIN qdd \union {step} = 1..step
    BY <2>2, <2>3
  <2>5. qdd' = [k \in 1..step |-> IF k = step THEN x ELSE qdd[k]]
    BY <2>1, <2>4 DEF Set
  <2>6. Listed(qdd', step)
    BY <2>5 DEF Listed
  <2>7. step' - 1 = step /\ step' \in 1..(dofs + 1)
    BY <2>1, <2>2
  <2>8. stage' = "pass3" /\ dofs' = dofs /\ tree' = tree
    BY <2>1
  <2>9. Listed(qdd', step' - 1) /\ step' \in 1..(dofs' + 1)
    BY <2>6, <2>7, <2>8
  <2>10. Len(tree') = dofs' /\ dofs' \in Nat /\ step' \in Int
    BY <2>2, <2>7, <2>8
  <2>11. Listed(qdd, step - 1)'
    BY <2>9 DEF Listed
  <2> QED BY <2>8, <2>9, <2>10, <2>11 DEF TreeInv, Passing
<1>4. CASE NextPass
  <2>1. UNCHANGED <<tree, qdd, dofs>>
    BY <1>4 DEF NextPass, lists
  <2>2. CASE stage = "pass1"
    <3>1. stage' = "pass2" /\ step' = N /\ Len(tree) = dofs /\ dofs \in Nat
      BY <1>4, <2>2 DEF NextPass, TreeInv, Passing
    <3> QED BY <2>1, <2>2, <3>1 DEF TreeInv, Passing, N
  <2>3. CASE stage = "pass2"
    <3>1. stage' = "pass3" /\ step' = 1 /\ qdd = <<>> /\ dofs \in Nat /\ Len(tree) = dofs
      BY <1>4, <2>3 DEF NextPass, TreeInv, Passing
    <3>2. Listed(<<>>, 0)
      BY DEF Listed
    <3>3. Listed(qdd, step - 1)'
      BY <2>1, <3>1, <3>2 DEF Listed
    <3> QED BY <2>1, <3>1, <3>3 DEF TreeInv, Passing
  <2>4. CASE stage = "pass3"
    <3>1. /\ stage' = "emitted" /\ step > N /\ dofs \in Nat /\ Len(tree) = dofs
          /\ step \in 1..(dofs + 1) /\ Listed(qdd, step - 1)
      BY <1>4, <2>4 DEF NextPass, TreeInv, Passing
    <3>2. step - 1 = dofs
      BY <3>1 DEF N
    <3>3. Len(qdd) = dofs
      BY <3>1, <3>2, LenOf
    <3> QED BY <2>1, <3>1, <3>3 DEF TreeInv, Passing
  <2> QED BY <1>4, <2>2, <2>3, <2>4 DEF NextPass
<1> QED BY <1>1, <1>2, <1>3, <1>4

LEMMA TreeNext == (\A R \in Robots : OneJoint(R)) /\ TreeInv /\ [Next]_vars => TreeInv'
<1> SUFFICES ASSUME \A R \in Robots : OneJoint(R), TreeInv, [Next]_vars PROVE TreeInv'
  OBVIOUS
<1>1. CASE UNCHANGED rbdVars
  BY <1>1 DEF rbdVars, lists, TreeInv, Listed
<1>2. CASE RigidBodyNext
  BY <1>2, ReadKeeps, PassesKeep DEF RigidBodyNext
<1>3. CASE DeliverGenerated
  <2>1. stage' = "delivered"
    BY <1>3 DEF DeliverGenerated
  <2> QED BY <2>1 DEF TreeInv, Passing
<1> QED BY <1>1, <1>2, <1>3 DEF Next, vars, DeliverTranslated, ForgetTranslation

(***************************************************************************)
(* From the producers of dynamics to the problem.                          *)
(***************************************************************************)

\* Declared as a vector of n, the expression is a column of n entries.
SizeInv ==
  /\ phase # "none" => \A n : dyn.out = <<n>> => dyn.size = <<n, 1>>
  /\ DynamicsFitState

LEMMA DeliverFits ==
  ASSUME NEW d, \A n : d.out = <<n>> => d.size = <<n, 1>>, Deliver(d)
  PROVE  SizeInv'
<1>1. phase' = "dynamics" /\ dyn' = d
  BY DEF Deliver
<1> QED BY <1>1 DEF SizeInv, DynamicsFitState, Built

LEMMA TranslatedFits ==
  ASSUME SoundInv, DeliverTranslated
  PROVE  SizeInv'
<1> DEFINE result == At(Len(Env))
<1>1. outcome.kind = "walking" /\ frames # <<>> /\ Len(Env) > Frame.args /\ Deliver(Translated)
  BY DEF DeliverTranslated, Finish, SoundInv
<1>2. Frame \in Walks /\ Env \in Seq(Held)
  BY <1>1, Innermost
<1>3. Frame.args \in Nat
  BY <1>2 DEF Walks
<1>4. Len(Env) \in DOMAIN Env
  BY <1>1, <1>2, <1>3
<1>5. result \in Held
  BY <1>2, <1>4 DEF At
<1>6. /\ Translated.out = Shape(result)
      /\ Translated.size = <<Rows(result.ca), Cols(result.ca)>>
  BY DEF Translated, CasadiFunction
<1> HIDE DEF result
<1>7. result.ca = result.m /\ Fitting(result.rank, Rows(result.m), Cols(result.m))
  BY <1>5, HeldIs
<1>8. ASSUME NEW n, Translated.out = <<n>> PROVE Translated.size = <<n, 1>>
  <2>1. Len(Shape(result)) = 1
    BY <1>6, <1>8
  <2>2. result.rank = 1 /\ Shape(result) = <<Rows(result.m)>>
    BY <1>5, <2>1, ShapeOfHeld
  <2>3. Cols(result.m) = 1
    BY <1>7, <2>2 DEF Fitting
  <2>4. n = Rows(result.m)
    <3>1. <<n>> = <<Rows(result.m)>>
      BY <1>6, <1>8, <2>2
    <3> QED BY ONLY <3>1
  <2> QED BY <1>6, <1>7, <2>3, <2>4
<1> QED BY <1>1, <1>8, DeliverFits

LEMMA GeneratedFits ==
  ASSUME TreeInv, DeliverGenerated
  PROVE  SizeInv'
<1>1. stage \in {"emitted", "wrapped"} /\ Deliver(Generated)
  BY DEF DeliverGenerated
<1>2. /\ Generated.out = <<2 * dofs>>
      /\ Generated.size = <<IF stage = "wrapped" THEN 2 * dofs ELSE 2 * Len(qdd), 1>>
  BY DEF Generated, CasadiFunction
<1>3. stage # "wrapped" => Len(qdd) = dofs
  BY <1>1 DEF TreeInv
<1>4. (IF stage = "wrapped" THEN 2 * dofs ELSE 2 * Len(qdd)) = 2 * dofs
  BY <1>3
<1>5. ASSUME NEW n, Generated.out = <<n>> PROVE Generated.size = <<n, 1>>
  BY <1>2, <1>4, <1>5
<1> QED BY <1>1, <1>5, DeliverFits

LEMMA TakeFits ==
  ASSUME SizeInv, NEW specs, NEW want, Take(specs, want)
  PROVE  SizeInv'
<1>1. phase = "dynamics" /\ phase' \in {"refused", "spec"} /\ dyn' = dyn
  BY DEF Take
<1> QED BY <1>1 DEF SizeInv, DynamicsFitState, Built

LEMMA ProblemFits ==
  ASSUME SizeInv, OcpNext
  PROVE  SizeInv'
<1>1. CASE CallLqr \/ CallTracking \/ CallCentroidal \/ CallMultiContact \/ CallWbc
  BY <1>1, TakeFits DEF CallLqr, CallTracking, CallCentroidal, CallMultiContact, CallWbc
<1>2. CASE WriteSpec
  BY <1>2, TakeFits DEF WriteSpec
<1>3. CASE build_ocp
  <2>1. phase = "spec" /\ dyn' = dyn /\ spec' = spec
    BY <1>3 DEF build_ocp
  <2>2. CASE _signature_matches(dyn, spec)
    <3>1. dyn.out = <<Len(spec.Q)>>
      BY <2>2 DEF _signature_matches
    <3>2. dyn.size = <<Len(spec.Q), 1>>
      BY <2>1, <3>1 DEF SizeInv
    <3>3. phase' = "ocp" /\ ocp' = OcpOf(dyn, spec)
      BY <1>3, <2>2 DEF build_ocp
    <3>4. OcpOf(dyn, spec).f = dyn.size
      BY DEF OcpOf
    <3> QED BY <2>1, <3>2, <3>3, <3>4 DEF SizeInv, DynamicsFitState, Built
  <2>3. CASE ~_signature_matches(dyn, spec)
    <3>1. phase' = "refused"
      BY <1>3, <2>3 DEF build_ocp
    <3> QED BY <2>1, <3>1 DEF SizeInv, DynamicsFitState, Built
  <2> QED BY <2>2, <2>3
<1>4. CASE MakeSolver
  <2>1. phase = "ocp" /\ phase' = "solver" /\ UNCHANGED <<dyn, spec, ocp>>
    BY <1>4 DEF MakeSolver
  <2> QED BY <2>1 DEF SizeInv, DynamicsFitState, Built
<1>5. CASE PushReferences
  <2>1. UNCHANGED <<dyn, phase, spec, ocp>>
    BY <1>5 DEF PushReferences, set_reference_trajectory
  <2> QED BY <2>1 DEF SizeInv, DynamicsFitState, Built
<1> QED BY <1>1, <1>2, <1>3, <1>4, <1>5 DEF OcpNext

LEMMA SizeNext == SoundInv /\ TreeInv /\ SizeInv /\ [Next]_vars => SizeInv'
<1> SUFFICES ASSUME SoundInv, TreeInv, SizeInv, [Next]_vars PROVE SizeInv'
  OBVIOUS
<1>1. CASE UNCHANGED ocpVars
  BY <1>1 DEF ocpVars, SizeInv, DynamicsFitState, Built
<1> QED BY <1>1, TranslatedFits, GeneratedFits, ProblemFits DEF Next, vars, ForgetTranslation

\* build_ocp compares the shapes that the dynamics declare; the expression it
\* hands to acados is of the size of the state nevertheless, whether translate
\* walked it, over any jaxpr of the sound forms, or generate_dynamics emitted
\* it, for any robot whose bodies have one joint or none.
THEOREM SizesMeet ==
  ASSUME SoundOnly, \A R \in Robots : OneJoint(R)
  PROVE  Spec => []DynamicsFitState
<1>1. Init => SoundInv /\ TreeInv /\ SizeInv
  <2> HAVE Init
  <2>1. frames = <<>> /\ outcome = Idle /\ stage = "none" /\ qdd = <<>> /\ phase = "none"
    BY DEF Init, TranslatorInit, RigidBodyInit, OcpInit
  <2>2. outcome.kind = "idle"
    BY <2>1, KindOf DEF Idle
  <2>3. SoundInv
    BY <2>1, <2>2 DEF SoundInv
  <2>4. TreeInv
    BY <2>1 DEF TreeInv, Passing
  <2> QED BY <2>1, <2>3, <2>4 DEF SizeInv, DynamicsFitState, Built
<1>2. SoundOnly /\ \A R \in Robots : OneJoint(R)
  OBVIOUS
<1>3. SoundInv /\ [Next]_vars => SoundInv'
  BY <1>2, SoundNext
<1>4. TreeInv /\ [Next]_vars => TreeInv'
  BY <1>2, TreeNext
<1>5. SizeInv => DynamicsFitState
  BY DEF SizeInv
<1> QED BY <1>1, <1>3, <1>4, <1>5, SizeNext, PTL DEF Spec

(***************************************************************************)
(* The cost of the problem is the sum of the costs of the tasks.           *)
(***************************************************************************)

\* The pull of a weight from a reference, at z.
PullOf(w, y, z) == (w * ((z - y) % P)) % P

LEMMA PullLaw ==
  ASSUME NEW w \in Int, NEW y \in Int, NEW z \in Int
  PROVE  PullOf(w, y, z) = (w * (z - y)) % P
<1> DEFINE d == z - y
<1>1. d \in Int
  OBVIOUS
<1> HIDE DEF d
<1>2. (w * (d % P)) % P = (w * d) % P
  BY <1>1, ModLaws
<1> QED BY <1>2 DEF PullOf, d

\* Merged weights and the weighted mean pull as the tasks do together.
LEMMA MeanPulls ==
  ASSUME NEW n \in Nat, NEW a \in [1..n -> Int], NEW r \in [1..n -> Int], NEW z \in Int,
         Total(n, a) = 0 => \A k \in 1..n : a[k] % P = 0
  PROVE  LET W == Total(n, a)
             M == Total(n, [k \in 1..n |-> a[k] * r[k]])
         IN PullOf(W, IF W = 0 THEN 0 ELSE Over(M, W), z)
              = Total(n, [k \in 1..n |-> a[k] * (z - r[k])])
<1> DEFINE b == [k \in 1..n |-> a[k] * r[k]]
           c == [k \in 1..n |-> a[k] * (z - r[k])]
           W == Total(n, a)
           M == Total(n, b)
<1>1. /\ \A k \in 1..n : a[k] \in Int /\ r[k] \in Int /\ z - r[k] \in Int
      /\ \A k \in 1..n : a[k] * r[k] \in Int /\ c[k] = a[k] * (z - r[k])
  <2>1. \A k \in 1..n : a[k] \in Int /\ r[k] \in Int /\ z - r[k] \in Int
    OBVIOUS
  <2>2. \A k \in 1..n : a[k] * r[k] \in Int
    BY <2>1
  <2> QED BY <2>1, <2>2
<1>2. b \in [1..n -> Int] /\ c \in [1..n -> Int]
  <2>1. \A k \in 1..n : a[k] * (z - r[k]) \in Int
    BY <1>1
  <2> QED BY <1>1, <2>1
<1>3. W = Total(n, a) /\ M = Total(n, b) /\ (W = 0 => \A k \in 1..n : a[k] % P = 0)
  OBVIOUS
<1>4. Total(n, c) = (z * W - M) % P
  BY TotalOfDifferences
<1> HIDE DEF b, c, W, M
<1>5. W \in Field /\ M \in Field /\ W \in Int /\ M \in Int
  <2>1. PICK s : Sums(s, n, a) /\ Total(n, a) = s[n]
    BY TotalIs
  <2>2. PICK t : Sums(t, n, b) /\ Total(n, b) = t[n]
    BY <1>2, TotalIs
  <2>3. W \in Field /\ M \in Field
    BY <1>3, <2>1, <2>2 DEF Sums
  <2> QED BY <2>3, FieldOf
<1>6. ASSUME W = 0 PROVE PullOf(W, 0, z) = Total(n, c)
  <2>1. \A k \in 1..n : c[k] % P = 0
    <3> TAKE k \in 1..n
    <3> DEFINE d == z - r[k]
    <3>1. a[k] \in Int /\ d \in Int /\ c[k] = a[k] * d /\ a[k] % P = 0
      BY <1>1, <1>3, <1>6
    <3> HIDE DEF d
    <3>2. (d * (a[k] % P)) % P = (d * a[k]) % P
      BY <3>1, ModLaws
    <3>3. d * 0 = 0 /\ d * a[k] = a[k] * d
      BY <3>1
    <3> QED BY <3>1, <3>2, <3>3, FieldOf
  <2>2. Total(n, c) = 0
    BY <1>2, <2>1, TotalOfZeros
  <2>3. PullOf(0, 0, z) = 0
    <3>1. (z - 0) % P \in Int
      BY FieldOf
    <3>2. 0 * ((z - 0) % P) = 0
      BY <3>1
    <3> QED BY <3>2, FieldOf DEF PullOf
  <2> QED BY <1>6, <2>2, <2>3
<1>7. ASSUME W # 0 PROVE PullOf(W, Over(M, W), z) = Total(n, c)
  <2> DEFINE inv == CHOOSE i \in Field : (W * i) % P = 1
             q == M * inv
  <2>1. inv \in Field /\ (W * inv) % P = 1
    <3>1. W \in Field \ {0}
      BY <1>5, <1>7
    <3>2. \E i \in Field : (W * i) % P = 1
      BY <3>1, PrimeAssumption
    <3> QED BY <3>2
  <2>2. Over(M, W) = q % P
    BY <1>7 DEF Over
  <2>3. inv \in Int
    BY <2>1, FieldOf
  <2> HIDE DEF inv
  <2>4. q \in Int /\ W * inv \in Int /\ q % P \in Int /\ W * z \in Int
    <3>1. q \in Int
      BY <1>5, <2>3
    <3> HIDE DEF q
    <3>2. q % P \in Int
      BY <3>1, FieldOf
    <3> QED BY <1>5, <2>3, <3>1, <3>2
  <2>5. (W * (q % P)) % P = M
    <3>1. (W * (q % P)) % P = (W * q) % P
      BY <1>5, <2>4, ModLaws
    <3>2. W * q = M * (W * inv)
      BY <1>5, <2>3, SMT
    <3>3. (M * ((W * inv) % P)) % P = (M * (W * inv)) % P
      BY <1>5, <2>4, ModLaws
    <3>4. M * 1 = M /\ M % P = M
      BY <1>5, FieldOf
    <3> QED BY <2>1, <3>1, <3>2, <3>3, <3>4
  <2> DEFINE m == q % P
  <2> HIDE DEF q, m
  <2>6. PullOf(W, m, z) = (W * (z - m)) % P
    <3>1. m \in Int
      BY <2>4 DEF m
    <3> QED BY <1>5, <3>1, PullLaw
  <2>7. m \in Int /\ (W * m) % P = M /\ W * m \in Int
    <3>1. m \in Int
      BY <2>4 DEF m
    <3> QED BY <1>5, <2>5, <3>1 DEF m
  <2>8. W * (z - m) = W * z - W * m
    BY <1>5, <2>7, SMT
  <2>9. (W * z - ((W * m) % P)) % P = (W * z - W * m) % P
    BY <2>4, <2>7, ModLaws
  <2>10. W * z = z * W
    BY <1>5
  <2> QED BY <1>4, <1>7, <2>2, <2>6, <2>7, <2>8, <2>9, <2>10 DEF m
<1>8. PullOf(W, IF W = 0 THEN 0 ELSE Over(M, W), z) = Total(n, c)
  BY <1>6, <1>7
<1> QED BY <1>8 DEF W, M, b, c

\* A column, given by its entries.
Upright(e, n) == [i \in 1..n |-> [j \in 1..1 |-> e[i]]]

LEMMA UprightIs ==
  ASSUME NEW n \in Nat \ {0}, NEW e \in [1..n -> Field]
  PROVE  /\ IsMatrix(Upright(e, n), n, 1)
         /\ \A i \in 1..n : Upright(e, n)[i][1] = e[i]
         /\ Column(e) = Upright(e, n)
<1>1. IsMatrix(Upright(e, n), n, 1) /\ \A i \in 1..n : Upright(e, n)[i][1] = e[i]
  BY DEF Upright, IsMatrix
<1>2. \A x : <<x>> = [j \in 1..1 |-> x]
  OBVIOUS
<1>3. Len(e) = n
  OBVIOUS
<1>4. Column(e) = [i \in 1..n |-> <<e[i]>>]
  BY <1>3 DEF Column
<1> QED BY <1>1, <1>2, <1>4 DEF Upright

\* A diagonal matrix scales the entries of a column.
LEMMA DiagonalTimes ==
  ASSUME NEW n \in Nat \ {0}, NEW d \in [1..n -> Field], NEW e \in [1..n -> Field],
         NEW mt, IsMatrix(mt, n, n),
         \A i, j \in 1..n : mt[i][j] = IF i = j THEN d[i] ELSE 0
  PROVE  MTimes(mt, Upright(e, n)) = Upright([i \in 1..n |-> (d[i] * e[i]) % P], n)
<1> DEFINE c == Upright(e, n)
<1>1. IsMatrix(c, n, 1) /\ \A i \in 1..n : c[i][1] = e[i]
  BY UprightIs
<1> HIDE DEF c
<1>2. Rows(mt) = n /\ Cols(mt) = n /\ Cols(c) = 1
  BY <1>1, SizeOf
<1>3. MTimes(mt, c) = MatProduct(mt, c)
  BY <1>1, ProductIs
<1>4. MatProduct(mt, c) = [i \in 1..n |-> [j \in 1..1 |-> RowByColumn(mt, c, n, i, j)]]
  BY <1>2 DEF MatProduct, Grid, RowByColumn
<1>5. ASSUME NEW i \in 1..n PROVE RowByColumn(mt, c, n, i, 1) = (d[i] * e[i]) % P
  <2> DEFINE g == [k \in 1..n |-> mt[i][k] * c[k][1]]
  <2>1. RowByColumn(mt, c, n, i, 1) = Total(n, g)
    BY DEF RowByColumn, SumOver
  <2>2. \A k \in 1..n : g[k] = IF k = i THEN d[i] * e[i] ELSE 0
    <3> TAKE k \in 1..n
    <3>1. d[i] \in Int /\ e[k] \in Int
      BY FieldOf
    <3>2. 0 * e[k] = 0
      BY <3>1
    <3> QED BY <1>1, <3>2
  <2>3. g \in [1..n -> Int]
    <3>1. d[i] \in Int /\ e[i] \in Int
      BY FieldOf
    <3>2. d[i] * e[i] \in Int
      BY <3>1
    <3>3. \A k \in 1..n : g[k] \in Int
      BY <2>2, <3>2
    <3>4. g = [k \in 1..n |-> g[k]]
      OBVIOUS
    <3> HIDE DEF g
    <3> QED BY <3>3, <3>4
  <2>4. 0 % P = 0
    BY FieldOf
  <2> HIDE DEF g
  <2>5. \A k \in 1..n : k # i => g[k] % P = 0
    BY <2>2, <2>4
  <2>6. Total(n, g) = g[i] % P
    BY <2>3, <2>5, TotalOfOne
  <2> QED BY <2>1, <2>2, <2>6
<1>6. [i \in 1..n |-> [j \in 1..1 |-> RowByColumn(mt, c, n, i, j)]]
        = [i \in 1..n |-> [j \in 1..1 |-> (d[i] * e[i]) % P]]
  BY <1>5
<1> QED BY <1>3, <1>4, <1>6 DEF Upright, c

\* The difference of two columns.
LEMMA ColumnsDiffer ==
  ASSUME NEW n \in Nat \ {0}, NEW e \in [1..n -> Field], NEW f \in [1..n -> Field]
  PROVE  Entrywise(LAMBDA x, y : (x - y) % P, Upright(e, n), Upright(f, n))
           = Upright([i \in 1..n |-> (e[i] - f[i]) % P], n)
<1> DEFINE a == Upright(e, n)
           b == Upright(f, n)
<1>1. /\ IsMatrix(a, n, 1) /\ \A i \in 1..n : a[i][1] = e[i]
      /\ IsMatrix(b, n, 1) /\ \A i \in 1..n : b[i][1] = f[i]
  BY UprightIs
<1> HIDE DEF a, b
<1>2. /\ Rows(a) = n /\ Cols(a) = 1 /\ Rows(b) = n /\ Cols(b) = 1
      /\ IsScalar(a) <=> n = 1
      /\ IsScalar(b) <=> n = 1
  BY <1>1, SizeOf, ScalarIs
<1>3. Entrywise(LAMBDA x, y : (x - y) % P, a, b)
        = [i \in 1..n |-> [j \in 1..1 |-> (a[i][1] - b[i][1]) % P]]
  <2> DEFINE F == Entrywise(LAMBDA x, y : (x - y) % P, a, b)
  <2>1. CASE n = 1
    <3>1. F = [i \in 1..1 |-> [j \in 1..1 |-> (a[1][1] - b[i][j]) % P]]
      BY <1>2, <2>1 DEF Entrywise, Grid
    <3>2. [i \in 1..1 |-> [j \in 1..1 |-> (a[1][1] - b[i][j]) % P]]
            = [i \in 1..1 |-> [j \in 1..1 |-> (a[i][1] - b[i][1]) % P]]
      OBVIOUS
    <3> HIDE DEF F
    <3>3. F = [i \in 1..n |-> [j \in 1..1 |-> (a[i][1] - b[i][1]) % P]]
      BY <2>1, <3>1, <3>2
    <3> QED BY <3>3 DEF F
  <2>2. CASE n # 1
    <3>1. F = [i \in 1..n |-> [j \in 1..1 |-> (a[i][j] - b[i][j]) % P]]
      BY <1>2, <2>2 DEF Entrywise, Grid, SameSize
    <3>2. [i \in 1..n |-> [j \in 1..1 |-> (a[i][j] - b[i][j]) % P]]
            = [i \in 1..n |-> [j \in 1..1 |-> (a[i][1] - b[i][1]) % P]]
      OBVIOUS
    <3> HIDE DEF F
    <3>3. F = [i \in 1..n |-> [j \in 1..1 |-> (a[i][1] - b[i][1]) % P]]
      BY <3>1, <3>2
    <3> QED BY <3>3 DEF F
  <2> QED BY <2>1, <2>2
<1>4. \A i \in 1..n : (a[i][1] - b[i][1]) % P = (e[i] - f[i]) % P
  BY <1>1
<1> QED BY <1>3, <1>4 DEF a, b, Upright

\* What build_ocp makes of the cost of a specification.
CostOf(p, s) ==
  LET nx == Len(s.Q)  nu == Len(s.R) IN
  /\ p.W = Diagonal(s.Q \o s.R)
  /\ p.Vx = Eye(nx + nu, nx, 0) /\ p.Vu = Eye(nx + nu, nu, nx)
  /\ p.yref = s.xref \o s.uref
  /\ p.We = Diagonal(s.Qe) /\ p.Vxe = Eye(nx, nx, 0) /\ p.yrefe = s.xref

\* Weights and references of a specification are vectors that fit.
CostFits(s) ==
  /\ s.Q \in Seq(Field) /\ s.xref \in Seq(Field) /\ Len(s.xref) = Len(s.Q) /\ Len(s.Q) # 0
  /\ s.R \in Seq(Field) /\ s.uref \in Seq(Field) /\ Len(s.uref) = Len(s.R)

\* It is about n components.
HasSize(s, n) == n = Len(s.Q) + Len(s.R)

LEMMA SizeIs ==
  ASSUME NEW s, NEW n, HasSize(s, n), CostFits(s)
  PROVE  n \in Nat \ {0}
<1> DEFINE a == Len(s.Q)
           b == Len(s.R)
<1>1. a \in Nat /\ b \in Nat /\ a # 0
  BY DEF CostFits
<1>2. n = a + b
  BY DEF HasSize
<1> HIDE DEF a, b
<1> QED BY <1>1, <1>2

LEMMA Joined ==
  ASSUME NEW s \in Seq(Field), NEW t \in Seq(Field), NEW n, n = Len(s) + Len(t)
  PROVE  /\ s \o t \in [1..n -> Field] /\ Len(s \o t) = n
         /\ \A k \in 1..n : (s \o t)[k] = IF k <= Len(s) THEN s[k] ELSE t[k - Len(s)]
<1> DEFINE u == s \o t
<1>1. u \in Seq(Field) /\ Len(u) = n
  OBVIOUS
<1>2. \A k \in 1..n : u[k] = IF k <= Len(s) THEN s[k] ELSE t[k - Len(s)]
  OBVIOUS
<1> HIDE DEF u
<1>3. u \in [1..n -> Field]
  BY <1>1
<1> QED BY <1>1, <1>2, <1>3 DEF u

\* The columns of the state beside those of the input are an identity.
Beside(A, B) == [i \in 1..Rows(A) |-> A[i] \o B[i]]
Selector(n, nx) == Beside(Eye(n, nx, 0), Eye(n, n - nx, nx))

LEMMA SelectorIs ==
  ASSUME NEW n \in Nat \ {0}, NEW nx \in 0..n
  PROVE  /\ IsMatrix(Selector(n, nx), n, n)
         /\ \A i, j \in 1..n : Selector(n, nx)[i][j] = IF i = j THEN 1 ELSE 0
<1> DEFINE nu == n - nx
           A == Eye(n, nx, 0)
           B == Eye(n, nu, nx)
           V == Selector(n, nx)
<1>1. V = [i \in 1..Rows(A) |-> A[i] \o B[i]] /\ A = Eye(n, nx, 0)
  BY DEF Selector, Beside
<1>2. n \in Nat /\ n # 0 /\ nx \in Nat /\ nu \in Nat /\ n = nx + nu /\ B = Eye(n, nu, nx)
  OBVIOUS
<1> HIDE DEF nu, A, B, V
<1>3. Rows(A) = n
  <2>1. A = [i \in 1..n |-> [j \in 1..nx |-> IF i = j + 0 THEN 1 ELSE 0]]
    BY <1>1 DEF Eye, Grid
  <2>2. A \in [1..n -> {A[i] : i \in 1..n}]
    BY <2>1
  <2>3. Len(A) = n
    BY <1>2, <2>2
  <2> QED BY <2>3 DEF Rows
<1>4. ASSUME NEW i \in 1..n
      PROVE  /\ V[i] \in [1..n -> Field]
             /\ \A j \in 1..n : V[i][j] = IF i = j THEN 1 ELSE 0
  <2>1. /\ A[i] \in Seq(Field) /\ Len(A[i]) = nx
        /\ \A j \in 1..nx : A[i][j] = IF i = j + 0 THEN 1 ELSE 0
    <3> DEFINE row == [j \in 1..nx |-> IF i = j + 0 THEN 1 ELSE 0]
    <3>1. A[i] = row
      BY <1>1 DEF Eye, Grid
    <3>2. row \in [1..nx -> Field] /\ \A j \in 1..nx : row[j] = IF i = j + 0 THEN 1 ELSE 0
      BY FieldOf
    <3> HIDE DEF row
    <3> QED BY <3>1, <3>2
  <2>2. /\ B[i] \in Seq(Field) /\ Len(B[i]) = nu
        /\ \A j \in 1..nu : B[i][j] = IF i = j + nx THEN 1 ELSE 0
    <3> DEFINE row == [j \in 1..nu |-> IF i = j + nx THEN 1 ELSE 0]
    <3>1. B[i] = row
      BY <1>2 DEF Eye, Grid
    <3>2. row \in [1..nu -> Field] /\ \A j \in 1..nu : row[j] = IF i = j + nx THEN 1 ELSE 0
      BY FieldOf
    <3>3. nu \in Nat
      BY <1>2
    <3> HIDE DEF row
    <3> QED BY ONLY <3>1, <3>2, <3>3
  <2>3. V[i] = A[i] \o B[i]
    BY <1>3, <1>1
  <2>4. n = Len(A[i]) + Len(B[i])
    BY <1>2, <2>1, <2>2
  <2>5. /\ A[i] \o B[i] \in [1..n -> Field]
        /\ \A k \in 1..n : (A[i] \o B[i])[k]
                             = IF k <= Len(A[i]) THEN A[i][k] ELSE B[i][k - Len(A[i])]
    <3> DEFINE a == A[i]
               b == B[i]
    <3>1. a \in Seq(Field) /\ b \in Seq(Field) /\ n = Len(a) + Len(b)
      BY <2>1, <2>2, <2>4
    <3> HIDE DEF a, b
    <3>2. /\ a \o b \in [1..n -> Field]
          /\ \A k \in 1..n : (a \o b)[k] = IF k <= Len(a) THEN a[k] ELSE b[k - Len(a)]
      BY <3>1, Joined
    <3> QED BY <3>2 DEF a, b
  <2>6. ASSUME NEW j \in 1..n PROVE V[i][j] = IF i = j THEN 1 ELSE 0
    <3>1. CASE j <= nx
      <4>1. j \in 1..nx /\ (i = j + 0 <=> i = j)
        BY <3>1
      <4> QED BY <2>1, <2>3, <2>5, <3>1, <4>1
    <3>2. CASE ~(j <= nx)
      <4>1. j - nx \in 1..nu /\ (i = (j - nx) + nx <=> i = j)
        BY <1>2, <3>2
      <4>2. B[i][j - nx] = IF i = (j - nx) + nx THEN 1 ELSE 0
        BY <2>2, <4>1
      <4>3. V[i][j] = B[i][j - nx]
        BY <2>1, <2>3, <2>5, <3>2
      <4> QED BY <4>1, <4>2, <4>3
    <3> QED BY <3>1, <3>2
  <2> QED BY <2>3, <2>5, <2>6
<1>5. V = [i \in 1..n |-> V[i]]
  BY <1>3, <1>1
<1>6. V \in [1..n -> [1..n -> Field]]
  BY <1>4, <1>5
<1> QED BY <1>2, <1>4, <1>6 DEF IsMatrix, V

\* Weights, reference, point and selector of one length.
Weighed(n, w, y, z, V) ==
  /\ n \in Nat \ {0} /\ w \in [1..n -> Field] /\ Len(w) = n
  /\ y \in [1..n -> Field] /\ z \in [1..n -> Field]
  /\ IsMatrix(V, n, n) /\ \A i, j \in 1..n : V[i][j] = IF i = j THEN 1 ELSE 0

\* The gradient of weights that each act on a component of their own.
LEMMA GradientOfIs ==
  ASSUME NEW n, NEW w, NEW y, NEW z, NEW V, Weighed(n, w, y, z, V)
  PROVE  GradientOf(V, Diagonal(w), y, z) = Upright([i \in 1..n |-> PullOf(w[i], y[i], z[i])], n)
<1> DEFINE W == Diagonal(w)
           d == [i \in 1..n |-> (z[i] - y[i]) % P]
           e == [i \in 1..n |-> (w[i] * d[i]) % P]
           one == [i \in 1..n |-> 1]
<1>3. n \in Nat \ {0} /\ z \in [1..n -> Field]
  BY DEF Weighed
<1>4. w \in [1..n -> Field] /\ y \in [1..n -> Field] /\ Len(w) = n
  BY DEF Weighed
<1>5. IsMatrix(V, n, n) /\ \A i, j \in 1..n : V[i][j] = IF i = j THEN 1 ELSE 0
  BY DEF Weighed
<1>6. IsMatrix(Transpose(V), n, n)
      /\ \A i, j \in 1..n : Transpose(V)[i][j] = IF i = j THEN 1 ELSE 0
  <2>1. IsMatrix(V, n, n) /\ \A i, j \in 1..n : V[i][j] = IF i = j THEN 1 ELSE 0
    BY <1>5
  <2>2. /\ IsMatrix(Transpose(V), n, n)
        /\ \A i, j \in 1..n : Transpose(V)[i][j] = V[j][i]
    <3>1. IsMatrix(V, n, n)
      BY <2>1
    <3>2. IsMatrix(Transpose(V), n, n)
      BY ONLY <3>1, TransposeOf
    <3>3. ASSUME NEW i \in 1..n, NEW j \in 1..n
          PROVE  Transpose(V)[i][j] = V[j][i]
      BY ONLY <3>1, <3>3, TransposeAt
    <3> QED BY ONLY <3>2, <3>3
  <2> QED BY ONLY <2>1, <2>2
<1>7. IsMatrix(W, n, n) /\ \A i, j \in 1..n : W[i][j] = IF i = j THEN w[i] ELSE 0
  <2>1. W = [i \in 1..n |-> [j \in 1..n |-> IF i = j THEN w[i] ELSE 0]]
    BY <1>4 DEF Diagonal, Grid
  <2> QED BY <1>3, <1>4, <2>1, FieldOf DEF IsMatrix
<1>8. one \in [1..n -> Field] /\ \A i \in 1..n : one[i] = 1
  BY FieldOf
<1> HIDE DEF one
<1>9. ASSUME NEW f \in [1..n -> Field], NEW mt, IsMatrix(mt, n, n),
             \A i, j \in 1..n : mt[i][j] = IF i = j THEN 1 ELSE 0
      PROVE  MTimes(mt, Upright(f, n)) = Upright(f, n)
  <2>1. \A i, j \in 1..n : mt[i][j] = IF i = j THEN one[i] ELSE 0
    BY <1>8, <1>9
  <2>2. MTimes(mt, Upright(f, n)) = Upright([i \in 1..n |-> (one[i] * f[i]) % P], n)
    <3>1. n \in Nat \ {0} /\ one \in [1..n -> Field] /\ f \in [1..n -> Field]
      BY <1>3, <1>8
    <3> QED BY ONLY IsMatrix(mt, n, n), <2>1, <3>1, DiagonalTimes, ZenonT(30)
  <2>3. \A i \in 1..n : (one[i] * f[i]) % P = f[i]
    <3> TAKE i \in 1..n
    <3>1. f[i] \in Int /\ f[i] % P = f[i]
      BY <1>9, FieldOf
    <3>2. 1 * f[i] = f[i]
      BY <3>1
    <3> QED BY <1>8, <3>1, <3>2
  <2>4. [i \in 1..n |-> (one[i] * f[i]) % P] = f
    BY <1>9, <2>3
  <2> QED BY <2>2, <2>4
<1>10. d \in [1..n -> Field] /\ e \in [1..n -> Field]
  <2>1. ASSUME NEW i \in 1..n PROVE (z[i] - y[i]) % P \in Field
    <3>1. z[i] \in Int /\ y[i] \in Int
      BY <1>3, <1>4, FieldOf
    <3>2. z[i] - y[i] \in Int
      BY <3>1
    <3> QED BY <3>2, FieldOf
  <2>2. d \in [1..n -> Field]
    BY <2>1
  <2> HIDE DEF d
  <2>3. ASSUME NEW i \in 1..n PROVE (w[i] * d[i]) % P \in Field
    <3>1. w[i] \in Int /\ d[i] \in Int
      BY <1>4, <2>2, FieldOf
    <3>2. w[i] * d[i] \in Int
      BY <3>1
    <3> QED BY <3>2, FieldOf
  <2> QED BY <2>2, <2>3
<1>11. e = [i \in 1..n |-> PullOf(w[i], y[i], z[i])]
  BY DEF PullOf
<1>12. Column(z) = Upright(z, n) /\ Column(y) = Upright(y, n)
  BY <1>3, <1>4, UprightIs
<1>13. Entrywise(LAMBDA a, b : (a - b) % P, Upright(z, n), Upright(y, n)) = Upright(d, n)
  BY <1>3, <1>4, ColumnsDiffer
<1>14. MTimes(V, Upright(z, n)) = Upright(z, n)
  BY <1>3, <1>5, <1>9
<1> HIDE DEF d
<1>15. MTimes(W, Upright(d, n)) = Upright(e, n)
  <2>1. n \in Nat \ {0} /\ w \in [1..n -> Field] /\ d \in [1..n -> Field]
    BY <1>3, <1>4, <1>10
  <2> QED BY ONLY <1>7, <2>1, DiagonalTimes, ZenonT(30)
<1>16. MTimes(Transpose(V), Upright(e, n)) = Upright(e, n)
  <2> HIDE DEF e
  <2> QED BY <1>6, <1>9, <1>10
<1>17. GradientOf(V, W, y, z) =
         MTimes(Transpose(V), MTimes(W,
           Entrywise(LAMBDA a, b : (a - b) % P, MTimes(V, Column(z)), Column(y))))
  BY DEF GradientOf
<1>18. GradientOf(V, W, y, z) = Upright(e, n)
  <2> HIDE DEF e, W
  <2>1. MTimes(V, Column(z)) = Upright(z, n)
    BY <1>12, <1>14
  <2>2. Entrywise(LAMBDA a, b : (a - b) % P, MTimes(V, Column(z)), Column(y)) = Upright(d, n)
    BY <1>12, <1>13, <2>1
  <2>3. MTimes(W, Entrywise(LAMBDA a, b : (a - b) % P, MTimes(V, Column(z)), Column(y)))
          = Upright(e, n)
    BY <1>15, <2>2
  <2> QED BY <1>16, <1>17, <2>3
<1> QED BY <1>11, <1>18

\* The gradient of the problem's cost: each weight pulls at its component.
LEMMA GradientIs ==
  ASSUME NEW n, HasSize(spec, n), CostFits(spec), CostOf(ocp, spec),
         NEW z \in [1..n -> Field]
  PROVE  Gradient(z) = Upright([i \in 1..n |->
                         PullOf((spec.Q \o spec.R)[i], (spec.xref \o spec.uref)[i], z[i])], n)
<1> DEFINE Q == spec.Q
           R == spec.R
           xref == spec.xref
           uref == spec.uref
           w == Q \o R
           y == xref \o uref
           V == [i \in 1..Rows(ocp.Vx) |-> ocp.Vx[i] \o ocp.Vu[i]]
<1>0. /\ Q \in Seq(Field) /\ xref \in Seq(Field) /\ Len(xref) = Len(Q) /\ Len(Q) # 0
      /\ R \in Seq(Field) /\ uref \in Seq(Field) /\ Len(uref) = Len(R)
  BY DEF CostFits
<1>1. /\ ocp.W = Diagonal(w) /\ ocp.yref = y
      /\ ocp.Vx = Eye(Len(Q) + Len(R), Len(Q), 0)
      /\ ocp.Vu = Eye(Len(Q) + Len(R), Len(R), Len(Q))
  BY DEF CostOf
<1>2. n = Len(Q) + Len(R)
  BY DEF HasSize
<1> HIDE DEF Q, R, xref, uref
<1>3. n \in Nat \ {0} /\ Len(Q) \in Nat /\ Len(R) \in Nat /\ n = Len(xref) + Len(uref)
  <2>1. Len(Q) \in Nat /\ Len(R) \in Nat
    BY <1>0
  <2>2. n \in Nat \ {0}
    BY SizeIs
  <2>3. n = Len(xref) + Len(uref)
    BY <1>0, <1>2
  <2> QED BY <2>1, <2>2, <2>3
<1>4. w \in [1..n -> Field] /\ y \in [1..n -> Field] /\ Len(w) = n
  <2>1. w \in Seq(Field) /\ y \in Seq(Field) /\ Len(w) = n /\ Len(y) = n
    <3>1. w \in Seq(Field) /\ Len(w) = Len(Q) + Len(R)
      BY <1>0
    <3>2. y \in Seq(Field) /\ Len(y) = Len(xref) + Len(uref)
      BY <1>0
    <3> HIDE DEF w, y
    <3> QED BY <1>3, <1>2, <3>1, <3>2
  <2> HIDE DEF w, y
  <2> QED BY ONLY <1>3, <2>1
<1> HIDE DEF w, y
<1>5. IsMatrix(V, n, n) /\ \A i, j \in 1..n : V[i][j] = IF i = j THEN 1 ELSE 0
  <2>1. Len(R) = n - Len(Q) /\ Len(Q) \in 0..n
    BY <1>3, <1>2
  <2>2. ocp.Vx = Eye(n, Len(Q), 0) /\ ocp.Vu = Eye(n, n - Len(Q), Len(Q))
    BY <1>1, <1>2, <2>1
  <2>3. V = Selector(n, Len(Q))
    BY <2>2 DEF Selector, Beside
  <2>4. n \in Nat \ {0} /\ Len(Q) \in 0..n
    BY <1>3, <2>1
  <2> HIDE DEF V
  <2> QED BY ONLY <2>3, <2>4, SelectorIs
<1> HIDE DEF V
<1>6. Gradient(z) = GradientOf(V, Diagonal(w), y, z)
  BY <1>1 DEF Gradient, V
<1>7. GradientOf(V, Diagonal(w), y, z) = Upright([i \in 1..n |-> PullOf(w[i], y[i], z[i])], n)
  <2>1. Weighed(n, w, y, z, V)
    BY <1>3, <1>4, <1>5 DEF Weighed
  <2> QED BY ONLY <2>1, GradientOfIs
<1> QED BY <1>6, <1>7 DEF w, y, Q, R, xref, uref

\* What the tasks ask of component i at z, and weights that ask the same.
Pulled(tasks, weight, reference, i, z) ==
  SumOver(Len(tasks), LAMBDA k : tasks[k].priority * tasks[k][weight][i]
                                   * (z - tasks[k][reference][i]))
PullsAs(w, y, tasks, weight, reference) ==
  \A i \in 1..Len(w), z \in Field :
    PullOf(w[i], y[i], z) = Pulled(tasks, weight, reference, i, z)

\* What the tasks weigh component i of the state.
WeightOf(tasks, i) == SumOver(Len(tasks), LAMBDA k : tasks[k].priority * tasks[k].sw[i])

\* The terminal weights are the caller's, or the factor times those of the stages,
\* which are the tasks' own.
Ends(s, want) ==
  /\ want.Qe \in Vectors \union {None}
  /\ s.Qe = Default(want.Qe, Scaled(Factor, s.Q)) /\ Len(s.Qe) = Len(s.Q)
  /\ \A i \in 1..Len(s.Q) : s.Q[i] = WeightOf(want.tasks, i)

\* A specification asks for what its caller has in mind.
Asks(s, want) ==
  /\ CostFits(s) /\ Ends(s, want)
  /\ PullsAs(s.Q, s.xref, want.tasks, "sw", "xr")
  /\ PullsAs(s.R, s.uref, want.tasks, "iw", "ur")

CostInv ==
  /\ phase \in {"spec", "ocp", "solver"} => Asks(spec, asked)
  /\ Built => CostOf(ocp, spec)

LEMMA WantedIs ==
  ASSUME NEW n, HasSize(spec, n), CostFits(spec), NEW z \in [1..n -> Field]
  PROVE  Wanted(z) = Upright([i \in 1..n |->
           IF i <= Len(spec.Q) THEN Pulled(asked.tasks, "sw", "xr", i, z[i])
           ELSE Pulled(asked.tasks, "iw", "ur", i - Len(spec.Q), z[i])], n)
<1> DEFINE nx == Len(spec.Q)
           tasks == asked.tasks
           Pull(t, i) == IF i <= nx THEN t.priority * t.sw[i] * (z[i] - t.xr[i])
                         ELSE t.priority * t.iw[i - nx] * (z[i] - t.ur[i - nx])
           Sum(i) == SumOver(Len(tasks), LAMBDA k : Pull(tasks[k], i))
           Two(i) == IF i <= nx THEN Pulled(tasks, "sw", "xr", i, z[i])
                     ELSE Pulled(tasks, "iw", "ur", i - nx, z[i])
<1>1. n \in Nat \ {0}
  BY SizeIs
<1>2. Len(z) = n
  BY <1>1
<1>3. Wanted(z) = [i \in 1..n |-> <<Sum(i)>>]
  BY <1>2 DEF Wanted
<1>4. ASSUME NEW i \in 1..n PROVE Sum(i) = Two(i)
  <2>1. CASE i <= nx
    BY <2>1 DEF Pulled, SumOver
  <2>2. CASE ~(i <= nx)
    BY <2>2 DEF Pulled, SumOver
  <2> QED BY <2>1, <2>2
<1> HIDE DEF Sum, Two
<1>5. \A i \in 1..n : <<Sum(i)>> = [j \in 1..1 |-> Two(i)]
  BY <1>4
<1>6. Wanted(z) = [i \in 1..n |-> [j \in 1..1 |-> Two(i)]]
  BY <1>3, <1>5
<1> QED BY <1>6 DEF Two, Upright

LEMMA CornersFit ==
  ASSUME NEW n, NEW z \in Corners(n)
  PROVE  z \in [1..n -> Field]
BY FieldOf DEF Corners, Unit

\* The cost that acados is given pulls as the tasks do.
LEMMA CostAgrees ==
  ASSUME CostInv
  PROVE  CostIsTasks
<1> SUFFICES ASSUME Built, NEW z \in Corners(Len(spec.Q) + Len(spec.R))
             PROVE  Gradient(z) = Wanted(z)
  BY DEF CostIsTasks
<1> DEFINE Q == spec.Q
           R == spec.R
           n == Len(Q) + Len(R)
           xref == spec.xref
           uref == spec.uref
           nx == Len(Q)
           w == Q \o R
           y == xref \o uref
<1>1. CostOf(ocp, spec) /\ Asks(spec, asked) /\ HasSize(spec, n)
  BY DEF CostInv, Built, HasSize
<1>2. CostFits(spec)
  BY <1>1 DEF Asks
<1>3. z \in [1..n -> Field]
  BY CornersFit
<1>4. /\ Q \in Seq(Field) /\ R \in Seq(Field) /\ xref \in Seq(Field) /\ uref \in Seq(Field)
      /\ nx \in Nat /\ Len(R) \in Nat /\ n = nx + Len(R)
      /\ Len(xref) = nx /\ Len(uref) = Len(R)
  BY <1>2 DEF CostFits
<1>5. ASSUME NEW i \in 1..n
      PROVE  PullOf(w[i], y[i], z[i])
               = IF i <= nx THEN Pulled(asked.tasks, "sw", "xr", i, z[i])
                 ELSE Pulled(asked.tasks, "iw", "ur", i - nx, z[i])
  <2>1. z[i] \in Field
    BY <1>3
  <2>2. CASE i <= nx
    <3>1. w[i] = Q[i] /\ y[i] = xref[i] /\ i \in 1..nx
      <4> HIDE DEF Q, R, xref, uref
      <4> QED BY <1>4, <2>2
    <3> QED BY <1>1, <2>1, <2>2, <3>1 DEF Asks, PullsAs
  <2>3. CASE ~(i <= nx)
    <3>1. w[i] = R[i - nx] /\ y[i] = uref[i - nx] /\ i - nx \in 1..Len(R)
      <4> HIDE DEF Q, R, xref, uref
      <4>1. i \in 1..(Len(Q) + Len(R)) /\ ~(i <= Len(Q)) /\ i - nx \in 1..Len(R)
        BY <1>4, <2>3
      <4>2. w[i] = R[i - nx]
        BY <1>4, <4>1
      <4>3. y[i] = uref[i - nx]
        <5>1. Len(xref) + Len(uref) = Len(Q) + Len(R) /\ Len(xref) = Len(Q)
          BY <1>4
        <5>2. i \in 1..(Len(xref) + Len(uref)) /\ ~(i <= Len(xref))
          BY <4>1, <5>1
        <5>3. y[i] = uref[i - Len(xref)]
          BY <1>4, <5>2
        <5> QED BY <5>1, <5>3
      <4> QED BY <4>1, <4>2, <4>3
    <3> QED BY <1>1, <2>1, <2>3, <3>1 DEF Asks, PullsAs
  <2> QED BY <2>2, <2>3
<1> HIDE DEF n, w, y, nx
<1>6. Gradient(z) = Upright([i \in 1..n |-> PullOf(w[i], y[i], z[i])], n)
  BY <1>1, <1>2, <1>3, GradientIs DEF w, y
<1>7. Wanted(z) = Upright([i \in 1..n |->
                    IF i <= nx THEN Pulled(asked.tasks, "sw", "xr", i, z[i])
                    ELSE Pulled(asked.tasks, "iw", "ur", i - nx, z[i])], n)
  BY <1>1, <1>2, <1>3, WantedIs DEF nx
<1> QED BY <1>5, <1>6, <1>7 DEF Upright

\* One task of priority 1 pulls by its own weights.
LEMMA OnePulls ==
  ASSUME NEW w \in Seq(Field), NEW y \in Seq(Field), Len(y) = Len(w),
         NEW tasks, Len(tasks) = 1, tasks[1].priority = 1,
         NEW weight, NEW reference, tasks[1][weight] = w, tasks[1][reference] = y
  PROVE  PullsAs(w, y, tasks, weight, reference)
<1> SUFFICES ASSUME NEW i \in 1..Len(w), NEW z \in Field
             PROVE  PullOf(w[i], y[i], z) = Pulled(tasks, weight, reference, i, z)
  BY DEF PullsAs
<1> DEFINE g == [k \in 1..1 |-> tasks[k].priority * tasks[k][weight][i] * (z - tasks[k][reference][i])]
           d == z - y[i]
<1>1. w[i] \in Field /\ y[i] \in Field
  OBVIOUS
<1>2. w[i] \in Int /\ y[i] \in Int /\ z \in Int
  BY <1>1, FieldOf
<1>3. d \in Int /\ w[i] * d \in Int
  <2>1. d \in Int
    BY <1>2
  <2> HIDE DEF d
  <2> QED BY <1>2, <2>1
<1>4. Pulled(tasks, weight, reference, i, z) = Total(1, g)
  BY DEF Pulled, SumOver
<1>5. \A k \in 1..1 : g[k] = 1 * w[i] * d
  OBVIOUS
<1>6. 1 * w[i] * d = w[i] * d
  BY <1>2
<1>7. PullOf(w[i], y[i], z) = (w[i] * d) % P
  BY <1>2, PullLaw
<1> HIDE DEF d
<1>8. g \in [1..1 -> Int]
  <2>1. \A k \in 1..1 : g[k] \in Int
    BY <1>3, <1>5, <1>6
  <2>2. g = [k \in 1..1 |-> g[k]]
    OBVIOUS
  <2> HIDE DEF g
  <2> QED BY <2>1, <2>2
<1> HIDE DEF g
<1>9. 1 \in 1..1 /\ \A k \in 1..1 : k # 1 => g[k] % P = 0
  OBVIOUS
<1>10. Total(1, g) = g[1] % P
  BY <1>8, <1>9, TotalOfOne
<1> QED BY <1>4, <1>5, <1>6, <1>7, <1>9, <1>10

\* And weighs by them.
LEMMA OneWeighs ==
  ASSUME NEW w \in Seq(Field), NEW tasks, Len(tasks) = 1, tasks[1].priority = 1, tasks[1].sw = w,
         NEW i \in 1..Len(w)
  PROVE  w[i] = WeightOf(tasks, i)
<1> DEFINE g == [k \in 1..1 |-> tasks[k].priority * tasks[k].sw[i]]
<1>1. w[i] \in Field
  OBVIOUS
<1>2. w[i] \in Int /\ w[i] % P = w[i] /\ 1 * w[i] = w[i]
  BY <1>1, FieldOf
<1>3. WeightOf(tasks, i) = Total(1, g)
  BY DEF WeightOf, SumOver
<1>4. g = [k \in 1..1 |-> w[i]]
  BY <1>2
<1> HIDE DEF g
<1>5. g \in [1..1 -> Int] /\ g[1] = w[i]
  BY <1>2, <1>4
<1>6. 1 \in 1..1 /\ \A k \in 1..1 : k # 1 => g[k] % P = 0
  OBVIOUS
<1>7. Total(1, g) = g[1] % P
  BY <1>5, <1>6, TotalOfOne
<1> QED BY <1>2, <1>3, <1>5, <1>7

LEMMA SingleAsks ==
  ASSUME NEW Q \in Seq(Field), NEW R \in Seq(Field), NEW xref \in Seq(Field), NEW uref \in Seq(Field),
         Len(Q) # 0, Len(xref) = Len(Q), Len(uref) = Len(R),
         NEW s, s.Q = Q, s.R = R, s.xref = xref, s.uref = uref,
         NEW want, want.tasks = <<Task(1, Q, R, xref, uref)>>, want.Qe \in Vectors \union {None},
         s.Qe = Default(want.Qe, Scaled(Factor, Q)), Len(s.Qe) = Len(Q)
  PROVE  Asks(s, want)
<1> DEFINE tasks == want.tasks
<1>1. /\ Len(tasks) = 1 /\ tasks[1].priority = 1
      /\ tasks[1]["sw"] = Q /\ tasks[1]["xr"] = xref
      /\ tasks[1]["iw"] = R /\ tasks[1]["ur"] = uref
  BY DEF Task
<1> HIDE DEF tasks
<1>2. PullsAs(Q, xref, tasks, "sw", "xr")
  BY <1>1, OnePulls
<1>3. PullsAs(R, uref, tasks, "iw", "ur")
  BY <1>1, OnePulls
<1>4. CostFits(s)
  BY DEF CostFits
<1>5. \A i \in 1..Len(Q) : Q[i] = WeightOf(tasks, i)
  BY <1>1, OneWeighs
<1>6. Ends(s, want)
  BY <1>5 DEF Ends, tasks
<1> QED BY <1>2, <1>3, <1>4, <1>6 DEF Asks, tasks

\* Several tasks: the merged weights and weighted means.
LEMMA CombinedPulls ==
  ASSUME NEW n \in Nat, NEW tasks, Len(tasks) \in Nat, DOMAIN tasks = 1..Len(tasks),
         NEW weight, NEW reference,
         \A k \in 1..Len(tasks) : /\ tasks[k].priority \in Field
                                  /\ tasks[k][weight] \in [1..n -> Field]
                                  /\ tasks[k][reference] \in [1..n -> Field],
         \A i \in 1..n : Total(Len(tasks), Weights(tasks, weight, i)) = 0
                           => \A k \in 1..Len(tasks) : Weights(tasks, weight, i)[k] % P = 0
  PROVE  LET c == _combine_tasks(tasks, weight, reference, n) IN
         /\ c.weights \in Seq(Field) /\ Len(c.weights) = n
         /\ c.means \in Seq(Field) /\ Len(c.means) = n
         /\ PullsAs(c.weights, c.means, tasks, weight, reference)
         /\ \A i \in 1..n : c.weights[i] =
              Total(Len(tasks), [k \in 1..Len(tasks) |-> tasks[k].priority * tasks[k][weight][i]])
<1> DEFINE c == _combine_tasks(tasks, weight, reference, n)
           m == Len(tasks)
           A(i) == Weights(tasks, weight, i)
           R(i) == [k \in 1..m |-> tasks[k][reference][i]]
           B(i) == [k \in 1..m |-> A(i)[k] * R(i)[k]]
           W(i) == Total(m, A(i))
           M(i) == Total(m, B(i))
           Mean(i) == IF W(i) = 0 THEN 0 ELSE Over(M(i), W(i))
<1>0. /\ m \in Nat /\ DOMAIN tasks = 1..m
      /\ \A k \in 1..m : /\ tasks[k].priority \in Field
                         /\ tasks[k][weight] \in [1..n -> Field]
                         /\ tasks[k][reference] \in [1..n -> Field]
  OBVIOUS
<1>1. ASSUME NEW i \in 1..n
      PROVE  /\ A(i) \in [1..m -> Int] /\ R(i) \in [1..m -> Int] /\ B(i) \in [1..m -> Int]
             /\ \A k \in 1..m : /\ A(i)[k] = tasks[k].priority * tasks[k][weight][i]
                                /\ R(i)[k] = tasks[k][reference][i]
  <2>1. A(i) = [k \in 1..m |-> tasks[k].priority * tasks[k][weight][i]]
    BY DEF Weights
  <2>2. ASSUME NEW k \in 1..m
        PROVE  tasks[k].priority * tasks[k][weight][i] \in Int /\ tasks[k][reference][i] \in Int
    <3>1. tasks[k].priority \in Field /\ tasks[k][weight][i] \in Field /\ tasks[k][reference][i] \in Field
      OBVIOUS
    <3>2. tasks[k].priority \in Int /\ tasks[k][weight][i] \in Int /\ tasks[k][reference][i] \in Int
      BY <3>1, FieldOf
    <3> QED BY <3>2
  <2>3. A(i) \in [1..m -> Int] /\ R(i) \in [1..m -> Int]
    BY <2>1, <2>2
  <2>4. /\ \A k \in 1..m : A(i)[k] = tasks[k].priority * tasks[k][weight][i]
        /\ \A k \in 1..m : R(i)[k] = tasks[k][reference][i]
    BY <2>1
  <2> HIDE DEF A, R
  <2>5. \A k \in 1..m : A(i)[k] * R(i)[k] \in Int
    <3> TAKE k \in 1..m
    <3>1. A(i)[k] \in Int /\ R(i)[k] \in Int
      BY <2>3
    <3> QED BY <3>1
  <2> QED BY <2>3, <2>4, <2>5
<1>2. /\ c.weights = [i \in 1..n |-> Total(m, [k \in 1..m |-> tasks[k].priority * tasks[k][weight][i]])]
      /\ c.means = [i \in 1..n |->
           IF c.weights[i] = 0 THEN 0
           ELSE Over(Total(m, [k \in 1..m |-> tasks[k].priority * tasks[k][weight][i]
                                                * tasks[k][reference][i]]), c.weights[i])]
  BY DEF _combine_tasks, SumOver
<1>3. ASSUME NEW i \in 1..n
      PROVE  /\ Total(m, [k \in 1..m |-> tasks[k].priority * tasks[k][weight][i]]) = W(i)
             /\ Total(m, [k \in 1..m |-> tasks[k].priority * tasks[k][weight][i]
                                           * tasks[k][reference][i]]) = M(i)
  <2>1. A(i) = [k \in 1..m |-> tasks[k].priority * tasks[k][weight][i]]
    BY DEF Weights
  <2>2. B(i) = [k \in 1..m |-> tasks[k].priority * tasks[k][weight][i] * tasks[k][reference][i]]
    <3> HIDE DEF A, R
    <3> QED BY <1>1
  <2> HIDE DEF A, B
  <2> QED BY <2>1, <2>2
<1> HIDE DEF A, R
<1>4. ASSUME NEW i \in 1..n PROVE W(i) \in Field /\ M(i) \in Field
  <2>1. PICK s : Sums(s, m, A(i)) /\ Total(m, A(i)) = s[m]
    BY <1>1, TotalIs
  <2> HIDE DEF B
  <2>2. PICK t : Sums(t, m, B(i)) /\ Total(m, B(i)) = t[m]
    BY <1>1, TotalIs
  <2> QED BY <2>1, <2>2 DEF Sums
<1> HIDE DEF B, c, m
<1>5. \A i \in 1..n : Mean(i) \in Field
  <2> TAKE i \in 1..n
  <2> HIDE DEF W, M
  <2> QED BY <1>4, OverIn, FieldOf
<1>6. c.weights = [i \in 1..n |-> W(i)]
  <2> HIDE DEF W, M
  <2> QED BY <1>2, <1>3
<1>7. c.means = [i \in 1..n |-> Mean(i)]
  <2> HIDE DEF W, M
  <2>1. \A i \in 1..n : c.weights[i] = W(i)
    BY <1>6
  <2> QED BY <1>2, <1>3, <2>1
<1>8. ASSUME NEW i \in 1..n, NEW z \in Field
      PROVE  PullOf(W(i), Mean(i), z) = Pulled(tasks, weight, reference, i, z)
  <2> DEFINE a == A(i)
             r == R(i)
             b == [k \in 1..m |-> a[k] * r[k]]
             e == [k \in 1..m |-> a[k] * (z - r[k])]
  <2>1. a \in [1..m -> Int] /\ r \in [1..m -> Int] /\ z \in Int
    BY <1>1, FieldOf
  <2>2. m \in Nat /\ W(i) = Total(m, a) /\ M(i) = Total(m, b)
    BY <1>0 DEF B
  <2>3. W(i) = 0 => \A k \in 1..m : a[k] % P = 0
    BY DEF A, m
  <2>4. Pulled(tasks, weight, reference, i, z) = Total(m, e)
    <3>1. e = [k \in 1..m |-> tasks[k].priority * tasks[k][weight][i]
                                * (z - tasks[k][reference][i])]
      BY <1>1
    <3> HIDE DEF e
    <3> QED BY <3>1 DEF Pulled, SumOver, m
  <2> HIDE DEF a, r, W, M
  <2>5. PullOf(W(i), IF W(i) = 0 THEN 0 ELSE Over(M(i), W(i)), z) = Total(m, e)
    <3>1. Total(m, a) = 0 => \A k \in 1..m : a[k] % P = 0
      BY <2>2, <2>3
    <3>2. PullOf(Total(m, a), IF Total(m, a) = 0 THEN 0 ELSE Over(Total(m, b), Total(m, a)), z)
            = Total(m, e)
      BY ONLY <2>1, <2>2, <3>1, MeanPulls, ZenonT(30)
    <3> HIDE DEF b, e
    <3> QED BY <2>2, <3>2
  <2> QED BY <2>4, <2>5
<1>9. c.weights \in [1..n -> Field] /\ c.means \in [1..n -> Field]
  <2> HIDE DEF W, M, Mean
  <2> QED BY <1>4, <1>5, <1>6, <1>7
<1>10. /\ c.weights \in Seq(Field) /\ Len(c.weights) = n
       /\ c.means \in Seq(Field) /\ Len(c.means) = n
  <2> DEFINE w == c.weights
             y == c.means
  <2> HIDE DEF w, y
  <2>1. w \in [1..n -> Field] /\ y \in [1..n -> Field]
    BY <1>9 DEF w, y
  <2>2. w \in Seq(Field) /\ Len(w) = n /\ y \in Seq(Field) /\ Len(y) = n
    BY <2>1
  <2> QED BY <2>2 DEF w, y
<1>11. \A i \in 1..n : c.weights[i] = W(i) /\ c.means[i] = Mean(i)
  <2> HIDE DEF W, Mean
  <2> QED BY <1>6, <1>7
<1>12. PullsAs(c.weights, c.means, tasks, weight, reference)
  <2> HIDE DEF W, Mean
  <2> QED BY <1>8, <1>10, <1>11 DEF PullsAs
<1>13. \A i \in 1..n : c.weights[i] =
         Total(m, [k \in 1..m |-> tasks[k].priority * tasks[k][weight][i]])
  BY <1>2
<1> QED BY <1>10, <1>12, <1>13 DEF c, m

\* What each template returns.
LEMMA SpecCost ==
  ASSUME NEW Q, NEW R, NEW Qe, NEW xref, NEW uref, NEW x0, NEW ul, NEW uu, NEW xl, NEW xu,
         NEW s \in OcpTemplateSpec(Q, R, Qe, xref, uref, x0, ul, uu, xl, xu)
  PROVE  /\ s.Q = Q /\ s.R = R /\ s.xref = xref /\ s.uref = uref /\ s.Qe = Qe
         /\ Len(xref) = Len(Q) /\ Len(uref) = Len(R) /\ Len(Qe) = Len(Q)
BY DEF OcpTemplateSpec, _consistent_lengths

LEMMA LqrCost ==
  ASSUME NEW d, NEW Q, NEW R, NEW xref, NEW uref, NEW x0, NEW opt,
         NEW s \in lqr(d, Q, R, xref, uref, x0, opt)
  PROVE  /\ s.Q = Q /\ s.R = R /\ s.Qe = Default(opt.Qe, Scaled(Factor, Q))
         /\ s.xref = Default(xref, Zeros(Len(Q))) /\ s.uref = Default(uref, Zeros(Len(R)))
         /\ Len(s.xref) = Len(Q) /\ Len(s.uref) = Len(R) /\ Len(s.Qe) = Len(Q)
<1> DEFINE nx == d.ins[1][1]
           nu == d.ins[2][1]
<1>1. /\ Len(Q) = nx /\ Len(R) = nu
      /\ s \in OcpTemplateSpec(Q, R, Default(opt.Qe, Scaled(Factor, Q)),
                 Default(xref, Zeros(nx)), Default(uref, Zeros(nu)), x0,
                 Lower(opt.ubox), Upper(opt.ubox), Lower(opt.xbox), Upper(opt.xbox))
  BY DEF lqr
<1> HIDE DEF nx, nu
<1>2. /\ s.Q = Q /\ s.R = R /\ s.Qe = Default(opt.Qe, Scaled(Factor, Q))
      /\ s.xref = Default(xref, Zeros(nx)) /\ s.uref = Default(uref, Zeros(nu))
      /\ Len(s.xref) = Len(Q) /\ Len(s.uref) = Len(R) /\ Len(s.Qe) = Len(Q)
  BY <1>1, SpecCost
<1> QED BY <1>1, <1>2

LEMMA ZerosFit ==
  ASSUME NEW v \in Seq(Field)
  PROVE  Zeros(Len(v)) \in Seq(Field) /\ Len(Zeros(Len(v))) = Len(v)
<1>1. Zeros(Len(v)) \in [1..Len(v) -> Field] /\ Len(v) \in Nat
  BY FieldOf DEF Zeros
<1> QED BY <1>1

\* A vector that is given is a sequence of numbers, and not one left out.
LEMMA VectorIs ==
  ASSUME NEW v \in Vectors
  PROVE  v \in Seq(Field) /\ Len(v) # 0 /\ v # None /\ \A d : Default(v, d) = v
<1>1. v \in Seq(Field) /\ v # <<>>
  BY WeightsAssumption
<1>2. Len(v) # 0
  BY <1>1
<1> QED BY <1>1, <1>2 DEF None, Default

LEMMA LqrAsks ==
  ASSUME NEW d, NEW Q \in Vectors, NEW R \in Vectors, NEW xref, NEW uref, NEW x0,
         NEW opt, opt.Qe \in Vectors \union {None}, NEW s \in lqr(d, Q, R, xref, uref, x0, opt),
         NEW y, y = Default(xref, Zeros(Len(Q))), y \in Seq(Field),
         NEW v, v = Default(uref, Zeros(Len(R))), v \in Seq(Field),
         NEW want, want.tasks = <<Task(1, Q, R, y, v)>>, want.Qe = opt.Qe
  PROVE  Asks(s, want)
<1>1. Q \in Seq(Field) /\ R \in Seq(Field) /\ Len(Q) # 0
  BY VectorIs
<1>2. /\ s.Q = Q /\ s.R = R /\ s.Qe = Default(want.Qe, Scaled(Factor, Q))
      /\ s.xref = Default(xref, Zeros(Len(Q))) /\ s.uref = Default(uref, Zeros(Len(R)))
      /\ Len(s.xref) = Len(Q) /\ Len(s.uref) = Len(R) /\ Len(s.Qe) = Len(Q)
  BY LqrCost
<1>3. s.xref = y /\ s.uref = v /\ Len(y) = Len(Q) /\ Len(v) = Len(R)
  BY <1>2
<1> QED BY <1>1, <1>2, <1>3, SingleAsks

LEMMA OptionIs ==
  ASSUME NEW opt \in Options
  PROVE  opt.Qe \in Vectors \union {None}
BY BoxAssumption

LEMMA WbcAsks ==
  ASSUME NEW d, NEW tasks \in Tasks, NEW x0 \in Vectors, NEW opt \in Options,
         NEW s \in wbc(d, tasks, x0, opt), NEW want, want.tasks = tasks, want.Qe = opt.Qe
  PROVE  Asks(s, want)
<1> DEFINE nx == d.ins[1][1]
           nu == d.ins[2][1]
           m == Len(tasks)
           x == _combine_tasks(tasks, "sw", "xr", nx)
           u == _combine_tasks(tasks, "iw", "ur", nu)
<1>1. /\ tasks # <<>> /\ Len(x0) = nx
      /\ \A k \in DOMAIN tasks : Len(tasks[k].sw) = nx /\ Len(tasks[k].iw) = nu
      /\ s \in OcpTemplateSpec(x.weights, u.weights, Default(opt.Qe, Scaled(Factor, x.weights)),
                               x.means, u.means, x0, Lower(opt.ubox), Upper(opt.ubox),
                               Lower(opt.xbox), Upper(opt.xbox))
  BY DEF wbc
<1>2. tasks \in Seq(WBCTask) /\ m \in Nat /\ DOMAIN tasks = 1..m /\ m # 0
  <2>1. tasks \in Seq(WBCTask)
    BY WeightsAssumption
  <2> QED BY <1>1, <2>1
<1>3. ASSUME NEW k \in 1..m
      PROVE  /\ tasks[k].priority \in Field
             /\ tasks[k]["sw"] \in [1..nx -> Field] /\ tasks[k]["xr"] \in [1..nx -> Field]
             /\ tasks[k]["iw"] \in [1..nu -> Field] /\ tasks[k]["ur"] \in [1..nu -> Field]
  <2>1. tasks[k] \in WBCTask
    BY <1>2
  <2>2. /\ tasks[k].priority \in Field
        /\ tasks[k]["sw"] \in Seq(Field) /\ tasks[k]["xr"] \in Seq(Field)
        /\ tasks[k]["iw"] \in Seq(Field) /\ tasks[k]["ur"] \in Seq(Field)
        /\ Len(tasks[k]["sw"]) = Len(tasks[k]["xr"]) /\ Len(tasks[k]["iw"]) = Len(tasks[k]["ur"])
    BY <2>1 DEF WBCTask
  <2>3. Len(tasks[k]["sw"]) = nx /\ Len(tasks[k]["iw"]) = nu
    BY <1>1, <1>2
  <2> HIDE DEF nx, nu
  <2>4. \A v \in Seq(Field) : v \in [1..Len(v) -> Field]
    OBVIOUS
  <2> QED BY <2>2, <2>3, <2>4
<1>4. nx \in Nat /\ nu \in Nat /\ nx # 0
  <2>1. 1 \in 1..m /\ 1 \in DOMAIN tasks
    BY <1>2
  <2>2. tasks[1] \in WBCTask
    BY <1>2, <2>1
  <2>3. tasks[1].sw \in Seq(Field) /\ tasks[1].iw \in Seq(Field)
    BY <2>2 DEF WBCTask
  <2>4. nx = Len(tasks[1].sw) /\ nu = Len(tasks[1].iw)
    BY <1>1, <2>1
  <2>5. Len(x0) # 0
    BY VectorIs
  <2>6. Len(tasks[1].sw) \in Nat /\ Len(tasks[1].iw) \in Nat
    BY <2>3
  <2> HIDE DEF nx, nu
  <2> QED BY <1>1, <2>4, <2>5, <2>6
<1> HIDE DEF nx, nu
<1>5. ASSUME NEW weight \in {"sw", "iw"}, NEW n, \A k \in 1..m : Len(tasks[k][weight]) = n
      PROVE  \A i \in 1..n : Total(m, Weights(tasks, weight, i)) = 0
               => \A k \in 1..m : Weights(tasks, weight, i)[k] % P = 0
  <2> SUFFICES ASSUME NEW i \in 1..n, Total(m, Weights(tasks, weight, i)) = 0
               PROVE  \A k \in 1..m : Weights(tasks, weight, i)[k] % P = 0
    OBVIOUS
  <2>1. tasks \in Tasks \ {<<>>} /\ 1 \in 1..m
    BY <1>1, <1>2
  <2>2. tasks[1] \in WBCTask
    BY <1>2, <2>1
  <2>3. tasks[1][weight] \in Seq(Field) /\ Len(tasks[1][weight]) = n
    BY <1>5, <2>1, <2>2 DEF WBCTask
  <2>4. i \in DOMAIN tasks[1][weight]
    <3> DEFINE v == tasks[1][weight]
    <3>1. v \in Seq(Field) /\ Len(v) = n
      BY <2>3
    <3> HIDE DEF v
    <3>2. i \in DOMAIN v
      BY <3>1
    <3> QED BY <3>2 DEF v
  <2>5. \A k \in DOMAIN tasks : Len(tasks[k][weight]) = Len(tasks[1][weight])
    BY <1>2, <1>5, <2>3
  <2>6. (/\ \A k \in DOMAIN tasks : Len(tasks[k][weight]) = Len(tasks[1][weight])
         /\ Total(Len(tasks), Weights(tasks, weight, i)) = 0)
        => \A k \in DOMAIN tasks : Weights(tasks, weight, i)[k] % P = 0
    BY ONLY <2>1, <2>4, weight \in {"sw", "iw"}, WeightsAssumption, Zenon
  <2> QED BY <1>2, <2>5, <2>6
<1>6. /\ \A k \in 1..m : Len(tasks[k]["sw"]) = nx
      /\ \A k \in 1..m : Len(tasks[k]["iw"]) = nu
  BY <1>1, <1>2
<1>7. /\ x.weights \in Seq(Field) /\ Len(x.weights) = nx
      /\ x.means \in Seq(Field) /\ Len(x.means) = nx
      /\ PullsAs(x.weights, x.means, tasks, "sw", "xr")
      /\ \A i \in 1..nx : x.weights[i] =
           Total(Len(tasks), [k \in 1..Len(tasks) |-> tasks[k].priority * tasks[k]["sw"][i]])
  <2>1. \A i \in 1..nx : Total(m, Weights(tasks, "sw", i)) = 0
               => \A k \in 1..m : Weights(tasks, "sw", i)[k] % P = 0
    BY <1>5, <1>6
  <2>2. \A k \in 1..m : /\ tasks[k].priority \in Field
                        /\ tasks[k]["sw"] \in [1..nx -> Field]
                        /\ tasks[k]["xr"] \in [1..nx -> Field]
    BY <1>3
  <2>3. DOMAIN tasks = 1..Len(tasks) /\ Len(tasks) \in Nat /\ nx \in Nat
    BY <1>2, <1>4
  <2> QED BY ONLY <2>1, <2>2, <2>3, CombinedPulls, SMTT(30)
<1>8. /\ u.weights \in Seq(Field) /\ Len(u.weights) = nu
      /\ u.means \in Seq(Field) /\ Len(u.means) = nu
      /\ PullsAs(u.weights, u.means, tasks, "iw", "ur")
  <2>1. \A i \in 1..nu : Total(m, Weights(tasks, "iw", i)) = 0
               => \A k \in 1..m : Weights(tasks, "iw", i)[k] % P = 0
    BY <1>5, <1>6
  <2>2. \A k \in 1..m : /\ tasks[k].priority \in Field
                        /\ tasks[k]["iw"] \in [1..nu -> Field]
                        /\ tasks[k]["ur"] \in [1..nu -> Field]
    BY <1>3
  <2>3. DOMAIN tasks = 1..Len(tasks) /\ Len(tasks) \in Nat /\ nu \in Nat
    BY <1>2, <1>4
  <2> QED BY ONLY <2>1, <2>2, <2>3, CombinedPulls, SMTT(30)
<1> HIDE DEF x, u
<1>9. /\ s.Q = x.weights /\ s.R = u.weights /\ s.xref = x.means /\ s.uref = u.means
      /\ s.Qe = Default(opt.Qe, Scaled(Factor, x.weights)) /\ Len(s.Qe) = Len(x.weights)
  BY <1>1, SpecCost
<1>10. CostFits(s)
  BY <1>4, <1>7, <1>8, <1>9 DEF CostFits
<1>11. \A i \in 1..nx : x.weights[i] = WeightOf(tasks, i)
  BY <1>7 DEF WeightOf, SumOver
<1>12. Ends(s, want)
  BY <1>7, <1>9, <1>11, OptionIs DEF Ends
<1> QED BY <1>7, <1>8, <1>9, <1>10, <1>12 DEF Asks

\* Taking a specification that asks for what is wanted.
LEMMA TakeAsks ==
  ASSUME CostInv, NEW specs, NEW want, Take(specs, want),
         \A s \in specs : Asks(s, want)
  PROVE  CostInv'
<1>1. phase' \in {"refused", "spec"}
  BY DEF Take
<1>2. phase' = "spec" => spec' \in specs /\ asked' = want
  BY DEF Take
<1>3. phase' = "spec" => Asks(spec', asked')
  BY <1>2
<1> QED BY <1>1, <1>3 DEF CostInv, Built

LEMMA TemplatesAsk ==
  ASSUME CostInv,
         CallLqr \/ CallTracking \/ CallCentroidal \/ CallMultiContact \/ CallWbc \/ WriteSpec
  PROVE  CostInv'
<1>1. CASE CallLqr
  <2>1. PICK Q, R, xref \in Vectors, opt \in Options :
          Take(lqr(dyn, Q, R, xref, None, Q, opt),
               Want(<<Task(1, Q, R, xref, Zeros(Len(R)))>>, opt, {}))
    BY <1>1 DEF CallLqr
  <2> DEFINE want == Want(<<Task(1, Q, R, xref, Zeros(Len(R)))>>, opt, {})
  <2>2. want.tasks = <<Task(1, Q, R, xref, Zeros(Len(R)))>> /\ want.Qe = opt.Qe
    BY DEF Want
  <2>3. /\ xref = Default(xref, Zeros(Len(Q))) /\ xref \in Seq(Field)
        /\ Zeros(Len(R)) = Default(None, Zeros(Len(R))) /\ Zeros(Len(R)) \in Seq(Field)
    BY VectorIs, ZerosFit DEF Default
  <2> HIDE DEF want
  <2>4. \A s \in lqr(dyn, Q, R, xref, None, Q, opt) : Asks(s, want)
    BY <2>2, <2>3, OptionIs, LqrAsks
  <2> QED BY <2>1, <2>4, TakeAsks DEF want
<1>2. CASE CallTracking
  <2>1. PICK Q, R, uref \in Vectors, refs \in Trajectories \union {None, <<None>>}, opt \in Options :
          Take(tracking_mpc(dyn, Q, R, uref, Q, refs, opt),
               Want(<<Task(1, Q, R, IF refs = None THEN Zeros(Len(Q)) ELSE refs[1], uref)>>, opt, {}))
    BY <1>2 DEF CallTracking
  <2> DEFINE first == IF refs = None THEN None ELSE refs[1]
             y == IF refs = None THEN Zeros(Len(Q)) ELSE refs[1]
             want == Want(<<Task(1, Q, R, y, uref)>>, opt, {})
  <2>2. want.tasks = <<Task(1, Q, R, y, uref)>> /\ want.Qe = opt.Qe
    BY DEF Want
  <2>3. uref = Default(uref, Zeros(Len(R))) /\ uref \in Seq(Field)
    BY VectorIs
  <2>4. CASE refs = <<None>>
    <3>1. tracking_mpc(dyn, Q, R, uref, Q, refs, opt) = {}
      BY <2>4 DEF tracking_mpc
    <3> QED BY <2>1, <3>1, TakeAsks
  <2>5. CASE refs # <<None>>
    <3>1. y = Default(first, Zeros(Len(Q))) /\ y \in Seq(Field)
      <4>1. CASE refs = None
        BY <4>1, VectorIs, ZerosFit DEF Default
      <4>2. CASE refs # None
        <5>1. refs \in Seq(Seq(Field) \ {<<>>}) /\ refs # <<>>
          BY <2>5, <4>2, WeightsAssumption DEF None
        <5>2. refs[1] \in Seq(Field) \ {<<>>}
          BY <5>1
        <5> QED BY <4>2, <5>2 DEF Default, None
      <4> QED BY <4>1, <4>2
    <3>2. tracking_mpc(dyn, Q, R, uref, Q, refs, opt) = lqr(dyn, Q, R, first, uref, Q, opt)
      BY <2>5 DEF tracking_mpc
    <3> HIDE DEF want, first, y
    <3>3. \A s \in lqr(dyn, Q, R, first, uref, Q, opt) : Asks(s, want)
      BY <2>2, <2>3, <3>1, OptionIs, LqrAsks
    <3> QED BY <2>1, <3>2, <3>3, TakeAsks DEF want, y
  <2> QED BY <2>4, <2>5
<1>3. CASE CallCentroidal
  <2>1. PICK Q, R, wrench \in Vectors, opt \in Options :
          Take(centroidal_mpc(dyn, Q, R, None, wrench, Q, opt),
               Want(<<Task(1, Q, R, Zeros(Len(Q)), wrench)>>, opt, {}))
    BY <1>3 DEF CallCentroidal
  <2> DEFINE want == Want(<<Task(1, Q, R, Zeros(Len(Q)), wrench)>>, opt, {})
  <2>2. want.tasks = <<Task(1, Q, R, Zeros(Len(Q)), wrench)>> /\ want.Qe = opt.Qe
    BY DEF Want
  <2>3. /\ wrench = Default(wrench, Zeros(Len(R))) /\ wrench \in Seq(Field)
        /\ Zeros(Len(Q)) = Default(None, Zeros(Len(Q))) /\ Zeros(Len(Q)) \in Seq(Field)
    BY VectorIs, ZerosFit DEF Default
  <2> HIDE DEF want
  <2>4. \A s \in lqr(dyn, Q, R, None, wrench, Q, opt) : Asks(s, want)
    BY <2>2, <2>3, OptionIs, LqrAsks
  <2> QED BY <2>1, <2>4, TakeAsks DEF want, centroidal_mpc
<1>4. CASE CallMultiContact
  <2>1. PICK Q, R, target \in Vectors, stance \in Stances, Qe \in Vectors \union {None} :
          Take(multi_contact_centroidal_mpc(dyn, Q, R, target, None, Q, stance, Qe),
               Want(<<Task(1, Q, R, target, Zeros(Len(R)))>>,
                    [Qe |-> Qe, ubox |-> None, xbox |-> None], {f \in DOMAIN stance : ~stance[f]}))
    BY <1>4 DEF CallMultiContact
  <2> DEFINE want == Want(<<Task(1, Q, R, target, Zeros(Len(R)))>>,
                          [Qe |-> Qe, ubox |-> None, xbox |-> None], {f \in DOMAIN stance : ~stance[f]})
             opt == [Qe |-> Qe, ubox |-> friction_box_bounds(stance), xbox |-> None]
  <2>2. /\ want.tasks = <<Task(1, Q, R, target, Zeros(Len(R)))>>
        /\ want.Qe = opt.Qe /\ opt.Qe \in Vectors \union {None}
    BY DEF Want
  <2>3. /\ target = Default(target, Zeros(Len(Q))) /\ target \in Seq(Field)
        /\ Zeros(Len(R)) = Default(None, Zeros(Len(R))) /\ Zeros(Len(R)) \in Seq(Field)
    BY VectorIs, ZerosFit DEF Default
  <2>4. multi_contact_centroidal_mpc(dyn, Q, R, target, None, Q, stance, Qe)
          = lqr(dyn, Q, R, target, None, Q, opt)
    BY DEF multi_contact_centroidal_mpc, centroidal_mpc
  <2> HIDE DEF want, opt
  <2>5. \A s \in lqr(dyn, Q, R, target, None, Q, opt) : Asks(s, want)
    BY <2>2, <2>3, LqrAsks
  <2> QED BY <2>1, <2>4, <2>5, TakeAsks DEF want
<1>5. CASE CallWbc
  <2>1. PICK tasks \in Tasks, x0 \in Vectors, opt \in Options :
          Take(wbc(dyn, tasks, x0, opt), Want(tasks, opt, {}))
    BY <1>5 DEF CallWbc
  <2> DEFINE want == Want(tasks, opt, {})
  <2>2. want.tasks = tasks /\ want.Qe = opt.Qe
    BY DEF Want
  <2> HIDE DEF want
  <2>3. \A s \in wbc(dyn, tasks, x0, opt) : Asks(s, want)
    BY <2>2, WbcAsks
  <2> QED BY <2>1, <2>3, TakeAsks DEF want
<1>6. CASE WriteSpec
  <2>1. PICK Q, R, Qe, xref \in Vectors, box \in Boxes, l, u \in BOOLEAN :
          LET lower == IF l THEN box[1] ELSE None
              upper == IF u THEN box[2] ELSE None
              ubox == IF l \/ u THEN <<lower, upper>> ELSE None
          IN /\ l # u => OneSided
             /\ Take(OcpTemplateSpec(Q, R, Qe, xref, Zeros(Len(R)), Q, lower, upper, None, None),
                     Want(<<Task(1, Q, R, xref, Zeros(Len(R)))>>,
                          [Qe |-> Qe, ubox |-> ubox, xbox |-> None], {}))
    BY <1>6 DEF WriteSpec
  <2> DEFINE lower == IF l THEN box[1] ELSE None
             upper == IF u THEN box[2] ELSE None
             ubox == IF l \/ u THEN <<lower, upper>> ELSE None
             want == Want(<<Task(1, Q, R, xref, Zeros(Len(R)))>>,
                          [Qe |-> Qe, ubox |-> ubox, xbox |-> None], {})
             specs == OcpTemplateSpec(Q, R, Qe, xref, Zeros(Len(R)), Q, lower, upper, None, None)
  <2>2. want.tasks = <<Task(1, Q, R, xref, Zeros(Len(R)))>> /\ want.Qe = Qe
    BY DEF Want
  <2>3. Take(specs, want)
    BY <2>1
  <2>4. /\ Q \in Seq(Field) /\ R \in Seq(Field) /\ xref \in Seq(Field) /\ Len(Q) # 0
        /\ Zeros(Len(R)) \in Seq(Field) /\ \A d : Qe = Default(Qe, d)
    BY VectorIs, ZerosFit
  <2> HIDE DEF want, lower, upper, ubox
  <2>5. ASSUME NEW s \in specs PROVE Asks(s, want)
    <3>1. /\ s.Q = Q /\ s.R = R /\ s.xref = xref /\ s.uref = Zeros(Len(R)) /\ s.Qe = Qe
          /\ Len(xref) = Len(Q) /\ Len(Zeros(Len(R))) = Len(R) /\ Len(Qe) = Len(Q)
      BY <2>5, SpecCost
    <3> QED BY <2>2, <2>4, <3>1, SingleAsks
  <2> HIDE DEF specs
  <2> QED BY <2>3, <2>5, TakeAsks
<1> QED BY <1>1, <1>2, <1>3, <1>4, <1>5, <1>6

\* Every step keeps CostInv.
LEMMA CostNext == CostInv /\ [Next]_vars => CostInv'
<1> SUFFICES ASSUME CostInv, [Next]_vars PROVE CostInv'
  OBVIOUS
<1>1. CASE UNCHANGED <<phase, asked, spec, ocp>>
  BY <1>1 DEF CostInv, Built
<1>2. ASSUME NEW d, Deliver(d) PROVE CostInv'
  BY <1>2 DEF Deliver, CostInv, Built
<1>3. CASE CallLqr \/ CallTracking \/ CallCentroidal \/ CallMultiContact \/ CallWbc \/ WriteSpec
  BY <1>3, TemplatesAsk
<1>4. CASE build_ocp
  <2>1. phase = "spec" /\ UNCHANGED <<asked, spec>>
    BY <1>4 DEF build_ocp
  <2>2. \/ phase' = "refused"
        \/ phase' = "ocp" /\ ocp' = OcpOf(dyn, spec)
    BY <1>4 DEF build_ocp
  <2>3. Asks(spec', asked')
    BY <2>1 DEF CostInv
  <2>4. CASE phase' = "refused"
    BY <2>4 DEF CostInv, Built
  <2>5. CASE phase' = "ocp" /\ ocp' = OcpOf(dyn, spec)
    <3>1. CostOf(ocp', spec)
      BY <2>5 DEF OcpOf, CostOf
    <3>2. CostOf(ocp', spec')
      BY <2>1, <3>1
    <3> QED BY <2>3, <3>2 DEF CostInv, Built
  <2> QED BY <2>2, <2>4, <2>5
<1>5. CASE MakeSolver
  <2>1. phase = "ocp" /\ phase' = "solver" /\ UNCHANGED <<asked, spec, ocp>>
    BY <1>5 DEF MakeSolver
  <2> QED BY <2>1 DEF CostInv, Built
<1>6. CASE PushReferences
  BY <1>1, <1>6 DEF PushReferences, set_reference_trajectory
<1>7. CASE UNCHANGED ocpVars
  BY <1>1, <1>7 DEF ocpVars
<1>8. CASE UNCHANGED vars
  BY <1>7, <1>8 DEF vars
<1>9. CASE DeliverTranslated
  BY <1>2, <1>9 DEF DeliverTranslated
<1>10. CASE DeliverGenerated
  BY <1>2, <1>10 DEF DeliverGenerated
<1>11. CASE ForgetTranslation
  BY <1>7, <1>11 DEF ForgetTranslation
<1> QED BY <1>3, <1>4, <1>5, <1>6, <1>7, <1>8, <1>9, <1>10, <1>11 DEF Next, OcpNext

\* The cost of the problem that acados is given is the sum of the costs of the
\* tasks its caller has in mind, up to a constant: for every template, every
\* number of tasks, states and inputs, and all weights and references.
THEOREM CostReachesProblem == Spec => []CostIsTasks
<1>1. Init => CostInv
  BY DEF Init, OcpInit, CostInv, Built
<1>2. CostInv => CostIsTasks
  BY CostAgrees
<1> QED BY <1>1, <1>2, CostNext, PTL DEF Spec

\* The gradient of the terminal cost.
LEMMA TerminalGradientIs ==
  ASSUME NEW n, n = Len(spec.Q), CostFits(spec), Ends(spec, asked), CostOf(ocp, spec),
         NEW z \in [1..n -> Field]
  PROVE  /\ n \in Nat \ {0} /\ spec.Qe \in [1..n -> Field]
         /\ TerminalGradient(z) = Upright([i \in 1..n |-> PullOf(spec.Qe[i], spec.xref[i], z[i])], n)
<1> DEFINE Q == spec.Q
           y == spec.xref
           w == spec.Qe
<1>1. Q \in Seq(Field) /\ y \in Seq(Field) /\ Len(y) = n /\ Len(Q) = n /\ n # 0
  BY DEF CostFits
<1>2. /\ ocp.We = Diagonal(w) /\ ocp.Vxe = Eye(n, n, 0) /\ ocp.yrefe = y
  BY DEF CostOf
<1>3. /\ asked.Qe \in Vectors \union {None} /\ Len(w) = n
      /\ w = Default(asked.Qe, Scaled(Factor, Q))
  BY DEF Ends
<1> HIDE DEF Q, y, w
<1>4. n \in Nat \ {0} /\ y \in [1..n -> Field]
  BY <1>1
<1>5. w \in [1..n -> Field]
  <2>1. CASE asked.Qe = None
    <3>1. w = Scaled(Factor, Q)
      BY <1>3, <2>1 DEF Default
    <3>2. ASSUME NEW i \in 1..n PROVE (Factor * Q[i]) % P \in Field
      <4>1. Q[i] \in Field /\ Factor \in Field
        BY <1>1, OcpAssumption
      <4>2. Q[i] \in Int /\ Factor \in Int
        BY <4>1, FieldOf
      <4>3. Factor * Q[i] \in Int
        BY <4>2
      <4> QED BY <4>3, FieldOf
    <3>3. DOMAIN Q = 1..n
      BY <1>1
    <3> QED BY <3>1, <3>2, <3>3 DEF Scaled
  <2>2. CASE asked.Qe \in Vectors
    <3>1. w = asked.Qe /\ asked.Qe \in Seq(Field)
      BY <1>3, <2>2, VectorIs
    <3>2. w \in Seq(Field)
      BY <3>1
    <3> QED BY <1>3, <1>4, <3>2
  <2> QED BY <1>3, <2>1, <2>2
<1>6. \A i, j \in 1..n : Eye(n, n, 0)[i][j] = IF i = j THEN 1 ELSE 0
  BY <1>4 DEF Eye, Grid
<1>7. IsMatrix(Eye(n, n, 0), n, n)
  BY <1>4, FieldOf DEF Eye, Grid, IsMatrix
<1>8. GradientOf(Eye(n, n, 0), Diagonal(w), y, z) = Upright([i \in 1..n |-> PullOf(w[i], y[i], z[i])], n)
  <2>1. n \in Nat \ {0} /\ y \in [1..n -> Field] /\ w \in [1..n -> Field] /\ Len(w) = n
    BY <1>3, <1>4, <1>5
  <2> DEFINE V == Eye(n, n, 0)
  <2>2. IsMatrix(V, n, n) /\ \A i, j \in 1..n : V[i][j] = IF i = j THEN 1 ELSE 0
    BY <1>6, <1>7
  <2> HIDE DEF V
  <2>3. GradientOf(V, Diagonal(w), y, z) = Upright([i \in 1..n |-> PullOf(w[i], y[i], z[i])], n)
    <3>1. Weighed(n, w, y, z, V)
      BY <2>1, <2>2 DEF Weighed
    <3> QED BY ONLY <3>1, GradientOfIs
  <2> QED BY <2>3 DEF V
<1>9. TerminalGradient(z) = GradientOf(Eye(n, n, 0), Diagonal(w), y, z)
  BY <1>2 DEF TerminalGradient
<1> QED BY <1>4, <1>5, <1>8, <1>9 DEF Q, y, w

\* Pulls of weights that are multiples of one another.
Multiple(f, q) == (f * q) % P

LEMMA PullsScale ==
  \A f, q, y, z \in Int :
    /\ PullOf(Multiple(f, q), y, z) = Multiple(f, PullOf(q, y, z))
    /\ Multiple(PullOf(f, y, z), q) = Multiple(f, PullOf(q, y, z))
<1> TAKE f, q, y, z \in Int
<1> DEFINE d == (z - y) % P
<1>1. d \in Int
  BY FieldOf
<1>2. PullOf((f * q) % P, y, z) = (((f * q) % P) * d) % P /\ PullOf(q, y, z) = (q * d) % P
      /\ PullOf(f, y, z) = (f * d) % P
  BY DEF PullOf
<1> HIDE DEF d
<1>3. f * q \in Int /\ q * d \in Int /\ f * d \in Int
  BY <1>1
<1>4. (f * ((q * d) % P)) % P = (f * (q * d)) % P
  BY <1>3, ModLaws
<1>5. (d * ((f * q) % P)) % P = (d * (f * q)) % P
  BY <1>1, <1>3, ModLaws
<1>6. (q * ((f * d) % P)) % P = (q * (f * d)) % P
  BY <1>3, ModLaws
<1>7. f * (q * d) = d * (f * q) /\ f * (q * d) = q * (f * d)
  BY <1>1, SMT
<1>8. (f * q) % P \in Int /\ (f * d) % P \in Int
  BY <1>3, FieldOf
<1>9. ((f * q) % P) * d = d * ((f * q) % P) /\ ((f * d) % P) * q = q * ((f * d) % P)
  <2> DEFINE a == (f * q) % P
             b == (f * d) % P
  <2>1. a \in Int /\ b \in Int
    BY <1>8
  <2> HIDE DEF a, b
  <2>2. a * d = d * a /\ b * q = q * b
    BY <1>1, <2>1
  <2> QED BY <2>2 DEF a, b
<1>10. PullOf((f * q) % P, y, z) = (f * PullOf(q, y, z)) % P
  BY <1>2, <1>4, <1>5, <1>7, <1>9
<1>11. (PullOf(f, y, z) * q) % P = (f * PullOf(q, y, z)) % P
  BY <1>2, <1>4, <1>6, <1>7, <1>9
<1> QED BY <1>10, <1>11 DEF Multiple

\* The terminal cost pulls where the tasks do.
LEMMA EndAgrees ==
  ASSUME CostInv
  PROVE  TerminalCostIsTasks
<1> SUFFICES ASSUME Built, NEW z \in Corners(Len(spec.Q)), NEW i \in 1..Len(spec.Q)
             PROVE  LET g == TerminalGradient(z)[i][1] IN
                    IF asked.Qe = None THEN g = (Factor * StatePull(z, i)) % P
                    ELSE (g * StateWeight(i)) % P = (asked.Qe[i] * StatePull(z, i)) % P
  BY DEF TerminalCostIsTasks
<1> DEFINE n == Len(spec.Q)
           q == spec.Q[i]
           y == spec.xref[i]
           w == spec.Qe[i]
           g == TerminalGradient(z)[i][1]
           pull == PullOf(q, y, z[i])
<1>1. CostFits(spec) /\ Ends(spec, asked) /\ CostOf(ocp, spec)
      /\ PullsAs(spec.Q, spec.xref, asked.tasks, "sw", "xr")
  BY DEF CostInv, Built, Asks
<1>2. z \in [1..n -> Field]
  BY CornersFit
<1>3. /\ n \in Nat \ {0} /\ spec.Qe \in [1..n -> Field]
      /\ TerminalGradient(z) = Upright([k \in 1..n |-> PullOf(spec.Qe[k], spec.xref[k], z[k])], n)
  BY <1>1, <1>2, TerminalGradientIs
<1>4. g = PullOf(w, y, z[i])
  BY <1>3 DEF Upright
<1>5. q \in Field /\ y \in Field /\ w \in Field /\ z[i] \in Field
  <2>1. spec.Q \in Seq(Field) /\ spec.xref \in Seq(Field) /\ Len(spec.xref) = n
    BY <1>1 DEF CostFits
  <2>2. q \in Field
    BY <2>1
  <2>3. y \in Field
    BY <2>1
  <2> QED BY <1>2, <1>3, <2>2, <2>3
<1>6. StatePull(z, i) = pull
  <2>1. StatePull(z, i) = Pulled(asked.tasks, "sw", "xr", i, z[i])
    BY DEF StatePull, Pulled, SumOver
  <2> QED BY <1>1, <1>5, <2>1 DEF PullsAs
<1>7. StateWeight(i) = q
  <2>1. StateWeight(i) = WeightOf(asked.tasks, i)
    BY DEF StateWeight, WeightOf, SumOver
  <2> QED BY <1>1, <2>1 DEF Ends
<1>8. q \in Int /\ y \in Int /\ w \in Int /\ z[i] \in Int
  BY <1>5, FieldOf
<1>9. CASE asked.Qe = None
  <2>1. spec.Qe = Scaled(Factor, spec.Q)
    BY <1>1, <1>9 DEF Ends, Default
  <2>2. DOMAIN spec.Q = 1..n
    BY <1>1 DEF CostFits
  <2>3. w = (Factor * q) % P
    BY <2>1, <2>2 DEF Scaled
  <2>4. Factor \in Int
    BY OcpAssumption, FieldOf
  <2> HIDE DEF q, y, w, g, pull
  <2>5. PullOf(Multiple(Factor, q), y, z[i]) = Multiple(Factor, PullOf(q, y, z[i]))
    BY ONLY <1>8, <2>4, PullsScale
  <2>6. g = (Factor * pull) % P
    BY <1>4, <2>3, <2>5 DEF pull, Multiple
  <2> QED BY <1>6, <1>9, <2>6 DEF g
<1>10. CASE asked.Qe # None
  <2>1. spec.Qe = asked.Qe
    BY <1>1, <1>10 DEF Ends, Default
  <2>2. w = asked.Qe[i]
    BY <2>1
  <2> HIDE DEF q, y, w, g, pull
  <2>3. Multiple(PullOf(w, y, z[i]), q) = Multiple(w, PullOf(q, y, z[i]))
    BY ONLY <1>8, PullsScale
  <2>4. (g * q) % P = (w * pull) % P
    BY <1>4, <2>3 DEF pull, Multiple
  <2> QED BY <1>6, <1>7, <1>10, <2>2, <2>4 DEF g
<1> QED BY <1>9, <1>10

\* At the end of the horizon the problem pulls where the tasks pull, by
\* Q_terminal_factor times their weights or by the Q_terminal of the caller: for
\* every template, every number of tasks and states, and all weights and references.
THEOREM TerminalCostReachesProblem == Spec => []TerminalCostIsTasks
<1>1. Init => CostInv
  BY DEF Init, OcpInit, CostInv, Built
<1>2. CostInv => TerminalCostIsTasks
  BY EndAgrees
<1> QED BY <1>1, <1>2, CostNext, PTL DEF Spec
=============================================================================
