---------------------------- MODULE PolicyProofs ----------------------------
(***************************************************************************)
(* Proofs about Policy: the graph that is exported computes the policy,    *)
(* what a conversion returns is of the policy, the recipe and the data it  *)
(* was asked for, and what passes parity is close to the policy.           *)
(***************************************************************************)
EXTENDS Policy, WellFoundedInduction, SequenceTheorems, FiniteSetTheorems, TLAPS

-----------------------------------------------------------------------------
(***************************************************************************)
(* What is in a directory.                                                 *)
(***************************************************************************)
FileNames == {"_dynamic_range_quant", "_float16", "_float32", "_full_integer_quant", "_integer_quant"}

\* A file has the precision of its suffix, and data if it was calibrated.
FileOK(suffix, file) ==
  /\ file.kind = Precision(suffix)
  /\ file.batch # NoData <=> file.kind = "static_int8"

DirOK(dir) ==
  /\ dir = [s \in DOMAIN dir |-> dir[s]]
  /\ DOMAIN dir \subseteq FileNames
  /\ \A s \in DOMAIN dir : FileOK(s, dir[s])

\* All files are of the call's policy, and of its data where there are any.
OfCall(dir) ==
  \A s \in DOMAIN dir :
    /\ dir[s].of = want.of
    /\ dir[s].batch # NoData /\ want.batch # NoData => dir[s].batch = want.batch

Within == IF want.own THEN temp ELSE kept

WantOK ==
  /\ want.recipe \in Converting /\ want.of \in Seq(Int)
  /\ want.batch # NoData => want.recipe = "static_int8"

\* What holds of a call at each of its places.
Progress ==
  /\ at \in {"asked", "converted", "read", "returned"} => WantOK
  /\ at \in {"asked", "converted"} /\ OneUse /\ ~ want.own => OfCall(kept)
  /\ at = "asked" => report = NoReport
  /\ at = "converted" =>
       /\ want.recipe # "executorch" /\ Acceptable
       /\ "_float32" \in DOMAIN Within
       /\ want.own => OfCall(temp)

\* A verdict is about the model and the policy that stand beside it.
Judged ==
  at = "returned" /\ report.passed =>
    litert_parity(want.of, model.out, QUANT_TOLERANCE[want.recipe])

ArtifactInv == DirOK(temp) /\ DirOK(kept) /\ Progress /\ Judged

ReturnInv == ArtifactInv /\ ArtifactOfPolicy

-----------------------------------------------------------------------------
(***************************************************************************)
(* Lemmas about the choice of a file.                                      *)
(***************************************************************************)
\* The first of some files is one of them.
LEMMA FirstIsOne ==
  ASSUME NEW names, names \subseteq FileNames, names # {}
  PROVE  First(names) \in names
<1> DEFINE Hit(i) == /\ TfliteFiles[i] \in names
                     /\ \A j \in 1 .. (i - 1) : TfliteFiles[j] \notin names
<1>1. DOMAIN TfliteFiles = 1..5
  BY DEF TfliteFiles
<1>2. /\ TfliteFiles[1] = "_dynamic_range_quant" /\ TfliteFiles[2] = "_float16"
      /\ TfliteFiles[3] = "_float32" /\ TfliteFiles[4] = "_full_integer_quant"
      /\ TfliteFiles[5] = "_integer_quant"
  BY DEF TfliteFiles
<1>3. \E i \in 1..5 : Hit(i)
  <2>1. CASE TfliteFiles[1] \in names
    <3>1. Hit(1)
      BY <2>1
    <3> QED BY <3>1
  <2>2. CASE TfliteFiles[1] \notin names /\ TfliteFiles[2] \in names
    <3>1. Hit(2)
      BY <2>2
    <3> QED BY <3>1
  <2>3. CASE TfliteFiles[1] \notin names /\ TfliteFiles[2] \notin names /\ TfliteFiles[3] \in names
    <3>1. Hit(3)
      BY <2>3
    <3> QED BY <3>1
  <2>4. CASE /\ TfliteFiles[1] \notin names /\ TfliteFiles[2] \notin names
             /\ TfliteFiles[3] \notin names /\ TfliteFiles[4] \in names
    <3>1. Hit(4)
      BY <2>4
    <3> QED BY <3>1
  <2>5. CASE /\ TfliteFiles[1] \notin names /\ TfliteFiles[2] \notin names
             /\ TfliteFiles[3] \notin names /\ TfliteFiles[4] \notin names
    <3>1. TfliteFiles[5] \in names
      BY <1>2, <2>5 DEF FileNames
    <3>2. Hit(5)
      BY <2>5, <3>1
    <3> QED BY <3>2
  <2> QED BY <2>1, <2>2, <2>3, <2>4, <2>5
<1> DEFINE i == CHOOSE k \in 1..5 : Hit(k)
<1>4. Hit(i)
  BY <1>3
<1> HIDE DEF i
<1>5. First(names) = TfliteFiles[CHOOSE k \in 1..5 : Hit(k)]
  BY <1>1 DEF First
<1> QED BY <1>4, <1>5 DEF i

\* The file that is read is in the directory, one at most, and of the recipe.
LEMMA PickedFits ==
  ASSUME NEW dir, DOMAIN dir \subseteq FileNames, NEW recipe \in Quantized \union {"float32"},
         recipe = "float32" => "_float32" \in DOMAIN dir,
         NEW s \in Picked(dir, recipe)
  PROVE  s \in DOMAIN dir /\ Precision(s) = recipe
<1>1. CASE recipe = "float32"
  BY <1>1 DEF Picked, Precision
<1>2. CASE recipe # "float32"
  <2> DEFINE list == _RECIPE_SUFFIX[recipe]
             Hits(suffix) == Matching(suffix) \intersect DOMAIN dir
             Found == {i \in DOMAIN list : Hits(list[i]) # {}}
             Earliest == CHOOSE i \in Found : \A j \in Found : i <= j
  <2>1. DOMAIN list \subseteq 1..2 /\ DOMAIN list \in {1..1, 1..2}
    BY <1>2 DEF _RECIPE_SUFFIX, Quantized
  <2>2. Found # {} /\ s = First(Hits(list[Earliest]))
    BY <1>2 DEF Picked
  <2>3. \E i \in Found : \A j \in Found : i <= j
    BY <2>1, <2>2
  <2>4. Earliest \in Found
    BY <2>3
  <2> DEFINE names == Hits(list[Earliest])
  <2>5. names # {} /\ names \subseteq FileNames /\ names \subseteq DOMAIN dir
    BY <2>4
  <2>6. \A i \in DOMAIN list : \A t \in Matching(list[i]) : Precision(t) = recipe
    BY <1>2 DEF _RECIPE_SUFFIX, Quantized, Matching, Precision
  <2> HIDE DEF Earliest
  <2>7. s \in names
    BY <2>2, <2>5, FirstIsOne
  <2> QED BY <2>4, <2>5, <2>6, <2>7
<1> QED BY <1>1, <1>2

-----------------------------------------------------------------------------
(***************************************************************************)
(* Lemmas about a conversion.                                              *)
(***************************************************************************)
\* The files of a conversion.
Files(names, m) ==
  [s \in names |->
     IF Precision(s) = want.recipe THEN m
     ELSE [of |-> want.of, kind |-> Precision(s), batch |-> NoData, out |-> want.of]]

LEMMA FilesFit ==
  ASSUME WantOK, Acceptable, NEW names, NEW m \in Conversions(want.recipe),
         names \in Written \/ names \subseteq {"_float32", "_float16"}
  PROVE  /\ DirOK(Files(names, m)) /\ OfCall(Files(names, m))
         /\ names \in Written => "_float32" \in names
<1>1. names \subseteq FileNames
  BY DEF Written, FileNames
<1>2. names \in Written => "_float32" \in names
  BY DEF Written
<1>3. \A s \in names : Precision(s) = "static_int8" => want.recipe = "static_int8"
  BY DEF Written, Precision
<1>4. m.of = want.of /\ m.kind = want.recipe
  BY DEF Conversions
<1>5. m.batch = IF want.recipe = "static_int8" THEN want.batch ELSE NoData
  BY DEF Conversions
<1>6. ASSUME NEW s \in names
      PROVE  /\ FileOK(s, Files(names, m)[s])
             /\ Files(names, m)[s].of = want.of
             /\ Files(names, m)[s].batch \in {NoData, want.batch}
  <2>1. CASE Precision(s) = want.recipe
    <3>1. Files(names, m)[s] = m
      BY <2>1 DEF Files
    <3> QED BY <3>1, <2>1, <1>4, <1>5 DEF FileOK, Acceptable
  <2>2. CASE Precision(s) # want.recipe
    <3> DEFINE f == [of |-> want.of, kind |-> Precision(s), batch |-> NoData, out |-> want.of]
    <3>1. Files(names, m)[s] = f
      BY <2>2 DEF Files
    <3>2. f.kind = Precision(s) /\ f.batch = NoData /\ f.of = want.of
      OBVIOUS
    <3> QED BY <3>1, <3>2, <2>2, <1>3 DEF FileOK
  <2> QED BY <2>1, <2>2
<1>7. DOMAIN Files(names, m) = names /\ Files(names, m) = [s \in names |-> Files(names, m)[s]]
  BY DEF Files
<1>8. OfCall(Files(names, m))
  BY <1>6, <1>7 DEF OfCall
<1>9. DirOK(Files(names, m))
  BY <1>1, <1>6, <1>7 DEF DirOK
<1> QED BY <1>2, <1>8, <1>9

\* Files laid over others.
LEMMA OverlayFits ==
  ASSUME NEW dir, NEW files, DirOK(dir), DirOK(files)
  PROVE  /\ DirOK(Overlay(dir, files))
         /\ DOMAIN files \subseteq DOMAIN Overlay(dir, files)
         /\ OfCall(dir) /\ OfCall(files) => OfCall(Overlay(dir, files))
<1> DEFINE o == Overlay(dir, files)
<1>1. /\ DOMAIN o = DOMAIN dir \union DOMAIN files
      /\ \A s \in DOMAIN o : o[s] = IF s \in DOMAIN files THEN files[s] ELSE dir[s]
      /\ o = [s \in DOMAIN o |-> o[s]]
  BY DEF Overlay
<1> HIDE DEF o
<1>2. DirOK(o)
  BY <1>1 DEF DirOK
<1>3. OfCall(dir) /\ OfCall(files) => OfCall(o)
  BY <1>1 DEF OfCall
<1> QED BY <1>1, <1>2, <1>3 DEF o

LEMMA EmptyFits == DirOK(<<>>) /\ OfCall(<<>>)
BY DEF DirOK, OfCall

-----------------------------------------------------------------------------
(***************************************************************************)
(* The invariant: at the start, and over each action.                      *)
(***************************************************************************)
LEMMA ArtifactsInit == Init => ReturnInv
BY EmptyFits DEF Init, ArtifactInit, ReturnInv, ArtifactInv, Progress, Judged, ArtifactOfPolicy, NoReport

\* The steps that leave the call and its files alone.
LEMMA ArtifactsKept ==
  ASSUME ArtifactInv, UNCHANGED <<want, temp, kept, model, report>>,
         at' = at \/ at' \in {"none", "ready", "raised"}
  PROVE  ArtifactInv' /\ (ArtifactOfPolicy => ArtifactOfPolicy')
BY DEF ArtifactInv, Progress, Judged, ArtifactOfPolicy, WantOK, OfCall, Acceptable, DirOK, FileOK, Within

LEMMA AskKeeps ==
  ASSUME ArtifactInv, Ask
  PROVE  ReturnInv'
<1>1. /\ at' = "asked" /\ temp' = <<>> /\ kept' = kept /\ report' = NoReport
      /\ policy \in Converted
  BY DEF Ask
<1>2. PICK of \in {policy} \union Others, recipe \in Converting,
           batch \in Batches \union {NoData}, own \in BOOLEAN :
        LET call == [of |-> of, recipe |-> recipe, batch |-> batch, own |-> own] IN
        /\ batch # NoData => recipe = "static_int8"
        /\ (OneUse /\ ~ own) => OwnUse(call)
        /\ want' = call
  BY DEF Ask
<1>3. /\ want'.of = of /\ want'.recipe = recipe /\ want'.batch = batch /\ want'.own = own
      /\ (OneUse /\ ~ own) => OwnUse(want')
  BY <1>2
<1>4. WantOK'
  BY <1>1, <1>2, <1>3, ArtifactAssumption DEF WantOK
<1>5. OneUse /\ ~ want'.own => OfCall(kept)'
  BY <1>1, <1>3 DEF OwnUse, OfCall
<1>6. Progress'
  BY <1>1, <1>4, <1>5 DEF Progress
<1>7. DirOK(temp)' /\ DirOK(kept)'
  BY <1>1, EmptyFits DEF ArtifactInv
<1>8. Judged' /\ ArtifactOfPolicy'
  BY <1>1 DEF Judged, ArtifactOfPolicy
<1> QED BY <1>6, <1>7, <1>8 DEF ReturnInv, ArtifactInv

LEMMA RaiseKeeps ==
  ASSUME ArtifactInv, Raise
  PROVE  ReturnInv'
<1>1. at' = "raised" /\ temp' = <<>> /\ kept' = kept
  BY DEF Raise
<1>2. DirOK(temp)' /\ DirOK(kept)'
  BY <1>1, EmptyFits DEF ArtifactInv
<1> QED BY <1>1, <1>2 DEF ReturnInv, ArtifactInv, Progress, Judged, ArtifactOfPolicy

LEMMA ConvertKeeps ==
  ASSUME ArtifactInv, Convert
  PROVE  ReturnInv'
<1>1. /\ at = "asked" /\ want.recipe # "executorch" /\ Acceptable
      /\ at' = "converted" /\ want' = want /\ report' = report
  BY DEF Convert
<1>2. PICK names \in Written, m \in Conversions(want.recipe) :
        IF want.own THEN temp' = Files(names, m) /\ kept' = kept
        ELSE kept' = Overlay(kept, Files(names, m)) /\ temp' = temp
  BY DEF Convert, Files
<1> DEFINE files == Files(names, m)
<1>3. WantOK /\ WantOK'
  BY <1>1 DEF ArtifactInv, Progress, WantOK
<1>4. DirOK(files) /\ OfCall(files) /\ "_float32" \in DOMAIN files
  <2>1. DOMAIN files = names
    BY DEF Files
  <2> QED BY <1>1, <1>3, FilesFit, <2>1
<1>5. DirOK(Overlay(kept, files)) /\ DOMAIN files \subseteq DOMAIN Overlay(kept, files)
  BY <1>4, OverlayFits DEF ArtifactInv
<1> HIDE DEF files
<1>6. DirOK(temp') /\ DirOK(kept')
  BY <1>2, <1>4, <1>5 DEF ArtifactInv, files
<1>7. "_float32" \in DOMAIN Within'
  <2>1. CASE want.own
    BY <2>1, <1>1, <1>2, <1>4 DEF Within, files
  <2>2. CASE ~ want.own
    BY <2>2, <1>1, <1>2, <1>4, <1>5 DEF Within, files
  <2> QED BY <2>1, <2>2
<1>8. want.own => OfCall(temp)'
  BY <1>1, <1>2, <1>4 DEF OfCall, files
<1>9. OneUse /\ ~ want.own => OfCall(kept)'
  <2> SUFFICES ASSUME OneUse, ~ want.own PROVE OfCall(kept)'
    OBVIOUS
  <2>1. OfCall(kept)
    BY <1>1 DEF ArtifactInv, Progress
  <2>2. OfCall(Overlay(kept, files))
    BY <2>1, <1>4, OverlayFits DEF ArtifactInv
  <2> QED BY <2>2, <1>1, <1>2 DEF OfCall, files
<1>10. Progress'
  BY <1>1, <1>3, <1>7, <1>8, <1>9 DEF Progress, Acceptable
<1>11. DirOK(temp)' /\ DirOK(kept)'
  BY <1>6 DEF DirOK, FileOK
<1> QED BY <1>1, <1>10, <1>11 DEF ReturnInv, ArtifactInv, Judged, ArtifactOfPolicy

LEMMA ConvertFailsKeeps ==
  ASSUME ArtifactInv, ConvertFails
  PROVE  ReturnInv'
<1>1. at = "asked" /\ Acceptable /\ at' = "raised" /\ temp' = <<>> /\ WantOK
  BY DEF ConvertFails, ArtifactInv, Progress
<1>2. DirOK(kept')
  <2>1. PICK names \in SUBSET {"_float32", "_float16"} :
          LET files == [s \in names |-> [of |-> want.of, kind |-> Precision(s),
                                         batch |-> NoData, out |-> want.of]]
          IN kept' = IF want.own THEN kept ELSE Overlay(kept, files)
    BY DEF ConvertFails
  <2> DEFINE files == [s \in names |-> [of |-> want.of, kind |-> Precision(s),
                                        batch |-> NoData, out |-> want.of]]
  <2>2. DirOK(files)
    <3>1. \A s \in names : s \in {"_float32", "_float16"} /\ s \in FileNames
      BY DEF FileNames
    <3>2. DOMAIN files = names /\ files = [s \in DOMAIN files |-> files[s]]
      OBVIOUS
    <3>3. \A s \in names : files[s].kind = Precision(s) /\ files[s].batch = NoData
      OBVIOUS
    <3> HIDE DEF files
    <3>4. \A s \in names : FileOK(s, files[s])
      BY <3>1, <3>3 DEF FileOK, Precision
    <3> QED BY <3>1, <3>2, <3>4 DEF DirOK
  <2> HIDE DEF files
  <2>3. kept' = kept \/ kept' = Overlay(kept, files)
    BY <2>1 DEF files
  <2> QED BY <2>2, <2>3, OverlayFits DEF ArtifactInv
<1>3. DirOK(temp)' /\ DirOK(kept)'
  BY <1>1, <1>2, EmptyFits DEF DirOK, FileOK
<1> QED BY <1>1, <1>3 DEF ReturnInv, ArtifactInv, Progress, Judged, ArtifactOfPolicy

\* The file that is read back is of the recipe; where directories are kept to one
\* use it is of the call.
LEMMA ReadBackKeeps ==
  ASSUME ArtifactInv, ReadBack
  PROVE  ArtifactInv' /\ (OneUse => ArtifactOfPolicy')
<1>1. at = "converted" /\ WantOK /\ DirOK(Within) /\ "_float32" \in DOMAIN Within
  BY DEF ReadBack, ArtifactInv, Progress, Within
<1>2. CASE Raise
  BY <1>2, RaiseKeeps DEF ReturnInv
<1>3. CASE ~ Raise
  <2>1. PICK s \in Picked(Within, want.recipe) : model' = Within[s]
    BY <1>3 DEF ReadBack, Within
  <2>2. at' = "read" /\ temp' = <<>> /\ want' = want /\ kept' = kept
    BY <1>3 DEF ReadBack
  <2>3. want.recipe \in Quantized \union {"float32"}
    BY <1>1 DEF WantOK, Converting, ArtifactInv, Progress
  <2>4. s \in DOMAIN Within /\ Precision(s) = want.recipe
    BY <1>1, <2>1, <2>3, PickedFits DEF DirOK
  <2>5. FileOK(s, Within[s])
    BY <1>1, <2>4 DEF DirOK
  <2>6. ArtifactInv'
    <3>1. DirOK(temp)' /\ DirOK(kept)'
      BY <2>2, EmptyFits DEF ArtifactInv
    <3>2. WantOK'
      BY <1>1, <2>2 DEF WantOK
    <3> QED BY <2>2, <3>1, <3>2 DEF ArtifactInv, Progress, Judged
  <2>7. ASSUME OneUse PROVE ArtifactOfPolicy'
    <3>1. OfCall(Within)
      BY <1>1, <2>7 DEF ArtifactInv, Progress, Within
    <3>2. Within[s].of = want.of /\ Within[s].kind = want.recipe
      BY <2>4, <2>5, <3>1 DEF OfCall, FileOK
    <3>3. Within[s].batch = want.batch
      <4>1. CASE want.recipe = "static_int8"
        <5>1. want.batch # NoData
          BY <1>1, <4>1 DEF ArtifactInv, Progress, Acceptable
        <5>2. Within[s].batch # NoData
          BY <2>5, <3>2, <4>1 DEF FileOK
        <5> QED BY <5>1, <5>2, <2>4, <3>1 DEF OfCall
      <4>2. CASE want.recipe # "static_int8"
        <5>1. want.batch = NoData
          BY <1>1, <4>2 DEF WantOK
        <5>2. Within[s].batch = NoData
          BY <2>5, <3>2, <4>2 DEF FileOK
        <5> QED BY <5>1, <5>2
      <4> QED BY <4>1, <4>2
    <3> QED BY <2>1, <2>2, <3>2, <3>3 DEF ArtifactOfPolicy
  <2> QED BY <2>6, <2>7
<1> QED BY <1>2, <1>3

LEMMA ExportExecutorchKeeps ==
  ASSUME ArtifactInv, ExportExecutorch
  PROVE  ReturnInv'
<1>1. /\ at = "asked" /\ want.recipe = "executorch" /\ at' = "returned"
      /\ UNCHANGED <<want, temp, kept, report>>
  BY DEF ExportExecutorch
<1>2. PICK m \in Conversions("executorch") : model' = m
  BY DEF ExportExecutorch
<1>3. m.of = want.of /\ m.kind = "executorch" /\ m.batch = NoData
  BY DEF Conversions
<1>4. WantOK /\ WantOK' /\ want.batch = NoData /\ ~ report'.passed
  BY <1>1 DEF ArtifactInv, Progress, WantOK, NoReport
<1>5. ArtifactOfPolicy'
  BY <1>1, <1>2, <1>3, <1>4 DEF ArtifactOfPolicy
<1>6. DirOK(temp)' /\ DirOK(kept)'
  BY <1>1 DEF ArtifactInv
<1> QED BY <1>1, <1>4, <1>5, <1>6 DEF ReturnInv, ArtifactInv, Progress, Judged

LEMMA CheckParityKeeps ==
  ASSUME ArtifactInv, CheckParity
  PROVE  ArtifactInv' /\ (ArtifactOfPolicy => ArtifactOfPolicy')
<1>1. /\ at = "read" /\ at' = "returned" /\ UNCHANGED <<want, temp, kept, model>>
      /\ report'.passed = litert_parity(want.of, model.out, QUANT_TOLERANCE[want.recipe])
  BY DEF CheckParity
<1>2. WantOK'
  BY <1>1 DEF ArtifactInv, Progress, WantOK
<1>3. DirOK(temp)' /\ DirOK(kept)'
  BY <1>1 DEF ArtifactInv
<1>4. Judged'
  BY <1>1 DEF Judged
<1>5. ArtifactOfPolicy => ArtifactOfPolicy'
  BY <1>1 DEF ArtifactOfPolicy
<1> QED BY <1>1, <1>2, <1>3, <1>4, <1>5 DEF ArtifactInv, Progress

LEMMA ArtifactsStep ==
  ASSUME ArtifactInv, [Next]_vars
  PROVE  ArtifactInv' /\ (OneUse /\ ArtifactOfPolicy => ArtifactOfPolicy')
<1>1. CASE UNCHANGED vars
  BY <1>1, ArtifactsKept DEF vars, artifactVars
<1>2. CASE UNCHANGED artifactVars
  BY <1>2, ArtifactsKept DEF artifactVars
<1>3. CASE DeliverPolicy
  <2>1. UNCHANGED <<want, temp, kept, model, report>> /\ at' = "ready"
    BY <1>3 DEF DeliverPolicy
  <2> QED BY <2>1, ArtifactsKept
<1>4. CASE Ask
  BY <1>4, AskKeeps DEF ReturnInv
<1>5. CASE Refuse
  BY <1>5, RaiseKeeps DEF Refuse, ReturnInv
<1>6. CASE Convert
  BY <1>6, ConvertKeeps DEF ReturnInv
<1>7. CASE ConvertFails
  BY <1>7, ConvertFailsKeeps DEF ReturnInv
<1>8. CASE ReadBack
  BY <1>8, ReadBackKeeps
<1>9. CASE ExportExecutorch
  BY <1>9, ExportExecutorchKeeps DEF ReturnInv
<1>10. CASE CheckParity
  BY <1>10, CheckParityKeeps
<1> QED BY <1>1, <1>2, <1>3, <1>4, <1>5, <1>6, <1>7, <1>8, <1>9, <1>10 DEF Next, ArtifactNext

-----------------------------------------------------------------------------
(***************************************************************************)
(* Theorems about conversions.                                             *)
(***************************************************************************)
\* Where each work_dir is kept to one policy and one batch of data, what litert.py,
\* quantize.py and executorch.py return was made from the policy, the recipe and
\* the data of the call.
THEOREM ArtifactIsOfPolicy ==
  ASSUME OneUse
  PROVE  Spec => []ArtifactOfPolicy
<1>1. Init => ReturnInv
  BY ArtifactsInit
<1>2. ReturnInv /\ [Next]_vars => ReturnInv'
  BY ArtifactsStep DEF ReturnInv
<1>3. ReturnInv => ArtifactOfPolicy
  BY DEF ReturnInv
<1> QED BY <1>1, <1>2, <1>3, PTL DEF Spec

\* Whatever directories callers use, a model that passes parity computes, where it
\* computes numbers, what the policy does to within the budget of its recipe.
THEOREM ParityIsFaithful == Spec => []AcceptedIsFaithful
<1>1. Init => ArtifactInv
  BY ArtifactsInit DEF ReturnInv
<1>2. ArtifactInv /\ [Next]_vars => ArtifactInv'
  BY ArtifactsStep
<1>3. ArtifactInv => AcceptedIsFaithful
  <2> SUFFICES ASSUME ArtifactInv, at = "returned", report.passed, Numbers(model.out),
                      NEW i \in DOMAIN want.of
               PROVE  Distance(model.out[i], want.of[i]) <= QUANT_TOLERANCE[want.recipe]
    BY DEF AcceptedIsFaithful
  <2>1. want.of \in Seq(Int)
    BY DEF ArtifactInv, Progress, WantOK
  <2>2. Numbers(want.of)
    BY <2>1, ArtifactAssumption DEF Numbers
  <2>3. litert_parity(want.of, model.out, QUANT_TOLERANCE[want.recipe])
    BY DEF ArtifactInv, Judged
  <2> QED BY <2>2, <2>3 DEF litert_parity
<1> QED BY <1>1, <1>2, <1>3, PTL DEF Spec

-----------------------------------------------------------------------------
(***************************************************************************)
(* Induction, on sets instead of predicates, which the provers can use.    *)
(***************************************************************************)
\* A set of numbers that is not empty has a least one.
LEMMA Least ==
  ASSUME NEW S \in SUBSET Nat, S # {}
  PROVE  \E n \in S : \A m \in S : n <= m
<1>1. PICK R : IsWellFoundedOn(R, Nat) /\ \A x, y \in Nat : x < y => <<x, y>> \in R
  <2>1. \A x, y \in Nat : x < y => <<x, y>> \in OpToRel(<, Nat)
    BY DEF OpToRel
  <2> QED BY <2>1, NatLessThanWellFounded, Zenon
<1>2. S \subseteq Nat
  OBVIOUS
<1>3. IsWellFoundedOn(R, Nat)
  BY <1>1
<1>4. \E x \in S : \A y \in S : ~ (<<y, x>> \in R)
  BY <1>3, WFMin
<1>5. PICK n \in S : \A y \in S : ~ (<<y, n>> \in R)
  BY <1>4
<1>6. \A m \in S : ~ (m < n)
  BY <1>1, <1>5
<1> QED BY <1>6

LEMMA UpTo ==
  ASSUME NEW n \in Nat, NEW S, 0 \in S, \A k \in 0 .. (n - 1) : k \in S => k + 1 \in S
  PROVE  \A k \in 0 .. n : k \in S
<1> DEFINE T == {k \in 0 .. n : k \notin S}
<1>1. SUFFICES ASSUME T # {} PROVE FALSE
  OBVIOUS
<1>2. PICK k \in T : \A m \in T : k <= m
  <2>1. T \in SUBSET Nat
    OBVIOUS
  <2> HIDE DEF T
  <2> QED BY <2>1, <1>1, Least
<1>3. k - 1 \in 0 .. (n - 1) /\ k - 1 \notin T
  BY <1>2
<1> QED BY <1>2, <1>3

-----------------------------------------------------------------------------
(***************************************************************************)
(* Sequences of anything.                                                  *)
(***************************************************************************)
Listed(s) == s \in Seq({s[i] : i \in DOMAIN s})

LEMMA ListedLen ==
  ASSUME NEW s, Listed(s)
  PROVE  /\ Len(s) \in Nat /\ DOMAIN s = 1 .. Len(s)
         /\ s = [i \in 1 .. Len(s) |-> s[i]]
BY DEF Listed

LEMMA ListOf ==
  ASSUME NEW n \in Nat, NEW s, s = [i \in 1 .. n |-> s[i]]
  PROVE  Listed(s) /\ Len(s) = n /\ DOMAIN s = 1 .. n
<1> DEFINE S == {s[i] : i \in DOMAIN s}
<1>1. s \in [1 .. n -> S]
  OBVIOUS
<1> HIDE DEF S
<1>2. s \in Seq(S)
  BY <1>1
<1>3. Len(s) \in Nat /\ DOMAIN s = 1 .. Len(s)
  BY <1>2
<1> QED BY <1>1, <1>2, <1>3 DEF Listed, S

LEMMA AppendAny ==
  ASSUME NEW s, Listed(s), NEW e
  PROVE  /\ Listed(Append(s, e)) /\ Len(Append(s, e)) = Len(s) + 1
         /\ Append(s, e)[Len(s) + 1] = e
         /\ \A i \in 1 .. Len(s) : Append(s, e)[i] = s[i]
<1> DEFINE S == {s[i] : i \in DOMAIN s} \union {e}
           t == Append(s, e)
<1>1. s \in Seq(S)
  <2>1. s \in [1 .. Len(s) -> S] /\ Len(s) \in Nat
    BY ListedLen
  <2> QED BY <2>1
<1>2. t \in Seq(S) /\ Len(t) = Len(s) + 1 /\ t[Len(s) + 1] = e
      /\ \A i \in 1 .. Len(s) : t[i] = s[i]
  BY <1>1, AppendProperties
<1> HIDE DEF t, S
<1>3. t = [i \in 1 .. Len(t) |-> t[i]] /\ Len(t) \in Nat
  BY <1>2
<1> QED BY <1>2, <1>3, ListOf DEF t

-----------------------------------------------------------------------------
(***************************************************************************)
(* Tensors: a run over the nodes of a graph exists, and is determined by   *)
(* what is given and by the nodes it has gone through.                     *)
(***************************************************************************)
IsRun(known, base, nodes) ==
  known = [k \in 0 .. Len(nodes) |-> IF k = 0 THEN base ELSE Computed(known[k - 1], nodes[k])]

LEMMA RunSteps ==
  ASSUME NEW known, NEW base, NEW nodes, Len(nodes) \in Nat, IsRun(known, base, nodes)
  PROVE  /\ known[0] = base
         /\ \A k \in 1 .. Len(nodes) : known[k] = Computed(known[k - 1], nodes[k])
<1>1. \A k \in 0 .. Len(nodes) :
        known[k] = IF k = 0 THEN base ELSE Computed(known[k - 1], nodes[k])
  BY DEF IsRun
<1> QED BY <1>1

LEMMA RunExists ==
  ASSUME NEW base, NEW nodes, Len(nodes) \in Nat
  PROVE  \E known : IsRun(known, base, nodes)
<1> DEFINE Part(f, n) == f = [k \in 0 .. n |-> IF k = 0 THEN base ELSE Computed(f[k - 1], nodes[k])]
           S == {n \in Nat : \E f : Part(f, n)}
<1>1. 0 \in S
  <2> DEFINE f == [k \in 0 .. 0 |-> base]
  <2>1. Part(f, 0)
    OBVIOUS
  <2> QED BY <2>1
<1>2. ASSUME NEW n \in Nat, n \in S PROVE n + 1 \in S
  <2>1. PICK f : Part(f, n)
    BY <1>2
  <2> DEFINE g == [k \in 0 .. n + 1 |-> IF k <= n THEN f[k] ELSE Computed(f[n], nodes[n + 1])]
  <2>2. \A k \in 0 .. n + 1 : g[k] = IF k = 0 THEN base ELSE Computed(g[k - 1], nodes[k])
    <3> TAKE k \in 0 .. n + 1
    <3>1. CASE k <= n
      <4>1. g[k] = f[k] /\ (k # 0 => g[k - 1] = f[k - 1])
        BY <3>1
      <4>2. f[k] = IF k = 0 THEN base ELSE Computed(f[k - 1], nodes[k])
        BY <2>1, <3>1
      <4> HIDE DEF g
      <4> QED BY <4>1, <4>2
    <3>2. CASE k = n + 1
      <4>1. g[k] = Computed(f[n], nodes[n + 1]) /\ g[n] = f[n]
        BY <3>2
      <4> HIDE DEF g
      <4> QED BY <4>1, <3>2
    <3> QED BY <3>1, <3>2
  <2>3. g = [k \in 0 .. n + 1 |-> g[k]]
    OBVIOUS
  <2> HIDE DEF g
  <2>4. Part(g, n + 1)
    BY <2>2, <2>3
  <2> QED BY <2>4
<1> HIDE DEF S
<1>3. \A k \in 0 .. (Len(nodes) - 1) : k \in S => k + 1 \in S
  BY <1>2
<1>4. \A k \in 0 .. Len(nodes) : k \in S
  BY <1>1, <1>3, UpTo
<1>5. Len(nodes) \in S
  BY <1>4
<1> QED BY <1>5 DEF S, IsRun

LEMMA TensorsRun ==
  ASSUME NEW b, NEW inputs, Len(b.nodes) \in Nat
  PROVE  \E known : IsRun(known, Given(b, inputs), b.nodes) /\ Tensors(b, inputs) = known[Len(b.nodes)]
<1> DEFINE known == CHOOSE f : IsRun(f, Given(b, inputs), b.nodes)
<1>1. IsRun(known, Given(b, inputs), b.nodes)
  BY RunExists
<1>2. Tensors(b, inputs) = known[Len(b.nodes)]
  BY DEF Tensors, IsRun
<1> QED BY <1>1, <1>2

\* Two runs from the same start agree as long as their nodes do.
LEMMA RunPrefix ==
  ASSUME NEW f, NEW g, NEW base, NEW nodes, NEW more, Len(nodes) \in Nat, Len(more) \in Nat,
         Len(nodes) <= Len(more), \A k \in 1 .. Len(nodes) : nodes[k] = more[k],
         IsRun(f, base, nodes), IsRun(g, base, more)
  PROVE  \A k \in 0 .. Len(nodes) : f[k] = g[k]
<1> DEFINE S == {k \in 0 .. Len(nodes) : f[k] = g[k]}
<1>1. 0 \in S
  BY RunSteps
<1>2. ASSUME NEW k \in 0 .. (Len(nodes) - 1), k \in S PROVE k + 1 \in S
  <2>1. f[k + 1] = Computed(f[(k + 1) - 1], nodes[k + 1])
    BY RunSteps
  <2>2. g[k + 1] = Computed(g[(k + 1) - 1], more[k + 1])
    BY RunSteps
  <2>3. (k + 1) - 1 = k /\ f[k] = g[k] /\ nodes[k + 1] = more[k + 1] /\ k + 1 \in 0 .. Len(nodes)
    BY <1>2
  <2>4. f[k + 1] = g[k + 1]
    BY <2>1, <2>2, <2>3
  <2> QED BY <2>3, <2>4
<1> HIDE DEF S
<1>3. \A k \in 0 .. Len(nodes) : k \in S
  BY <1>1, <1>2, UpTo
<1> QED BY <1>3 DEF S

-----------------------------------------------------------------------------
(***************************************************************************)
(* Graphs: an initializer or a node of a fresh name leaves all tensors     *)
(* that were there, and adds its own.                                      *)
(***************************************************************************)
Issued(b, name) == name[1] = "in" \/ (name[2] \in Nat /\ name[2] <= b.counter)

GraphOK(b) ==
  /\ Listed(b.nodes) /\ b.counter \in Nat
  /\ \A k \in 1 .. Len(b.nodes) :
       /\ Issued(b, b.nodes[k].out)
       /\ \A i \in DOMAIN b.nodes[k].inputs : Issued(b, b.nodes[k].inputs[i])

LEMMA WithSwap ==
  ASSUME NEW a, NEW b, NEW s, NEW t, NEW known, a # b
  PROVE  With(With(known, b, t), a, s) = With(With(known, a, s), b, t)
BY DEF With

LEMMA ConstFields ==
  ASSUME NEW b, GraphOK(b), NEW tensor, NEW stem
  PROVE  /\ const(b, tensor, stem).nodes = b.nodes
         /\ const(b, tensor, stem).inits = With(b.inits, fresh(b, stem), tensor)
         /\ const(b, tensor, stem).counter = b.counter + 1
         /\ GraphOK(const(b, tensor, stem))
         /\ \A n : Issued(b, n) => Issued(const(b, tensor, stem), n)
         /\ Issued(const(b, tensor, stem), fresh(b, stem))
<1> DEFINE c == const(b, tensor, stem)
<1>1. /\ c.nodes = b.nodes /\ c.counter = b.counter + 1
      /\ c.inits = With(b.inits, fresh(b, stem), tensor)
  BY DEF const
<1> HIDE DEF c
<1>2. \A n : Issued(b, n) => Issued(c, n)
  BY <1>1 DEF Issued, GraphOK
<1>3. Issued(c, fresh(b, stem))
  BY <1>1 DEF Issued, GraphOK, fresh, Name
<1>4. GraphOK(c)
  BY <1>1, <1>2 DEF GraphOK
<1> QED BY <1>1, <1>2, <1>3, <1>4 DEF c

\* In stays as it is when a name that is not asked for is added.
LEMMA ComputedWith ==
  ASSUME NEW known, NEW node, NEW name, NEW tensor,
         node.out # name, \A i \in DOMAIN node.inputs : node.inputs[i] # name
  PROVE  Computed(With(known, name, tensor), node) = With(Computed(known, node), name, tensor)
<1> DEFINE In(k, n) == IF n \in DOMAIN k THEN k[n] ELSE NoTensor
           args(k) == [i \in DOMAIN node.inputs |-> In(k, node.inputs[i])]
           more == With(known, name, tensor)
<1>1. \A n : n # name => In(more, n) = In(known, n)
  BY DEF With
<1>2. args(more) = args(known)
  BY <1>1
<1>3. /\ Computed(more, node) = With(more, node.out, Compute(node.op, args(more)))
      /\ Computed(known, node) = With(known, node.out, Compute(node.op, args(known)))
  BY DEF Computed
<1> HIDE DEF args
<1> QED BY <1>2, <1>3, WithSwap

\* An initializer of a fresh name is one more tensor of the graph.
LEMMA ConstTensors ==
  ASSUME NEW b, GraphOK(b), NEW tensor, NEW stem, stem # "in", NEW inputs
  PROVE  Tensors(const(b, tensor, stem), inputs) = With(Tensors(b, inputs), fresh(b, stem), tensor)
<1> DEFINE name == fresh(b, stem)
           c == const(b, tensor, stem)
<1>1. /\ c.nodes = b.nodes /\ c.inits = With(b.inits, name, tensor)
      /\ ~ Issued(b, name) /\ name[1] # "in"
  BY ConstFields DEF Issued, fresh, Name, GraphOK
<1> HIDE DEF name, c
<1>2. Len(b.nodes) \in Nat
  BY ListedLen DEF GraphOK
<1>3. PICK f : IsRun(f, Given(b, inputs), b.nodes) /\ Tensors(b, inputs) = f[Len(b.nodes)]
  BY <1>2, TensorsRun
<1>4. PICK g : IsRun(g, Given(c, inputs), b.nodes) /\ Tensors(c, inputs) = g[Len(b.nodes)]
  BY <1>1, <1>2, TensorsRun
<1>5. Given(c, inputs) = With(Given(b, inputs), name, tensor)
  BY <1>1 DEF Given, With, Name
<1> DEFINE S == {k \in 0 .. Len(b.nodes) : g[k] = With(f[k], name, tensor)}
<1>6. 0 \in S
  BY <1>2, <1>3, <1>4, <1>5, RunSteps
<1>7. ASSUME NEW k \in 0 .. (Len(b.nodes) - 1), k \in S PROVE k + 1 \in S
  <2>1. (k + 1) - 1 = k /\ k + 1 \in 1 .. Len(b.nodes) /\ g[k] = With(f[k], name, tensor)
    BY <1>2, <1>7
  <2>2. f[k + 1] = Computed(f[k], b.nodes[k + 1]) /\ g[k + 1] = Computed(g[k], b.nodes[k + 1])
    BY <1>2, <1>3, <1>4, <2>1, RunSteps
  <2>3. /\ b.nodes[k + 1].out # name
        /\ \A i \in DOMAIN b.nodes[k + 1].inputs : b.nodes[k + 1].inputs[i] # name
    BY <1>1, <2>1 DEF GraphOK
  <2>4. g[k + 1] = With(f[k + 1], name, tensor)
    BY <2>1, <2>2, <2>3, ComputedWith
  <2> QED BY <2>1, <2>4, <1>2
<1> HIDE DEF S
<1>8. \A k \in 0 .. Len(b.nodes) : k \in S
  BY <1>2, <1>6, <1>7, UpTo
<1>9. Len(b.nodes) \in S
  BY <1>2, <1>8
<1> QED BY <1>3, <1>4, <1>9 DEF S, c, name

\* A node is computed from the graph before it.
LEMMA NodeTensors ==
  ASSUME NEW b, GraphOK(b), NEW op, NEW names, NEW inputs
  PROVE  Tensors(add_node(b, op, names), inputs) =
           Computed(Tensors(b, inputs), [op |-> op, inputs |-> names, out |-> fresh(b, op)])
<1> DEFINE node == [op |-> op, inputs |-> names, out |-> fresh(b, op)]
           c == add_node(b, op, names)
           n == Len(b.nodes)
<1>1. c.nodes = Append(b.nodes, node) /\ c.inits = b.inits
  BY DEF add_node
<1> HIDE DEF node, c
<1>2. n \in Nat /\ Listed(b.nodes)
  BY ListedLen DEF GraphOK
<1>3. Len(c.nodes) = n + 1 /\ c.nodes[n + 1] = node /\ \A k \in 1 .. n : b.nodes[k] = c.nodes[k]
  BY <1>1, <1>2, AppendAny
<1>4. Given(c, inputs) = Given(b, inputs)
  BY <1>1 DEF Given
<1>5. PICK f : IsRun(f, Given(b, inputs), b.nodes) /\ Tensors(b, inputs) = f[n]
  BY <1>2, TensorsRun
<1>6. Len(c.nodes) \in Nat
  BY <1>2, <1>3
<1>7. PICK g : IsRun(g, Given(c, inputs), c.nodes) /\ Tensors(c, inputs) = g[Len(c.nodes)]
  BY <1>6, TensorsRun
<1>8. \A k \in 0 .. n : f[k] = g[k]
  BY <1>2, <1>3, <1>4, <1>5, <1>6, <1>7, RunPrefix
<1>9. g[n + 1] = Computed(g[(n + 1) - 1], c.nodes[n + 1])
  BY <1>2, <1>3, <1>6, <1>7, RunSteps
<1>10. f[n] = g[n] /\ (n + 1) - 1 = n
  BY <1>2, <1>8
<1> QED BY <1>3, <1>5, <1>7, <1>9, <1>10 DEF c, node

-----------------------------------------------------------------------------
(***************************************************************************)
(* Arrays, and what the operators of ONNX make of them.                    *)
(***************************************************************************)
IsGrid(m) ==
  /\ Len(m) \in Nat \ {0} /\ Len(m[1]) \in Nat \ {0}
  /\ m = [i \in 1 .. Len(m) |-> m[i]]
  /\ \A i \in 1 .. Len(m) : m[i] = [j \in 1 .. Len(m[1]) |-> m[i][j]]

IsArray(v) == v.rank \in Nat /\ IsGrid(v.m)

\* m has r rows of c entries.
Tabled(m, r, c) ==
  /\ m = [i \in 1 .. r |-> m[i]]
  /\ \A i \in 1 .. r : m[i] = [j \in 1 .. c |-> m[i][j]]

LEMMA GridIs ==
  ASSUME NEW r \in Nat \ {0}, NEW c \in Nat \ {0}, NEW m, Tabled(m, r, c)
  PROVE  IsGrid(m) /\ Len(m) = r /\ Len(m[1]) = c
<1>1. Len(m) = r /\ Len(m[1]) = c
  BY ListOf DEF Tabled
<1> QED BY <1>1 DEF IsGrid, Tabled

LEMMA ArrayIs ==
  ASSUME NEW v \in Arrays
  PROVE  IsArray(v) /\ v = [rank |-> v.rank, m |-> v.m]
<1>1. v.rank \in Nat /\ v.m \in Seq(Seq(Int)) /\ v = [rank |-> v.rank, m |-> v.m]
  BY DEF Arrays
<1>2. v.m # <<>> /\ \A i \in DOMAIN v.m : v.m[i] # <<>> /\ Len(v.m[i]) = Len(v.m[1])
  BY DEF Arrays
<1>3. Len(v.m) \in Nat \ {0} /\ v.m = [i \in 1 .. Len(v.m) |-> v.m[i]]
  BY <1>1, <1>2
<1>4. \A i \in 1 .. Len(v.m) : v.m[i] \in Seq(Int) /\ v.m[i] # <<>> /\ Len(v.m[i]) = Len(v.m[1])
  BY <1>1, <1>2
<1>5. Len(v.m[1]) \in Nat \ {0}
  BY <1>3, <1>4
<1>6. \A i \in 1 .. Len(v.m) : v.m[i] = [j \in 1 .. Len(v.m[1]) |-> v.m[i][j]]
  BY <1>4
<1> QED BY <1>1, <1>3, <1>5, <1>6 DEF IsArray, IsGrid

LEMMA GridIsValue ==
  ASSUME NEW m, IsGrid(m)
  PROVE  m # Raised
BY DEF IsGrid, Raised

-----------------------------------------------------------------------------
(***************************************************************************)
(* What a name stands for in a graph.                                      *)
(***************************************************************************)
Holds(b, inputs, name, tensor) ==
  /\ Issued(b, name) /\ name \in DOMAIN Tensors(b, inputs)
  /\ Tensors(b, inputs)[name] = tensor

\* A graph that goes on from another one.
GoesOn(b, c, inputs) ==
  GraphOK(c) /\ \A n, t : Holds(b, inputs, n, t) => Holds(c, inputs, n, t)

LEMMA ConstHolds ==
  ASSUME NEW b, GraphOK(b), NEW tensor, NEW stem, stem # "in", NEW inputs
  PROVE  /\ GoesOn(b, const(b, tensor, stem), inputs)
         /\ Holds(const(b, tensor, stem), inputs, fresh(b, stem), tensor)
<1> DEFINE c == const(b, tensor, stem)
           name == fresh(b, stem)
           T == Tensors(b, inputs)
<1>1. /\ GraphOK(c) /\ Issued(c, name) /\ ~ Issued(b, name)
      /\ \A n : Issued(b, n) => Issued(c, n)
  <2>1. ~ Issued(b, name)
    BY DEF Issued, fresh, Name, GraphOK
  <2> HIDE DEF name
  <2> QED BY <2>1, ConstFields DEF name
<1>2. Tensors(c, inputs) = With(T, name, tensor)
  BY ConstTensors
<1> HIDE DEF c, name, T
<1>3. /\ DOMAIN Tensors(c, inputs) = DOMAIN T \union {name}
      /\ Tensors(c, inputs)[name] = tensor
      /\ \A n \in DOMAIN T : n # name => Tensors(c, inputs)[n] = T[n]
  BY <1>2 DEF With
<1>4. Holds(c, inputs, name, tensor)
  BY <1>1, <1>3 DEF Holds
<1>5. ASSUME NEW n, NEW t, Holds(b, inputs, n, t) PROVE Holds(c, inputs, n, t)
  <2>1. Issued(b, n) /\ n \in DOMAIN T /\ T[n] = t
    BY <1>5 DEF Holds, T
  <2> QED BY <1>1, <1>3, <2>1 DEF Holds
<1> QED BY <1>1, <1>4, <1>5 DEF GoesOn, c, name

LEMMA NodeHolds ==
  ASSUME NEW b, GraphOK(b), NEW op, op # "in", NEW inputs,
         NEW names, NEW args, args = [i \in DOMAIN names |-> args[i]],
         \A i \in DOMAIN names : Holds(b, inputs, names[i], args[i])
  PROVE  /\ GoesOn(b, add_node(b, op, names), inputs)
         /\ Holds(add_node(b, op, names), inputs, fresh(b, op), Compute(op, args))
<1> DEFINE c == add_node(b, op, names)
           name == fresh(b, op)
           node == [op |-> op, inputs |-> names, out |-> name]
           T == Tensors(b, inputs)
<1>1. /\ c.nodes = Append(b.nodes, node) /\ c.counter = b.counter + 1
  BY DEF add_node
<1>2. Tensors(c, inputs) = Computed(T, node)
  BY NodeTensors
<1>3. node.op = op /\ node.inputs = names /\ node.out = name
  OBVIOUS
<1>4. name[1] = op /\ name[2] = b.counter + 1 /\ b.counter \in Nat
  BY DEF fresh, Name, GraphOK
<1>5. \A n : Issued(b, n) => Issued(c, n)
  BY <1>1, <1>4 DEF Issued
<1>6. Issued(c, name) /\ ~ Issued(b, name)
  BY <1>1, <1>4 DEF Issued
<1> HIDE DEF c, name, node, T
<1>7. GraphOK(c)
  <2>1. /\ Listed(c.nodes) /\ Len(c.nodes) = Len(b.nodes) + 1 /\ Len(b.nodes) \in Nat
        /\ c.nodes[Len(b.nodes) + 1] = node
        /\ \A k \in 1 .. Len(b.nodes) : c.nodes[k] = b.nodes[k]
    BY <1>1, AppendAny, ListedLen DEF GraphOK
  <2>2. \A i \in DOMAIN node.inputs : Issued(c, node.inputs[i])
    BY <1>3, <1>5 DEF Holds
  <2>3. ASSUME NEW k \in 1 .. Len(c.nodes)
        PROVE  /\ Issued(c, c.nodes[k].out)
               /\ \A i \in DOMAIN c.nodes[k].inputs : Issued(c, c.nodes[k].inputs[i])
    <3>1. CASE k = Len(b.nodes) + 1
      BY <1>3, <1>6, <2>1, <2>2, <3>1
    <3>2. CASE k \in 1 .. Len(b.nodes)
      <4>1. c.nodes[k] = b.nodes[k]
        BY <2>1, <3>2
      <4>2. /\ Issued(b, b.nodes[k].out)
            /\ \A i \in DOMAIN b.nodes[k].inputs : Issued(b, b.nodes[k].inputs[i])
        BY <3>2 DEF GraphOK
      <4> QED BY <1>5, <4>1, <4>2
    <3> QED BY <2>1, <3>1, <3>2
  <2>4. c.counter \in Nat
    BY <1>1, <1>4
  <2> QED BY <2>1, <2>3, <2>4 DEF GraphOK
<1>8. Tensors(c, inputs) = With(T, name, Compute(op, args))
  <2> DEFINE In(n) == IF n \in DOMAIN T THEN T[n] ELSE NoTensor
  <2>1. \A i \in DOMAIN names : In(names[i]) = args[i]
    BY DEF Holds, T
  <2>2. [i \in DOMAIN names |-> In(names[i])] = args
    BY <2>1
  <2>3. Computed(T, node) = With(T, name, Compute(op, [i \in DOMAIN names |-> In(names[i])]))
    BY <1>3 DEF Computed
  <2> QED BY <1>2, <2>2, <2>3
<1>9. /\ DOMAIN Tensors(c, inputs) = DOMAIN T \union {name}
      /\ Tensors(c, inputs)[name] = Compute(op, args)
      /\ \A n \in DOMAIN T : n # name => Tensors(c, inputs)[n] = T[n]
  BY <1>8 DEF With
<1>10. Holds(c, inputs, name, Compute(op, args))
  BY <1>6, <1>9 DEF Holds
<1>11. ASSUME NEW n, NEW t, Holds(b, inputs, n, t) PROVE Holds(c, inputs, n, t)
  <2>1. Issued(b, n) /\ n \in DOMAIN T /\ T[n] = t
    BY <1>11 DEF Holds, T
  <2> QED BY <1>5, <1>6, <1>9, <2>1 DEF Holds
<1> QED BY <1>7, <1>10, <1>11 DEF GoesOn, c, name

LEMMA NodeOfOne ==
  ASSUME NEW b, GraphOK(b), NEW op, op # "in", NEW inputs,
         NEW x, NEW a, Holds(b, inputs, x, a)
  PROVE  /\ GoesOn(b, add_node(b, op, <<x>>), inputs)
         /\ Holds(add_node(b, op, <<x>>), inputs, fresh(b, op), Compute(op, <<a>>))
<1>1. DOMAIN <<x>> = 1 .. 1 /\ <<x>>[1] = x /\ <<a>>[1] = a /\ <<a>> = [i \in 1 .. 1 |-> <<a>>[i]]
  OBVIOUS
<1> QED BY <1>1, NodeHolds

LEMMA NodeOfTwo ==
  ASSUME NEW b, GraphOK(b), NEW op, op # "in", NEW inputs,
         NEW x, NEW a, Holds(b, inputs, x, a), NEW y, NEW e, Holds(b, inputs, y, e)
  PROVE  /\ GoesOn(b, add_node(b, op, <<x, y>>), inputs)
         /\ Holds(add_node(b, op, <<x, y>>), inputs, fresh(b, op), Compute(op, <<a, e>>))
<1> DEFINE names == <<x, y>>
           args == <<a, e>>
<1>1. /\ DOMAIN names = 1 .. 2 /\ names[1] = x /\ names[2] = y
      /\ args[1] = a /\ args[2] = e /\ args = [i \in 1 .. 2 |-> args[i]]
  OBVIOUS
<1> HIDE DEF names, args
<1>2. \A i \in DOMAIN names : Holds(b, inputs, names[i], args[i])
  BY <1>1
<1>3. args = [i \in DOMAIN names |-> args[i]]
  BY <1>1
<1>4. /\ GoesOn(b, add_node(b, op, names), inputs)
      /\ Holds(add_node(b, op, names), inputs, fresh(b, op), Compute(op, args))
  BY <1>2, <1>3, NodeHolds
<1> QED BY <1>4 DEF names, args

-----------------------------------------------------------------------------
(***************************************************************************)
(* The operators that handlers emit are those of the primitives.           *)
(***************************************************************************)
LEMMA MappedIs ==
  ASSUME NEW a, IsArray(a), NEW m, Tabled(m, Len(a.m), Len(a.m[1]))
  PROVE  IsArray([rank |-> a.rank, m |-> m])
<1>1. Len(a.m) \in Nat \ {0} /\ Len(a.m[1]) \in Nat \ {0} /\ a.rank \in Nat
  BY DEF IsArray, IsGrid
<1>2. IsGrid(m)
  BY <1>1, GridIs
<1> QED BY <1>1, <1>2 DEF IsArray

LEMMA ComputeCases ==
  ASSUME NEW args, \A i \in DOMAIN args : args[i].m # Raised, NEW op
  PROVE  /\ op = "MatMul" => Compute(op, args) = MatMul(args[1], args[2])
         /\ op = "Reshape" =>
              Compute(op, args) =
                [rank |-> Len(args[2].m[1]),
                 m |-> RowMajorReshape(args[1].m, ToRows(args[2].m[1]), ToCols(args[2].m[1]))]
         /\ op \in DOMAIN Operator /\ Len(args) # 1 /\ Broadcasts(args[1], args[2]) =>
              Compute(op, args) = Pairwise(Operator[op], args[1], args[2])
<1>1. DOMAIN Operator = {"Add", "Sub", "Mul", "Div", "Max", "Pow",
                         "Tanh", "Sigmoid", "Exp", "Log", "Sqrt"}
  BY DEF Operator
<1>2. op = "MatMul" => Compute(op, args) = MatMul(args[1], args[2])
  BY <1>1 DEF Compute
<1>3. op = "Reshape" =>
        Compute(op, args) =
          [rank |-> Len(args[2].m[1]),
           m |-> RowMajorReshape(args[1].m, ToRows(args[2].m[1]), ToCols(args[2].m[1]))]
  BY <1>1 DEF Compute
<1>4. op \in DOMAIN Operator /\ Len(args) # 1 /\ Broadcasts(args[1], args[2]) =>
        Compute(op, args) = Pairwise(Operator[op], args[1], args[2])
  BY <1>1 DEF Compute
<1> QED BY <1>2, <1>3, <1>4

\* The two arguments of a node are there.
LEMMA Two ==
  ASSUME NEW a, NEW b
  PROVE  /\ DOMAIN <<a, b>> = 1 .. 2 /\ Len(<<a, b>>) = 2
         /\ <<a, b>>[1] = a /\ <<a, b>>[2] = b
         /\ a.m # Raised /\ b.m # Raised => \A i \in DOMAIN <<a, b>> : <<a, b>>[i].m # Raised
OBVIOUS

LEMMA ComputeEach ==
  ASSUME NEW a, IsArray(a), NEW op \in DOMAIN Operator
  PROVE  /\ Compute(op, <<a>>) = Each(a, LAMBDA x : Function(Operator[op], x))
         /\ IsArray(Each(a, LAMBDA x : Function(Operator[op], x)))
<1>1. DOMAIN <<a>> = 1 .. 1 /\ <<a>>[1] = a /\ Len(<<a>>) = 1 /\ a.m # Raised
  BY GridIsValue DEF IsArray
<1>2. op \notin {"Identity", "Neg", "MatMul", "Reshape"}
  BY DEF Operator
<1>3. Compute(op, <<a>>) = Each(a, LAMBDA x : Function(Operator[op], x))
  BY <1>1, <1>2 DEF Compute, Each, Grid
<1>4. IsArray(Each(a, LAMBDA x : Function(Operator[op], x)))
  <2> DEFINE m == Grid(Rows(a.m), Cols(a.m), LAMBDA i, j : Function(Operator[op], a.m[i][j]))
  <2>1. Tabled(m, Len(a.m), Len(a.m[1]))
    BY DEF Tabled, Grid, Rows, Cols
  <2>2. Each(a, LAMBDA x : Function(Operator[op], x)) = [rank |-> a.rank, m |-> m]
    BY DEF Each, Grid
  <2> HIDE DEF m
  <2> QED BY <2>1, <2>2, MappedIs
<1> QED BY <1>3, <1>4

LEMMA ComputeNeg ==
  ASSUME NEW a, IsArray(a)
  PROVE  /\ Compute("Neg", <<a>>) = Each(a, LAMBDA x : (P - x) % P)
         /\ IsArray(Each(a, LAMBDA x : (P - x) % P))
<1>1. DOMAIN <<a>> = 1 .. 1 /\ <<a>>[1] = a /\ Len(<<a>>) = 1 /\ a.m # Raised
  BY GridIsValue DEF IsArray
<1>2. "Neg" \notin DOMAIN Operator
  BY DEF Operator
<1>3. Compute("Neg", <<a>>) = Each(a, LAMBDA x : (P - x) % P)
  BY <1>1, <1>2 DEF Compute, Each, Grid
<1>4. IsArray(Each(a, LAMBDA x : (P - x) % P))
  <2> DEFINE m == Grid(Rows(a.m), Cols(a.m), LAMBDA i, j : (P - a.m[i][j]) % P)
  <2>1. Tabled(m, Len(a.m), Len(a.m[1]))
    BY DEF Tabled, Grid, Rows, Cols
  <2>2. Each(a, LAMBDA x : (P - x) % P) = [rank |-> a.rank, m |-> m]
    BY DEF Each, Grid
  <2> HIDE DEF m
  <2> QED BY <2>1, <2>2, MappedIs
<1> QED BY <1>3, <1>4

LEMMA ComputePair ==
  ASSUME NEW a, IsArray(a), NEW b, IsArray(b), NEW op \in DOMAIN Operator, Broadcasts(a, b)
  PROVE  /\ Compute(op, <<a, b>>) = Pairwise(Operator[op], a, b)
         /\ IsArray(Pairwise(Operator[op], a, b))
<1>1. a.m # Raised /\ b.m # Raised
  BY GridIsValue DEF IsArray
<1>3. Compute(op, <<a, b>>) = Pairwise(Operator[op], a, b)
  <2> DEFINE args == <<a, b>>
  <2>1. args[1] = a /\ args[2] = b /\ Len(args) = 2 /\ \A i \in DOMAIN args : args[i].m # Raised
    BY <1>1, Two
  <2> HIDE DEF args
  <2>2. Compute(op, args) = Pairwise(Operator[op], args[1], args[2])
    BY <2>1, ComputeCases
  <2> QED BY <2>1, <2>2 DEF args
<1>4. IsArray(Pairwise(Operator[op], a, b))
  <2> DEFINE r == Wider(Len(a.m), Len(b.m))
             c == Wider(Len(a.m[1]), Len(b.m[1]))
             m == JaxArith(Operator[op], a.m, b.m)
  <2>1. r \in Nat \ {0} /\ c \in Nat \ {0} /\ Wider(a.rank, b.rank) \in Nat
    BY DEF IsArray, IsGrid, Wider
  <2>2. Tabled(m, r, c)
    BY DEF Tabled, JaxArith, Grid, Rows, Cols
  <2> HIDE DEF m, r, c
  <2>3. IsGrid(m)
    BY <2>1, <2>2, GridIs
  <2> QED BY <2>1, <2>3 DEF Pairwise, IsArray, m
<1> QED BY <1>3, <1>4

\* A power with a scalar exponent is taken entry by entry.
Exponent(y) == [rank |-> 0, m |-> Scalar(y)]
Powers(a, y) == Each(a, LAMBDA x : Power(x, y))

LEMMA ComputePow ==
  ASSUME NEW a, IsArray(a), NEW y
  PROVE  /\ Compute("Pow", <<a, Exponent(y)>>) = Powers(a, y)
         /\ IsArray(Powers(a, y))
<1> DEFINE e == Exponent(y)
<1>1. e.rank = 0 /\ e.m = <<<<y>>>> /\ Len(e.m) = 1 /\ Len(e.m[1]) = 1 /\ e.m[1][1] = y
  BY DEF Scalar, Exponent
<1> HIDE DEF e
<1>2. IsArray(e) /\ Broadcasts(a, e)
  <2>1. Tabled(e.m, 1, 1)
    BY <1>1 DEF Tabled
  <2>2. IsGrid(e.m)
    BY <2>1, GridIs
  <2> QED BY <1>1, <2>2 DEF IsArray, Broadcasts, Rows, Cols
<1>3. Compute("Pow", <<a, e>>) = Pairwise("pow", a, e)
  BY <1>2, ComputePair DEF Operator
<1> DEFINE r == Len(a.m)
           c == Len(a.m[1])
<1>4. r \in Nat \ {0} /\ c \in Nat \ {0} /\ a.rank \in Nat
  BY DEF IsArray, IsGrid
<1>5. Wider(r, 1) = r /\ Wider(c, 1) = c /\ Wider(a.rank, 0) = a.rank
  BY <1>4 DEF Wider
<1>6. JaxArith("pow", a.m, e.m) = [i \in 1 .. r |-> [j \in 1 .. c |-> Power(a.m[i][j], y)]]
  <2>1. \A i \in 1 .. r, j \in 1 .. c : Stretch(a.m, i, j) = a.m[i][j]
    <3> TAKE i \in 1 .. r, j \in 1 .. c
    <3>1. (r = 1 => i = 1) /\ (c = 1 => j = 1)
      <4> HIDE DEF r, c
      <4> QED BY <1>4
    <3> QED BY <3>1 DEF Stretch, Rows, Cols
  <2>2. \A i, j : Stretch(e.m, i, j) = y
    BY <1>1 DEF Stretch, Rows, Cols
  <2>3. \A u, v : Apply("pow", u, v) = Power(u, v)
    BY DEF Apply
  <2>4. JaxArith("pow", a.m, e.m) =
          [i \in 1 .. r |-> [j \in 1 .. c |-> Apply("pow", Stretch(a.m, i, j), Stretch(e.m, i, j))]]
    BY <1>1, <1>5 DEF JaxArith, Grid, Rows, Cols
  <2> QED BY <2>1, <2>2, <2>3, <2>4
<1>7. Pairwise("pow", a, e) = Powers(a, y)
  BY <1>1, <1>5, <1>6 DEF Pairwise, Powers, Each, Grid, Rows, Cols
<1>8. IsArray(Pairwise("pow", a, e))
  BY <1>2, ComputePair DEF Operator
<1> QED BY <1>3, <1>7, <1>8 DEF e

LEMMA TransposeIs ==
  ASSUME NEW a, IsGrid(a)
  PROVE  IsGrid(Transpose(a)) /\ Len(Transpose(a)[1]) = Len(a)
<1> DEFINE m == Transpose(a)
           r == Len(a[1])
           c == Len(a)
<1>1. r \in Nat \ {0} /\ c \in Nat \ {0}
  BY DEF IsGrid
<1>2. Tabled(m, r, c)
  BY DEF Tabled, Transpose, Grid, Rows, Cols
<1> HIDE DEF m, r, c
<1>3. IsGrid(m) /\ Len(m[1]) = c
  BY <1>1, <1>2, GridIs
<1> QED BY <1>3 DEF m, c

\* MatMul contracts the last axis of the left operand with the first of the right.
LEMMA ComputeMatMul ==
  ASSUME NEW a, IsArray(a), NEW b, IsArray(b), NEW lc \in {0, 1},
         lc < a.rank, 0 < b.rank, lc = a.rank - 1,
         (IF lc = 0 THEN Rows(a.m) ELSE Cols(a.m)) = Rows(b.m)
  PROVE  LET v == [rank |-> a.rank + b.rank - 2, m |-> JaxDot(a, b, lc, 0)] IN
         Compute("MatMul", <<a, b>>) = v /\ IsArray(v)
<1> DEFINE A == IF lc = 0 THEN Transpose(a.m) ELSE a.m
           v == [rank |-> a.rank + b.rank - 2, m |-> JaxDot(a, b, lc, 0)]
           R == MatProduct(A, b.m)
           args == <<a, b>>
<1>1. /\ args[1] = a /\ args[2] = b /\ \A i \in DOMAIN args : args[i].m # Raised
      /\ a.m # Raised /\ b.m # Raised
  BY GridIsValue, Two DEF IsArray
<1> HIDE DEF args
<1>2. /\ a.rank \in {1, 2} /\ (lc = 0 <=> a.rank = 1) /\ b.rank \in Nat \ {0}
      /\ a.rank + b.rank - 2 \in Nat
  BY DEF IsArray
<1>3. IsGrid(A) /\ Cols(A) = Rows(b.m)
  <2>1. CASE lc = 0
    <3>1. IsGrid(Transpose(a.m)) /\ Len(Transpose(a.m)[1]) = Len(a.m)
      BY TransposeIs DEF IsArray
    <3> QED BY <2>1, <3>1 DEF Rows, Cols
  <2>2. CASE lc # 0
    BY <2>2 DEF IsArray
  <2> QED BY <2>1, <2>2
<1>4. JaxDot(a, b, lc, 0) = IF a.rank = 1 THEN Transpose(R) ELSE R
  BY DEF JaxDot
<1> HIDE DEF R
<1>5. MatMul(a, b) = [rank |-> a.rank + b.rank - 2, m |-> IF a.rank = 1 THEN Transpose(R) ELSE R]
  <2>1. A = IF a.rank = 1 THEN Transpose(a.m) ELSE a.m
    BY <1>2
  <2>2. ~ (0 \in {a.rank, b.rank} \/ Cols(A) # Rows(b.m))
    BY <1>2, <1>3
  <2> QED BY <2>1, <2>2 DEF MatMul, R
<1>6. Compute("MatMul", args) = MatMul(a, b)
  BY <1>1, ComputeCases
<1>7. IsGrid(IF a.rank = 1 THEN Transpose(R) ELSE R)
  <2> DEFINE r == Len(A)
             c == Len(b.m[1])
  <2>1. r \in Nat \ {0} /\ c \in Nat \ {0}
    BY <1>3 DEF IsArray, IsGrid
  <2>2. Tabled(R, r, c)
    BY DEF Tabled, R, MatProduct, Grid, Rows, Cols
  <2> HIDE DEF r, c
  <2>3. IsGrid(R)
    BY <2>1, <2>2, GridIs
  <2> QED BY <2>3, TransposeIs
<1> HIDE DEF A
<1> QED BY <1>2, <1>4, <1>5, <1>6, <1>7 DEF IsArray, args

LEMMA ComputeReshape ==
  ASSUME NEW a, IsArray(a), NEW shape \in Seq(Nat \ {0}),
         Rows(a.m) * Cols(a.m) = ToRows(shape) * ToCols(shape)
  PROVE  LET v == [rank |-> Len(shape), m |-> RowMajorReshape(a.m, ToRows(shape), ToCols(shape))] IN
         Compute("Reshape", <<a, [rank |-> 1, m |-> <<shape>>]>>) = v /\ IsArray(v)
<1> DEFINE e == [rank |-> 1, m |-> <<shape>>]
           m == RowMajorReshape(a.m, ToRows(shape), ToCols(shape))
<1>1. e.m = <<shape>> /\ e.m[1] = shape /\ e.m # Raised
  BY DEF Raised
<1> HIDE DEF e
<1> DEFINE args == <<a, e>>
<1>2. args[1] = a /\ args[2] = e /\ \A i \in DOMAIN args : args[i].m # Raised
  BY <1>1, GridIsValue, Two DEF IsArray
<1> HIDE DEF args
<1>3. Compute("Reshape", args) = [rank |-> Len(shape), m |-> m]
  BY <1>1, <1>2, ComputeCases
<1>4. IsGrid(m)
  <2> DEFINE r == ToRows(shape)
             c == ToCols(shape)
  <2>1. r \in Nat \ {0} /\ c \in Nat \ {0}
    BY DEF ToRows, ToCols
  <2>2. Tabled(m, r, c)
    <3>1. r * c = Rows(a.m) * Cols(a.m)
      OBVIOUS
    <3> QED BY <3>1 DEF RowMajorReshape, Grid, Tabled
  <2> HIDE DEF m, r, c
  <2> QED BY <2>1, <2>2, GridIs
<1>5. Len(shape) \in Nat
  OBVIOUS
<1> HIDE DEF m
<1> QED BY <1>3, <1>4, <1>5 DEF IsArray, e, m, args

-----------------------------------------------------------------------------
(***************************************************************************)
(* The environments of a walk: each name holds the array of its variable.  *)
(***************************************************************************)
EnvOK(b, inputs, env) ==
  /\ Listed(env)
  /\ \A i \in 1 .. Len(env) : IsArray(env[i]) /\ Holds(b, inputs, env[i].name, Value(env[i]))

GraphInv ==
  /\ GraphOK(builder) /\ Listed(frames)
  /\ \A f \in 1 .. Len(frames) : EnvOK(builder, obs, frames[f])
  /\ export = "walking" => Len(frames) # 0

LEMMA EmptyList == Listed(<<>>) /\ Len(<<>>) = 0
<1>1. <<>> = [i \in 1 .. 0 |-> <<>>[i]]
  OBVIOUS
<1> QED BY <1>1, ListOf

LEMMA EmptyGraph == GraphOK(EmptyBuilder)
BY EmptyList DEF GraphOK, EmptyBuilder

LEMMA EnvGoesOn ==
  ASSUME NEW b, NEW c, NEW inputs, GoesOn(b, c, inputs), NEW env, EnvOK(b, inputs, env)
  PROVE  EnvOK(c, inputs, env)
BY DEF EnvOK, GoesOn

LEMMA GoesOnTwice ==
  ASSUME NEW b, NEW c, NEW d, NEW inputs, GoesOn(b, c, inputs), GoesOn(c, d, inputs)
  PROVE  GoesOn(b, d, inputs)
BY DEF GoesOn

LEMMA BindOK ==
  ASSUME NEW b, NEW inputs, NEW env, EnvOK(b, inputs, env), NEW v, IsArray(v), NEW name,
         Holds(b, inputs, name, [rank |-> v.rank, m |-> v.m])
  PROVE  EnvOK(b, inputs, Bind(env, v, name))
<1> DEFINE e == Var(v.rank, v.m, name)
           more == Bind(env, v, name)
<1>1. more = Append(env, e) /\ Listed(env) /\ Len(env) \in Nat
  BY ListedLen DEF Bind, EnvOK
<1>2. IsArray(e) /\ e.name = name /\ Value(e) = [rank |-> v.rank, m |-> v.m]
  BY DEF Var, Value, IsArray
<1> HIDE DEF e, more
<1>3. /\ Listed(more) /\ Len(more) = Len(env) + 1 /\ more[Len(env) + 1] = e
      /\ \A i \in 1 .. Len(env) : more[i] = env[i]
  BY <1>1, AppendAny
<1>4. ASSUME NEW i \in 1 .. Len(more)
      PROVE  IsArray(more[i]) /\ Holds(b, inputs, more[i].name, Value(more[i]))
  <2>1. CASE i = Len(env) + 1
    BY <1>2, <1>3, <2>1
  <2>2. CASE i \in 1 .. Len(env)
    BY <1>3, <2>2 DEF EnvOK
  <2> QED BY <1>1, <1>3, <2>1, <2>2
<1> QED BY <1>3, <1>4 DEF EnvOK, more

\* The frames of a list, with env in the place of the last one.
WithLast(fs, env) == [fs EXCEPT ![Len(fs)] = env]

LEMMA LastFrame ==
  ASSUME NEW fs, Listed(fs), Len(fs) # 0, NEW env
  PROVE  LET more == WithLast(fs, env) IN
         /\ Listed(more) /\ Len(more) = Len(fs) /\ more[Len(fs)] = env
         /\ \A i \in 1 .. (Len(fs) - 1) : more[i] = fs[i]
<1> DEFINE more == WithLast(fs, env)
<1>1. Len(fs) \in Nat \ {0} /\ DOMAIN fs = 1 .. Len(fs)
  BY ListedLen
<1>2. more = [i \in 1 .. Len(fs) |-> IF i = Len(fs) THEN env ELSE fs[i]]
  BY <1>1 DEF WithLast
<1> HIDE DEF more
<1>3. more[Len(fs)] = env /\ \A i \in 1 .. (Len(fs) - 1) : more[i] = fs[i]
  <2> DEFINE n == Len(fs)
  <2>1. n \in 1 .. n /\ \A i \in 1 .. (n - 1) : i \in 1 .. n /\ i # n
    <3> HIDE DEF n
    <3>1. n \in Nat \ {0}
      BY <1>1 DEF n
    <3> QED BY <3>1
  <2>2. \A i \in 1 .. n : more[i] = IF i = n THEN env ELSE fs[i]
    BY <1>2
  <2> HIDE DEF n
  <2>3. more[n] = env /\ \A i \in 1 .. (n - 1) : more[i] = fs[i]
    BY <2>1, <2>2
  <2> QED BY <2>3 DEF n
<1>4. more = [i \in 1 .. Len(fs) |-> more[i]]
  BY <1>2
<1>5. Listed(more) /\ Len(more) = Len(fs)
  BY <1>1, <1>4, ListOf
<1> QED BY <1>3, <1>5 DEF more

LEMMA StopOK ==
  ASSUME NEW how, how # "walking", Stop(how)
  PROVE  GraphInv'
<1>1. GraphOK(builder)'
  BY EmptyGraph DEF Stop
<1>2. frames' = <<>> /\ export' # "walking"
  BY DEF Stop
<1> QED BY <1>1, <1>2, EmptyList DEF GraphInv

\* What a handler answers is a graph that goes on, and v under the name in it.
Means(ans, v) ==
  /\ ans.kind = "emitted" /\ IsArray(v) /\ GoesOn(builder, ans.b, obs)
  /\ Holds(ans.b, obs, ans.name, [rank |-> v.rank, m |-> v.m])

LEMMA WalkOK ==
  ASSUME GraphInv, export = "walking", NEW prim, NEW ans, NEW v,
         ans.kind = "CoverageError" \/ Means(ans, v), Walk(prim, ans, v)
  PROVE  GraphInv'
<1>1. CASE Means(ans, v)
  <2> DEFINE last == Bind(Env, v, ans.name)
  <2>1. /\ builder' = ans.b /\ obs' = obs /\ export' = export
        /\ frames' = WithLast(frames, last)
    BY <1>1 DEF Walk, Env, WithLast, Means
  <2>2. /\ Listed(frames) /\ Len(frames) # 0 /\ Len(frames) \in Nat
        /\ \A f \in 1 .. Len(frames) : EnvOK(builder, obs, frames[f])
    BY ListedLen DEF GraphInv
  <2>3. \A f \in 1 .. Len(frames) : EnvOK(ans.b, obs, frames[f])
    BY <1>1, <2>2, EnvGoesOn DEF Means
  <2>4. EnvOK(ans.b, obs, last)
    BY <1>1, <2>2, <2>3, BindOK DEF Env, Means
  <2> HIDE DEF last
  <2>5. /\ Listed(frames') /\ Len(frames') = Len(frames) /\ frames'[Len(frames)] = last
        /\ \A i \in 1 .. (Len(frames) - 1) : frames'[i] = frames[i]
    BY <2>1, <2>2, LastFrame
  <2>6. \A f \in 1 .. Len(frames') : EnvOK(ans.b, obs, frames'[f])
    BY <2>2, <2>3, <2>4, <2>5
  <2>7. GraphOK(ans.b)
    BY <1>1 DEF GoesOn, Means
  <2> QED BY <2>1, <2>2, <2>5, <2>6, <2>7 DEF GraphInv
<1>2. CASE ans.kind = "CoverageError"
  BY <1>2, StopOK DEF Walk
<1> QED BY <1>1, <1>2

LEMMA OfEnv ==
  ASSUME GraphInv, export = "walking", NEW v \in ToSet(Env)
  PROVE  /\ IsArray(v) /\ Holds(builder, obs, v.name, Value(v))
         /\ IsArray(Value(v)) /\ Value(v).rank = v.rank /\ Value(v).m = v.m
<1>1. Len(frames) \in 1 .. Len(frames) /\ EnvOK(builder, obs, Env)
  BY ListedLen DEF GraphInv, Env
<1>2. PICK i \in DOMAIN Env : v = Env[i]
  BY DEF ToSet
<1>3. i \in 1 .. Len(Env)
  BY <1>1, <1>2, ListedLen DEF EnvOK
<1> QED BY <1>1, <1>2, <1>3 DEF EnvOK, Value, IsArray

LEMMA ResolveOK ==
  ASSUME GraphInv, export = "walking", NEW o \in Operands, NEW b, GraphOK(b), GoesOn(builder, b, obs)
  PROVE  LET x == _resolve(b, o) IN
         /\ IsArray(o.v) /\ GoesOn(b, x.b, obs)
         /\ Holds(x.b, obs, x.name, [rank |-> o.v.rank, m |-> o.v.m])
<1>1. \/ o.lit = FALSE /\ o.v \in ToSet(Env)
      \/ o.lit = TRUE /\ o.v \in Literals
  BY DEF Operands
<1>2. CASE o.lit = FALSE /\ o.v \in ToSet(Env)
  <2>1. _resolve(b, o) = [b |-> b, name |-> o.v.name]
    BY <1>2 DEF _resolve
  <2>2. IsArray(o.v) /\ Holds(builder, obs, o.v.name, Value(o.v))
    BY <1>2, OfEnv
  <2> QED BY <2>1, <2>2 DEF GoesOn, Value
<1>3. CASE o.lit = TRUE /\ o.v \in Literals
  <2>1. _resolve(b, o) = [b |-> const(b, o.v, "lit"), name |-> fresh(b, "lit")]
    BY <1>3 DEF _resolve
  <2>2. IsArray(o.v) /\ o.v = [rank |-> o.v.rank, m |-> o.v.m]
    BY <1>3, ArrayIs, ExportAssumption
  <2>3. /\ GoesOn(b, const(b, o.v, "lit"), obs)
        /\ Holds(const(b, o.v, "lit"), obs, fresh(b, "lit"), o.v)
    BY ConstHolds
  <2> QED BY <2>1, <2>2, <2>3
<1> QED BY <1>1, <1>2, <1>3

-----------------------------------------------------------------------------
(***************************************************************************)
(* One lemma for each equation of the walk.                                *)
(***************************************************************************)
LEMMA Emits ==
  ASSUME NEW b, NEW op, NEW names
  PROVE  /\ Node(b, op, names).kind = "emitted"
         /\ Node(b, op, names).b = add_node(b, op, names)
         /\ Node(b, op, names).name = fresh(b, op)
BY DEF Node, Emitted

\* The operator that a handler emits is that of the primitive.
LEMMA UnaryHandlers ==
  ASSUME NEW prim \in Elementwise \intersect ToSet(Functions)
  PROVE  /\ _HANDLERS[prim] \in DOMAIN Operator /\ _HANDLERS[prim] # "in"
         /\ Operator[_HANDLERS[prim]] = prim
<1>1. prim \in {"sin", "cos", "tan", "exp", "log", "sqrt", "tanh", "logistic"}
  BY DEF ToSet, Functions
<1>2. prim \in {"add", "sub", "mul", "div", "max", "tanh", "logistic", "exp", "log", "sqrt"}
  BY HandlerAssumption DEF _HANDLERS
<1>3. prim \in {"exp", "log", "sqrt", "tanh", "logistic"}
  BY <1>1, <1>2
<1>4. DOMAIN Operator = {"Add", "Sub", "Mul", "Div", "Max", "Pow",
                         "Tanh", "Sigmoid", "Exp", "Log", "Sqrt"}
  BY DEF Operator
<1> QED BY <1>3, <1>4 DEF _HANDLERS, Operator

LEMMA BinaryHandlers ==
  ASSUME NEW prim \in {"add", "sub", "mul", "div", "max"}
  PROVE  /\ _HANDLERS[prim] \in DOMAIN Operator /\ _HANDLERS[prim] # "in"
         /\ Operator[_HANDLERS[prim]] = prim
<1>1. DOMAIN Operator = {"Add", "Sub", "Mul", "Div", "Max", "Pow",
                         "Tanh", "Sigmoid", "Exp", "Log", "Sqrt"}
  BY DEF Operator
<1> QED BY <1>1 DEF _HANDLERS, Operator

\* A unary node emitted for v computes Compute(op, <<Value(v)>>).
LEMMA UnaryNode ==
  ASSUME GraphInv, export = "walking", NEW v \in ToSet(Env), NEW op, op # "in"
  PROVE  LET ans == Node(builder, op, <<v.name>>) IN
         /\ ans.kind = "emitted" /\ GoesOn(builder, ans.b, obs)
         /\ Holds(ans.b, obs, ans.name, Compute(op, <<Value(v)>>))
<1>1. Holds(builder, obs, v.name, Value(v)) /\ GraphOK(builder)
  BY OfEnv DEF GraphInv
<1>2. /\ GoesOn(builder, add_node(builder, op, <<v.name>>), obs)
      /\ Holds(add_node(builder, op, <<v.name>>), obs, fresh(builder, op), Compute(op, <<Value(v)>>))
  BY <1>1, NodeOfOne
<1> QED BY <1>2, Emits

LEMMA SameBuilder ==
  ASSUME GraphInv PROVE GoesOn(builder, builder, obs)
BY DEF GoesOn, GraphInv

LEMMA WalkElementwise ==
  ASSUME GraphInv, export = "walking", NEW v \in ToSet(Env),
         NEW prim \in Elementwise \intersect ToSet(Functions),
         Walk(prim, _unary(builder, prim, v.name), Each(v, LAMBDA e : Function(prim, e)))
  PROVE  GraphInv'
<1> DEFINE op == _HANDLERS[prim]
           r == Each(v, LAMBDA e : Function(prim, e))
           ans == _unary(builder, prim, v.name)
           a == Value(v)
<1>1. op \in DOMAIN Operator /\ op # "in" /\ Operator[op] = prim
  BY UnaryHandlers
<1>2. IsArray(a) /\ a.rank = v.rank /\ a.m = v.m
  BY OfEnv
<1> HIDE DEF op, a
<1>3. Compute(op, <<a>>) = r /\ IsArray(r) /\ r = [rank |-> r.rank, m |-> r.m]
  <2>1. Each(a, LAMBDA e : Function(Operator[op], e)) = r
    BY <1>1, <1>2 DEF Each, Grid
  <2>2. r = [rank |-> r.rank, m |-> r.m]
    BY DEF Each
  <2> QED BY <1>1, <1>2, <2>1, <2>2, ComputeEach
<1>4. ans = Node(builder, op, <<v.name>>)
  BY DEF _unary, op
<1>5. /\ ans.kind = "emitted" /\ GoesOn(builder, ans.b, obs)
      /\ Holds(ans.b, obs, ans.name, Compute(op, <<a>>))
  BY <1>1, <1>4, UnaryNode DEF a
<1>6. Walk(prim, ans, r)
  OBVIOUS
<1> HIDE DEF r, ans
<1>7. Means(ans, r)
  BY <1>3, <1>5 DEF Means
<1> QED BY <1>6, <1>7, WalkOK

LEMMA WalkNeg ==
  ASSUME GraphInv, export = "walking", NEW v \in ToSet(Env),
         Walk("neg", _neg(builder, v.name), Each(v, LAMBDA e : (P - e) % P))
  PROVE  GraphInv'
<1> DEFINE r == Each(v, LAMBDA e : (P - e) % P)
           ans == _neg(builder, v.name)
           a == Value(v)
<1>1. IsArray(a) /\ a.rank = v.rank /\ a.m = v.m
  BY OfEnv
<1> HIDE DEF a
<1>2. Compute("Neg", <<a>>) = r /\ IsArray(r) /\ r = [rank |-> r.rank, m |-> r.m]
  <2>1. Each(a, LAMBDA e : (P - e) % P) = r
    BY <1>1 DEF Each, Grid
  <2>2. r = [rank |-> r.rank, m |-> r.m]
    BY DEF Each
  <2> QED BY <1>1, <2>1, <2>2, ComputeNeg
<1>3. /\ ans.kind = "emitted" /\ GoesOn(builder, ans.b, obs)
      /\ Holds(ans.b, obs, ans.name, Compute("Neg", <<a>>))
  BY UnaryNode DEF a, _neg
<1>4. Walk("neg", ans, r)
  OBVIOUS
<1> HIDE DEF r, ans
<1>5. Means(ans, r)
  BY <1>2, <1>3 DEF Means
<1> QED BY <1>4, <1>5, WalkOK

LEMMA WalkPower ==
  ASSUME GraphInv, export = "walking", NEW v \in ToSet(Env), NEW y,
         Walk("integer_pow", _integer_pow(builder, v.name, y), Powers(v, y))
  PROVE  GraphInv'
<1> DEFINE r == Powers(v, y)
           ans == _integer_pow(builder, v.name, y)
           a == Value(v)
           w == Exponent(y)
           c == const(builder, w, "pow_exp")
           n == fresh(builder, "pow_exp")
<1>1. IsArray(a) /\ a.rank = v.rank /\ a.m = v.m /\ Holds(builder, obs, v.name, a) /\ GraphOK(builder)
  BY OfEnv DEF GraphInv
<1>2. GoesOn(builder, c, obs) /\ Holds(c, obs, n, w)
  BY <1>1, ConstHolds
<1>3. ans = Node(c, "Pow", <<v.name, n>>)
  BY DEF _integer_pow, Exponent
<1> HIDE DEF a
<1>4. Compute("Pow", <<a, w>>) = r /\ IsArray(r) /\ r = [rank |-> r.rank, m |-> r.m]
  <2>1. Powers(a, y) = r
    BY <1>1 DEF Powers, Each, Grid
  <2>2. r = [rank |-> r.rank, m |-> r.m]
    BY DEF Powers, Each
  <2>3. Compute("Pow", <<a, w>>) = Powers(a, y) /\ IsArray(Powers(a, y))
    BY <1>1, ComputePow
  <2> QED BY <2>1, <2>2, <2>3
<1>5. Walk("integer_pow", ans, r)
  OBVIOUS
<1> HIDE DEF r, ans, w, c, n
<1>6. GraphOK(c) /\ Holds(c, obs, v.name, a)
  BY <1>1, <1>2 DEF GoesOn
<1>7. /\ GoesOn(c, ans.b, obs) /\ ans.kind = "emitted"
      /\ Holds(ans.b, obs, ans.name, Compute("Pow", <<a, w>>))
  BY <1>2, <1>3, <1>6, NodeOfTwo, Emits
<1>8. GoesOn(builder, ans.b, obs)
  BY <1>2, <1>7, GoesOnTwice
<1>9. Means(ans, r)
  BY <1>4, <1>7, <1>8 DEF Means
<1> QED BY <1>5, <1>9, WalkOK

LEMMA WalkConvert ==
  ASSUME GraphInv, export = "walking", NEW v \in ToSet(Env),
         Walk("convert_element_type", _convert_element_type(builder, v.name), Value(v))
  PROVE  GraphInv'
<1> DEFINE r == Value(v)
           ans == _convert_element_type(builder, v.name)
<1>1. IsArray(r) /\ Holds(builder, obs, v.name, r) /\ r = [rank |-> r.rank, m |-> r.m]
  BY OfEnv DEF Value
<1>2. ans.kind = "emitted" /\ ans.b = builder /\ ans.name = v.name
  BY DEF _convert_element_type, Emitted
<1>3. Walk("convert_element_type", ans, r)
  OBVIOUS
<1> HIDE DEF r, ans
<1>4. Means(ans, r)
  BY <1>1, <1>2, SameBuilder DEF Means
<1> QED BY <1>3, <1>4, WalkOK

LEMMA WalkUnaryOK ==
  ASSUME GraphInv, export = "walking", MlpOnly, WalkUnary
  PROVE  GraphInv'
<1>1. PICK v \in ToSet(Env) :
        \/ \E prim \in Elementwise \intersect ToSet(Functions) :
             Walk(prim, _unary(builder, prim, v.name), Each(v, LAMBDA e : Function(prim, e)))
        \/ Walk("neg", _neg(builder, v.name), Each(v, LAMBDA e : (P - e) % P))
        \/ \E y \in Exponents :
             Walk("integer_pow", _integer_pow(builder, v.name, y), Powers(v, y))
        \/ Walk("convert_element_type", _convert_element_type(builder, v.name), Value(v))
  BY Zenon DEF WalkUnary, Mlp, Powers
<1>2. CASE \E prim \in Elementwise \intersect ToSet(Functions) :
             Walk(prim, _unary(builder, prim, v.name), Each(v, LAMBDA e : Function(prim, e)))
  BY <1>2, WalkElementwise
<1>3. CASE Walk("neg", _neg(builder, v.name), Each(v, LAMBDA e : (P - e) % P))
  BY <1>3, WalkNeg
<1>4. CASE \E y \in Exponents :
             Walk("integer_pow", _integer_pow(builder, v.name, y), Powers(v, y))
  BY <1>4, WalkPower
<1>5. CASE Walk("convert_element_type", _convert_element_type(builder, v.name), Value(v))
  BY <1>5, WalkConvert
<1> QED BY <1>1, <1>2, <1>3, <1>4, <1>5

LEMMA WalkPair ==
  ASSUME GraphInv, export = "walking", NEW o \in Operands, NEW p \in Operands,
         NEW prim \in {"add", "sub", "mul", "div", "max"}, Broadcasts(o.v, p.v),
         NEW x, x = _resolve(builder, o), NEW y, y = _resolve(x.b, p),
         Walk(prim, _binary(y.b, prim, x.name, y.name), Pairwise(prim, o.v, p.v))
  PROVE  GraphInv'
<1> DEFINE op == _HANDLERS[prim]
           r == Pairwise(prim, o.v, p.v)
           ans == _binary(y.b, prim, x.name, y.name)
           a == [rank |-> o.v.rank, m |-> o.v.m]
           e == [rank |-> p.v.rank, m |-> p.v.m]
<1>1. op \in DOMAIN Operator /\ op # "in" /\ Operator[op] = prim
  BY BinaryHandlers
<1>2. /\ a.rank = o.v.rank /\ a.m = o.v.m /\ e.rank = p.v.rank /\ e.m = p.v.m
  OBVIOUS
<1>3. GraphOK(builder) /\ GoesOn(builder, builder, obs)
  BY SameBuilder DEF GraphInv
<1>4. IsArray(o.v) /\ GoesOn(builder, x.b, obs) /\ Holds(x.b, obs, x.name, a)
  BY <1>3, ResolveOK
<1>5. GraphOK(x.b)
  BY <1>4 DEF GoesOn
<1>6. IsArray(p.v) /\ GoesOn(x.b, y.b, obs) /\ Holds(y.b, obs, y.name, e)
  BY <1>4, <1>5, ResolveOK
<1>7. Broadcasts(a, e)
  BY DEF Broadcasts
<1> HIDE DEF op, a, e
<1>8. IsArray(a) /\ IsArray(e)
  BY <1>2, <1>4, <1>6 DEF IsArray
<1>9. Compute(op, <<a, e>>) = r /\ IsArray(r) /\ r = [rank |-> r.rank, m |-> r.m]
  <2>1. Pairwise(prim, a, e) = r
    BY <1>2 DEF Pairwise
  <2>2. r = [rank |-> r.rank, m |-> r.m]
    BY DEF Pairwise
  <2> HIDE DEF r
  <2>3. Compute(op, <<a, e>>) = Pairwise(Operator[op], a, e) /\ IsArray(Pairwise(Operator[op], a, e))
    BY <1>1, <1>7, <1>8, ComputePair
  <2> QED BY <1>1, <2>1, <2>2, <2>3
<1>10. ans = Node(y.b, op, <<x.name, y.name>>)
  BY DEF _binary, op
<1>11. Walk(prim, ans, r)
  OBVIOUS
<1> HIDE DEF r, ans
<1>12. GraphOK(y.b) /\ Holds(y.b, obs, x.name, a)
  BY <1>4, <1>6 DEF GoesOn
<1>13. /\ GoesOn(y.b, add_node(y.b, op, <<x.name, y.name>>), obs)
       /\ Holds(add_node(y.b, op, <<x.name, y.name>>), obs, fresh(y.b, op), Compute(op, <<a, e>>))
  BY <1>1, <1>6, <1>12, NodeOfTwo
<1>14. ans.kind = "emitted" /\ GoesOn(y.b, ans.b, obs) /\ Holds(ans.b, obs, ans.name, Compute(op, <<a, e>>))
  BY <1>10, <1>13, Emits
<1>15. GoesOn(builder, ans.b, obs)
  BY <1>4, <1>6, <1>14, GoesOnTwice
<1>16. Means(ans, r)
  BY <1>9, <1>14, <1>15 DEF Means
<1> QED BY <1>11, <1>16, WalkOK

LEMMA WalkBinaryOK ==
  ASSUME GraphInv, export = "walking", WalkBinary
  PROVE  GraphInv'
<1>1. PICK o \in Operands, p \in Operands, prim \in Elementwise \intersect {"add", "sub", "mul", "div", "max"} :
        LET x == _resolve(builder, o)
            y == _resolve(x.b, p)
        IN Broadcasts(o.v, p.v) /\ Walk(prim, _binary(y.b, prim, x.name, y.name), Pairwise(prim, o.v, p.v))
  BY DEF WalkBinary
<1> QED BY <1>1, WalkPair

LEMMA WalkDotOK ==
  ASSUME GraphInv, export = "walking", MlpOnly, WalkDot
  PROVE  GraphInv'
<1>1. PICK a \in ToSet(Env), b \in ToSet(Env), lc \in {0, 1}, rc \in {0, 1} :
        LET Extent(v, axis) == IF axis = 0 THEN Rows(v.m) ELSE Cols(v.m)
        IN /\ lc < a.rank /\ rc < b.rank /\ Extent(a, lc) = Extent(b, rc)
           /\ Mlp(lc = a.rank - 1)
           /\ Walk("dot_general", _dot_general(builder, a.name, b.name, rc, FALSE),
                   [rank |-> a.rank + b.rank - 2, m |-> JaxDot(a, b, lc, rc)])
  BY DEF WalkDot
<1>5. lc = a.rank - 1
  BY <1>1 DEF Mlp
<1> DEFINE ans == _dot_general(builder, a.name, b.name, rc, FALSE)
           r == [rank |-> a.rank + b.rank - 2, m |-> JaxDot(a, b, lc, rc)]
<1>2. Walk("dot_general", ans, r)
  BY <1>1
<1>3. CASE rc # 0
  <2>1. ans.kind = "CoverageError"
    BY <1>3 DEF _dot_general, Refused
  <2> HIDE DEF ans, r
  <2> QED BY <1>2, <2>1, WalkOK
<1>4. CASE rc = 0
  <2> DEFINE c == Value(a)
             d == Value(b)
  <2>1. /\ Holds(builder, obs, a.name, c) /\ Holds(builder, obs, b.name, d) /\ GraphOK(builder)
        /\ IsArray(c) /\ IsArray(d) /\ c.rank = a.rank /\ c.m = a.m /\ d.rank = b.rank /\ d.m = b.m
    BY OfEnv DEF GraphInv
  <2>2. r = [rank |-> c.rank + d.rank - 2, m |-> JaxDot(c, d, lc, 0)]
    BY <1>4, <2>1 DEF JaxDot
  <2>3. /\ lc < c.rank /\ 0 < d.rank /\ lc = c.rank - 1
        /\ (IF lc = 0 THEN Rows(c.m) ELSE Cols(c.m)) = Rows(d.m)
    BY <1>1, <1>4, <1>5, <2>1
  <2>4. ans = Node(builder, "MatMul", <<a.name, b.name>>)
    BY <1>4 DEF _dot_general
  <2>5. r = [rank |-> r.rank, m |-> r.m]
    OBVIOUS
  <2> HIDE DEF ans, r, c, d
  <2>6. Compute("MatMul", <<c, d>>) = r /\ IsArray(r)
    BY <2>1, <2>2, <2>3, ComputeMatMul
  <2>7. /\ GoesOn(builder, add_node(builder, "MatMul", <<a.name, b.name>>), obs)
        /\ Holds(add_node(builder, "MatMul", <<a.name, b.name>>), obs, fresh(builder, "MatMul"),
                 Compute("MatMul", <<c, d>>))
    BY <2>1, NodeOfTwo
  <2>8. Means(ans, r)
    BY <2>4, <2>5, <2>6, <2>7, Emits DEF Means
  <2> QED BY <1>2, <2>8, WalkOK
<1> QED BY <1>3, <1>4

LEMMA WalkBatchedOK ==
  ASSUME GraphInv, export = "walking", WalkBatchedDot
  PROVE  GraphInv'
<1>1. PICK a \in ToSet(Env), b \in ToSet(Env) :
        Walk("dot_general", _dot_general(builder, a.name, b.name, 0, TRUE), NoTensor)
  BY DEF WalkBatchedDot
<1>2. _dot_general(builder, a.name, b.name, 0, TRUE).kind = "CoverageError"
  BY DEF _dot_general, Refused
<1> QED BY <1>1, <1>2, WalkOK

LEMMA WalkReshapeOK ==
  ASSUME GraphInv, export = "walking", WalkReshape
  PROVE  GraphInv'
<1>1. PICK v \in ToSet(Env), shape \in NewSizes :
        /\ Rows(v.m) * Cols(v.m) = ToRows(shape) * ToCols(shape)
        /\ Walk("reshape", _reshape(builder, v.name, shape),
                [rank |-> Len(shape), m |-> RowMajorReshape(v.m, ToRows(shape), ToCols(shape))])
  BY DEF WalkReshape
<1> DEFINE ans == _reshape(builder, v.name, shape)
           r == [rank |-> Len(shape), m |-> RowMajorReshape(v.m, ToRows(shape), ToCols(shape))]
           a == Value(v)
           e == [rank |-> 1, m |-> <<shape>>]
           c == const(builder, e, "reshape_shape")
           n == fresh(builder, "reshape_shape")
<1>2. Walk("reshape", ans, r) /\ shape \in Seq(Nat \ {0})
  BY <1>1, ExportAssumption
<1>3. IsArray(a) /\ a.m = v.m /\ Holds(builder, obs, v.name, a) /\ GraphOK(builder)
  BY OfEnv DEF GraphInv
<1>4. GoesOn(builder, c, obs) /\ Holds(c, obs, n, e)
  BY <1>3, ConstHolds
<1>5. ans = Node(c, "Reshape", <<v.name, n>>)
  BY DEF _reshape
<1>6. Compute("Reshape", <<a, e>>) = r /\ IsArray(r)
  <2> HIDE DEF a
  <2> QED BY <1>1, <1>2, <1>3, ComputeReshape
<1>7. r = [rank |-> r.rank, m |-> r.m]
  OBVIOUS
<1> HIDE DEF ans, r, a, e, c, n
<1>8. GraphOK(c) /\ Holds(c, obs, v.name, a)
  BY <1>3, <1>4 DEF GoesOn
<1>9. /\ GoesOn(c, ans.b, obs) /\ ans.kind = "emitted"
      /\ Holds(ans.b, obs, ans.name, Compute("Reshape", <<a, e>>))
  BY <1>4, <1>5, <1>8, NodeOfTwo, Emits
<1>10. GoesOn(builder, ans.b, obs)
  BY <1>4, <1>9, GoesOnTwice
<1>11. Means(ans, r)
  BY <1>6, <1>7, <1>9, <1>10 DEF Means
<1> QED BY <1>2, <1>11, WalkOK

-----------------------------------------------------------------------------
(***************************************************************************)
(* Calls, and the beginning of an export.                                  *)
(***************************************************************************)
LEMMA ToSeqOfOne ==
  ASSUME NEW i
  PROVE  SetToSeq({}) = <<>> /\ SetToSeq({i}) # <<>> /\ SetToSeq({i})[1] = i
<1>1. Cardinality({}) = 0 /\ Cardinality({i}) = 1
  BY FS_EmptySet, FS_Singleton
<1>2. SetToSeq({}) = <<>>
  <2>1. \A f \in [1 .. 0 -> {}] : f = <<>>
    OBVIOUS
  <2>2. <<>> \in [1 .. 0 -> {}] /\ IsInjective(<<>>)
    BY DEF IsInjective
  <2>3. SetToSeq({}) \in [1 .. 0 -> {}]
    BY <1>1, <2>2 DEF SetToSeq
  <2> QED BY <2>1, <2>3
<1>3. SetToSeq({i}) \in [1 .. 1 -> {i}]
  <2> DEFINE g == [k \in 1 .. 1 |-> i]
  <2>1. g \in [1 .. 1 -> {i}] /\ IsInjective(g)
    BY DEF IsInjective
  <2> HIDE DEF g
  <2> QED BY <1>1, <2>1 DEF SetToSeq
<1> QED BY <1>2, <1>3

\* One more frame.
LEMMA EnterFrame ==
  ASSUME GraphInv, export = "walking", NEW b, NEW env, GoesOn(builder, b, obs), EnvOK(b, obs, env),
         builder' = b, frames' = Append(frames, env), UNCHANGED <<obs, export>>
  PROVE  GraphInv'
<1>1. /\ Listed(frames) /\ Len(frames) \in Nat
      /\ \A f \in 1 .. Len(frames) : EnvOK(builder, obs, frames[f])
  BY ListedLen DEF GraphInv
<1>2. \A f \in 1 .. Len(frames) : EnvOK(b, obs, frames[f])
  BY <1>1, EnvGoesOn
<1>3. /\ Listed(frames') /\ Len(frames') = Len(frames) + 1 /\ frames'[Len(frames) + 1] = env
      /\ \A f \in 1 .. Len(frames) : frames'[f] = frames[f]
  BY <1>1, AppendAny
<1>4. ASSUME NEW f \in 1 .. Len(frames') PROVE EnvOK(b, obs, frames'[f])
  <2>1. CASE f = Len(frames) + 1
    BY <1>3, <2>1
  <2>2. CASE f \in 1 .. Len(frames)
    BY <1>2, <1>3, <2>2
  <2> QED BY <1>1, <1>3, <2>1, <2>2
<1>5. GraphOK(b) /\ Len(frames') # 0
  BY <1>1, <1>3 DEF GoesOn
<1> QED BY <1>3, <1>4, <1>5 DEF GraphInv

LEMMA SingleEnv ==
  ASSUME NEW b, NEW inputs, NEW v, IsArray(v), NEW name,
         Holds(b, inputs, name, [rank |-> v.rank, m |-> v.m])
  PROVE  EnvOK(b, inputs, <<Var(v.rank, v.m, name)>>)
<1> DEFINE e == Var(v.rank, v.m, name)
<1>1. IsArray(e) /\ e.name = name /\ Value(e) = [rank |-> v.rank, m |-> v.m]
  BY DEF Var, Value, IsArray
<1> HIDE DEF e
<1>2. <<e>> = [i \in 1 .. 1 |-> <<e>>[i]] /\ <<e>>[1] = e
  OBVIOUS
<1>3. Listed(<<e>>) /\ Len(<<e>>) = 1
  BY <1>2, ListOf
<1>4. EnvOK(b, inputs, <<e>>)
  BY <1>1, <1>2, <1>3 DEF EnvOK
<1> QED BY <1>4 DEF e

LEMMA EnterCallOK ==
  ASSUME GraphInv, export = "walking", EnterCall
  PROVE  GraphInv'
<1>1. PICK o \in Operands, closes \in {{}} \union {{i} : i \in DOMAIN Params} :
        LET x == _resolve(builder, o)
            own == SetToSeq(closes)
            env == <<Var(o.v.rank, o.v.m, x.name)>>
        IN /\ builder' = IF own = <<>> THEN x.b ELSE const(x.b, Params[own[1]], "param")
           /\ frames' = Append(frames,
                               IF own = <<>> THEN env
                               ELSE Bind(env, Params[own[1]], fresh(x.b, "param")))
  BY DEF EnterCall
<1> DEFINE x == _resolve(builder, o)
           env == <<Var(o.v.rank, o.v.m, x.name)>>
<1>2. UNCHANGED <<obs, export>>
  BY DEF EnterCall
<1>3. /\ IsArray(o.v) /\ GoesOn(builder, x.b, obs)
      /\ Holds(x.b, obs, x.name, [rank |-> o.v.rank, m |-> o.v.m])
  BY ResolveOK, SameBuilder DEF GraphInv
<1>4. EnvOK(x.b, obs, env)
  BY <1>3, SingleEnv
<1>5. CASE closes = {}
  <2>1. builder' = x.b /\ frames' = Append(frames, env)
    BY <1>1, <1>5, ToSeqOfOne
  <2> HIDE DEF x, env
  <2> QED BY <1>2, <1>3, <1>4, <2>1, EnterFrame
<1>6. ASSUME NEW i \in DOMAIN Params, closes = {i} PROVE GraphInv'
  <2> DEFINE p == Params[i]
             b == const(x.b, p, "param")
             name == fresh(x.b, "param")
  <2>1. SetToSeq(closes) # <<>> /\ SetToSeq(closes)[1] = i
    BY <1>6, ToSeqOfOne
  <2>2. builder' = b /\ frames' = Append(frames, Bind(env, p, name))
    BY <1>1, <2>1
  <2>3. p \in Arrays
    BY ExportAssumption
  <2>4. IsArray(p) /\ p = [rank |-> p.rank, m |-> p.m]
    BY <2>3, ArrayIs
  <2> HIDE DEF x, env, p
  <2>5. GoesOn(x.b, b, obs) /\ Holds(b, obs, name, p)
    BY <1>3, ConstHolds DEF GoesOn
  <2> HIDE DEF b, name
  <2>6. EnvOK(b, obs, Bind(env, p, name))
    BY <1>4, <2>4, <2>5, EnvGoesOn, BindOK
  <2>7. GoesOn(builder, b, obs)
    BY <1>3, <2>5, GoesOnTwice
  <2> QED BY <1>2, <2>2, <2>6, <2>7, EnterFrame
<1> QED BY <1>5, <1>6

\* The caller's environment with the result in it, and the frames under it.
LEMMA ReturnCallOK ==
  ASSUME GraphInv, export = "walking", ReturnCall
  PROVE  GraphInv'
<1>1. Len(frames) > 1
  BY DEF ReturnCall
<1>2. CASE \E v \in ToSet(Env) :
             /\ frames' = [SubSeq(frames, 1, Len(frames) - 1) EXCEPT ![Len(frames) - 1] = Append(@, v)]
             /\ UNCHANGED <<obs, builder, primitives, eqns, export>>
  <2>1. PICK v \in ToSet(Env) :
          /\ frames' = [SubSeq(frames, 1, Len(frames) - 1) EXCEPT ![Len(frames) - 1] = Append(@, v)]
          /\ UNCHANGED <<obs, builder, primitives, eqns, export>>
    BY <1>2
  <2> DEFINE n == Len(frames) - 1
             fs == SubSeq(frames, 1, n)
             env == Append(frames[n], v)
  <2>2. /\ Listed(frames) /\ Len(frames) \in Nat /\ n \in Nat \ {0} /\ n \in 1 .. Len(frames)
        /\ \A f \in 1 .. Len(frames) : EnvOK(builder, obs, frames[f])
    BY <1>1, ListedLen DEF GraphInv
  <2>3. Listed(fs) /\ Len(fs) = n /\ \A i \in 1 .. n : fs[i] = frames[i]
    <3>1. fs = [i \in 1 .. n |-> frames[i]]
      BY <1>1, <2>2
    <3> HIDE DEF n, fs
    <3>2. fs = [i \in 1 .. n |-> fs[i]] /\ \A i \in 1 .. n : fs[i] = frames[i]
      BY <3>1
    <3> QED BY <2>2, <3>2, ListOf
  <2>4. EnvOK(builder, obs, env)
    <3>1. EnvOK(builder, obs, frames[n])
      BY <2>2
    <3>2. IsArray(v) /\ Holds(builder, obs, v.name, Value(v))
      BY OfEnv
    <3>3. /\ Listed(env) /\ Len(env) = Len(frames[n]) + 1 /\ env[Len(frames[n]) + 1] = v
          /\ \A i \in 1 .. Len(frames[n]) : env[i] = frames[n][i]
          /\ Len(frames[n]) \in Nat
      BY <3>1, AppendAny, ListedLen DEF EnvOK
    <3> HIDE DEF env, n
    <3>4. ASSUME NEW i \in 1 .. Len(env)
          PROVE  IsArray(env[i]) /\ Holds(builder, obs, env[i].name, Value(env[i]))
      <4>1. CASE i = Len(frames[n]) + 1
        BY <3>2, <3>3, <4>1
      <4>2. CASE i \in 1 .. Len(frames[n])
        BY <3>1, <3>3, <4>2 DEF EnvOK
      <4> QED BY <3>3, <4>1, <4>2
    <3> QED BY <3>3, <3>4 DEF EnvOK
  <2>5. frames' = WithLast(fs, env)
    BY <2>1, <2>2, <2>3 DEF WithLast
  <2> HIDE DEF fs, env, n
  <2>6. /\ Listed(frames') /\ Len(frames') = n /\ frames'[n] = env
        /\ \A i \in 1 .. (n - 1) : frames'[i] = fs[i]
    BY <2>2, <2>3, <2>5, LastFrame
  <2>7. \A f \in 1 .. n : EnvOK(builder, obs, frames'[f])
    <3> TAKE f \in 1 .. n
    <3>1. CASE f = n
      BY <2>4, <2>6, <3>1
    <3>2. CASE f \in 1 .. (n - 1)
      <4>1. frames'[f] = frames[f] /\ f \in 1 .. Len(frames)
        BY <2>2, <2>3, <2>6, <3>2 DEF n
      <4> QED BY <2>2, <4>1
    <3> QED BY <2>2, <3>1, <3>2
  <2> QED BY <2>1, <2>2, <2>6, <2>7 DEF GraphInv
<1>3. CASE Stop("crash")
  BY <1>3, StopOK
<1> QED BY <1>2, <1>3 DEF ReturnCall

\* The inputs of a graph that is empty.
LEMMA InputsOK ==
  ASSUME NEW args \in Observations
  PROVE  EnvOK(EmptyBuilder, args, [i \in DOMAIN args |-> Var(args[i].rank, args[i].m, Name("in", i))])
<1> DEFINE env == [i \in DOMAIN args |-> Var(args[i].rank, args[i].m, Name("in", i))]
           b == EmptyBuilder
<1>1. Len(args) \in Nat /\ DOMAIN args = 1 .. Len(args) /\ \A i \in DOMAIN args : args[i] \in Arrays
  BY ExportAssumption
<1>2. Tensors(b, args) = Given(b, args)
  <2>1. Len(b.nodes) = 0
    BY EmptyList DEF EmptyBuilder
  <2>2. PICK f : IsRun(f, Given(b, args), b.nodes) /\ Tensors(b, args) = f[Len(b.nodes)]
    BY <2>1, TensorsRun
  <2> HIDE DEF b
  <2> QED BY <2>1, <2>2, RunSteps
<1>3. \A i \in DOMAIN args : Name("in", i) \in DOMAIN Given(b, args) /\ Given(b, args)[Name("in", i)] = args[i]
  BY DEF Given, Name
<1>4. \A i \in DOMAIN args : Issued(b, Name("in", i))
  BY DEF Issued, Name
<1> HIDE DEF b
<1>5. ASSUME NEW i \in DOMAIN args
      PROVE  IsArray(env[i]) /\ Holds(b, args, env[i].name, Value(env[i]))
  <2>1. IsArray(args[i]) /\ args[i] = [rank |-> args[i].rank, m |-> args[i].m]
    BY <1>1, ArrayIs
  <2>2. env[i] = Var(args[i].rank, args[i].m, Name("in", i))
    OBVIOUS
  <2>3. env[i].rank = args[i].rank /\ env[i].m = args[i].m /\ env[i].name = Name("in", i)
    BY <2>2 DEF Var
  <2> HIDE DEF env
  <2>4. Value(env[i]) = args[i] /\ IsArray(env[i])
    BY <2>1, <2>3 DEF Value, IsArray
  <2> QED BY <1>2, <1>3, <1>4, <2>3, <2>4 DEF Holds
<1>6. env = [i \in 1 .. Len(args) |-> env[i]]
  BY <1>1
<1> HIDE DEF env
<1>7. Listed(env) /\ Len(env) = Len(args)
  BY <1>1, <1>6, ListOf
<1>8. EnvOK(b, args, env)
  BY <1>1, <1>5, <1>7 DEF EnvOK
<1> QED BY <1>8 DEF b, env

\* The constants of the outermost jaxpr, one initializer after the other.
Adding(before, i) ==
  [b   |-> const(before.b, Params[i], "param"),
   env |-> Bind(before.env, Params[i], fresh(before.b, "param"))]

LEMMA AddingOK ==
  ASSUME NEW args, NEW before, NEW i \in DOMAIN Params,
         GraphOK(before.b), EnvOK(before.b, args, before.env)
  PROVE  GraphOK(Adding(before, i).b) /\ EnvOK(Adding(before, i).b, args, Adding(before, i).env)
<1> DEFINE p == Params[i]
           b == const(before.b, p, "param")
           name == fresh(before.b, "param")
<1>1. p \in Arrays
  BY ExportAssumption
<1>2. IsArray(p) /\ p = [rank |-> p.rank, m |-> p.m]
  BY <1>1, ArrayIs
<1>3. Adding(before, i).b = b /\ Adding(before, i).env = Bind(before.env, p, name)
  BY DEF Adding
<1> HIDE DEF p
<1>4. GoesOn(before.b, b, args) /\ Holds(b, args, name, p)
  BY ConstHolds
<1> HIDE DEF b, name
<1>5. EnvOK(b, args, Bind(before.env, p, name))
  BY <1>2, <1>4, EnvGoesOn, BindOK
<1> QED BY <1>3, <1>4, <1>5 DEF GoesOn

LEMMA AddedExists ==
  ASSUME NEW start
  PROVE  \E f : f = [i \in 0 .. Len(Params) |-> IF i = 0 THEN start ELSE Adding(f[i - 1], i)]
<1> DEFINE Part(f, n) == f = [i \in 0 .. n |-> IF i = 0 THEN start ELSE Adding(f[i - 1], i)]
           S == {n \in Nat : \E f : Part(f, n)}
<1>0. Len(Params) \in Nat
  BY ExportAssumption
<1>1. 0 \in S
  <2> DEFINE f == [i \in 0 .. 0 |-> start]
  <2>1. Part(f, 0)
    OBVIOUS
  <2> QED BY <2>1
<1>2. ASSUME NEW n \in Nat, n \in S PROVE n + 1 \in S
  <2>1. PICK f : Part(f, n)
    BY <1>2
  <2> DEFINE g == [i \in 0 .. n + 1 |-> IF i <= n THEN f[i] ELSE Adding(f[n], n + 1)]
  <2>2. \A i \in 0 .. n + 1 : g[i] = IF i = 0 THEN start ELSE Adding(g[i - 1], i)
    <3> TAKE i \in 0 .. n + 1
    <3>1. CASE i <= n
      <4>1. g[i] = f[i] /\ (i # 0 => g[i - 1] = f[i - 1])
        BY <3>1
      <4>2. f[i] = IF i = 0 THEN start ELSE Adding(f[i - 1], i)
        BY <2>1, <3>1
      <4> HIDE DEF g
      <4> QED BY <4>1, <4>2
    <3>2. CASE i = n + 1
      <4>1. g[i] = Adding(f[n], n + 1) /\ g[n] = f[n]
        BY <3>2
      <4> HIDE DEF g
      <4> QED BY <4>1, <3>2
    <3> QED BY <3>1, <3>2
  <2>3. g = [i \in 0 .. n + 1 |-> g[i]]
    OBVIOUS
  <2> HIDE DEF g
  <2>4. Part(g, n + 1)
    BY <2>2, <2>3
  <2> QED BY <2>4
<1> HIDE DEF S
<1>3. \A k \in 0 .. (Len(Params) - 1) : k \in S => k + 1 \in S
  BY <1>2
<1>4. \A k \in 0 .. Len(Params) : k \in S
  BY <1>0, <1>1, <1>3, UpTo
<1>5. Len(Params) \in S
  BY <1>0, <1>4
<1> QED BY <1>5 DEF S

LEMMA BeginExportOK ==
  ASSUME BeginExport
  PROVE  GraphInv'
<1> DEFINE Inputs(args) == [i \in DOMAIN args |-> Var(args[i].rank, args[i].m, Name("in", i))]
           Start(args) == [b |-> EmptyBuilder, env |-> Inputs(args)]
           Chosen(args) == CHOOSE f : f = [i \in 0 .. Len(Params) |->
                             IF i = 0 THEN Start(args) ELSE Adding(f[i - 1], i)]
<1>1. PICK args \in Observations :
        /\ obs' = args
        /\ builder' = Chosen(args)[Len(Params)].b /\ frames' = <<Chosen(args)[Len(Params)].env>>
  BY DEF BeginExport, Adding
<1> DEFINE n == Len(Params)
           start == Start(args)
           f == Chosen(args)
<1>2. n \in Nat /\ DOMAIN Params = 1 .. n
  BY ExportAssumption
<1>3. f = [i \in 0 .. n |-> IF i = 0 THEN start ELSE Adding(f[i - 1], i)]
  BY AddedExists
<1>4. start.b = EmptyBuilder /\ start.env = Inputs(args)
  OBVIOUS
<1>5. GraphOK(start.b) /\ EnvOK(start.b, args, start.env)
  BY <1>4, EmptyGraph, InputsOK
<1> HIDE DEF n, start, f
<1> DEFINE S == {i \in 0 .. n : GraphOK(f[i].b) /\ EnvOK(f[i].b, args, f[i].env)}
<1>6. \A i \in 0 .. n : f[i] = IF i = 0 THEN start ELSE Adding(f[i - 1], i)
  BY <1>3
<1>7. 0 \in S
  BY <1>2, <1>5, <1>6
<1>8. ASSUME NEW k \in 0 .. (n - 1), k \in S PROVE k + 1 \in S
  <2>1. k + 1 \in 0 .. n /\ k + 1 \in DOMAIN Params /\ (k + 1) - 1 = k /\ k + 1 # 0
    BY <1>2
  <2>2. f[k + 1] = Adding(f[k], k + 1)
    BY <1>6, <2>1
  <2>3. GraphOK(f[k].b) /\ EnvOK(f[k].b, args, f[k].env)
    BY <1>8
  <2>4. GraphOK(f[k + 1].b) /\ EnvOK(f[k + 1].b, args, f[k + 1].env)
    BY <2>1, <2>2, <2>3, AddingOK
  <2> QED BY <2>1, <2>4
<1> HIDE DEF S
<1>9. \A k \in 0 .. n : k \in S
  BY <1>2, <1>7, <1>8, UpTo
<1>10. n \in S
  BY <1>2, <1>9
<1>11. GraphOK(builder') /\ EnvOK(builder', args, f[n].env) /\ frames' = <<f[n].env>>
  BY <1>1, <1>10 DEF S, n, f
<1> DEFINE env == f[n].env
<1> HIDE DEF env
<1>12. <<env>> = [i \in 1 .. 1 |-> <<env>>[i]] /\ <<env>>[1] = env
  OBVIOUS
<1>13. Listed(<<env>>) /\ Len(<<env>>) = 1
  BY <1>12, ListOf
<1>14. frames' = <<env>> /\ EnvOK(builder', args, env)
  BY <1>11 DEF env
<1>15. Listed(frames') /\ Len(frames') = 1 /\ frames'[1] = env
  BY <1>12, <1>13, <1>14
<1>16. \A k \in 1 .. Len(frames') : EnvOK(builder', obs', frames'[k])
  <2>1. obs' = args
    BY <1>1
  <2>2. EnvOK(builder', obs', frames'[1])
    BY <2>1, <1>14, <1>15
  <2>3. ASSUME NEW k \in 1 .. 1 PROVE k = 1
    OBVIOUS
  <2> QED BY <2>2, <2>3, <1>15
<1> QED BY <1>11, <1>15, <1>16 DEF GraphInv

-----------------------------------------------------------------------------
(***************************************************************************)
(* The graph that is exported.                                             *)
(***************************************************************************)
LEMMA GraphStep ==
  ASSUME GraphInv, MlpOnly, [Next]_vars
  PROVE  GraphInv'
<1>1. CASE BeginExport
  BY <1>1, BeginExportOK
<1>2. CASE WalkJaxpr
  <2>1. export = "walking"
    BY <1>2 DEF WalkJaxpr
  <2>2. CASE WalkUnary
    BY <2>1, <2>2, WalkUnaryOK
  <2>3. CASE WalkBinary
    BY <2>1, <2>3, WalkBinaryOK
  <2>4. CASE WalkDot
    BY <2>1, <2>4, WalkDotOK
  <2>5. CASE WalkBatchedDot
    BY <2>1, <2>5, WalkBatchedOK
  <2>6. CASE WalkReshape
    BY <2>1, <2>6, WalkReshapeOK
  <2>7. CASE WalkUnsupported
    BY <2>7, StopOK DEF WalkUnsupported
  <2>8. CASE EnterCall
    BY <2>1, <2>8, EnterCallOK
  <2>9. CASE ReturnCall
    BY <2>1, <2>9, ReturnCallOK
  <2> QED BY <1>2, <2>2, <2>3, <2>4, <2>5, <2>6, <2>7, <2>8, <2>9 DEF WalkJaxpr
<1>3. CASE DeliverPolicy
  <2>1. builder' = EmptyBuilder /\ frames' = <<>> /\ export' # "walking"
    BY <1>3 DEF DeliverPolicy, Finish
  <2> QED BY <2>1, EmptyGraph, EmptyList DEF GraphInv
<1>4. CASE UNCHANGED exportVars
  <2>1. builder' = builder /\ frames' = frames /\ obs' = obs /\ export' = export
    BY <1>4 DEF exportVars
  <2>2. \A f \in 1 .. Len(frames') : EnvOK(builder', obs', frames'[f])
    BY <2>1 DEF GraphInv
  <2> QED BY <2>1, <2>2 DEF GraphInv
<1> QED BY <1>1, <1>2, <1>3, <1>4 DEF Next, vars

\* Where policies are dense layers, every name that an environment of the walk holds is
\* the name of a tensor of the graph with the shape and the entries that JAX means:
\* export_policy_to_onnx, whatever the policy, however deep its calls.
THEOREM GraphIsPolicy ==
  ASSUME MlpOnly
  PROVE  Spec => []GraphComputesPolicy
<1>1. Init => GraphInv
  BY EmptyGraph, EmptyList DEF Init, ExportInit, GraphInv
<1>2. GraphInv /\ [Next]_vars => GraphInv'
  BY GraphStep
<1>3. GraphInv => GraphComputesPolicy
  <2>1. SUFFICES ASSUME GraphInv, NEW f \in DOMAIN frames, NEW v \in ToSet(frames[f])
                 PROVE  /\ v.name \in DOMAIN Tensors(builder, obs)
                        /\ Tensors(builder, obs)[v.name] = Value(v)
    BY DEF GraphComputesPolicy
  <2>2. f \in 1 .. Len(frames) /\ EnvOK(builder, obs, frames[f])
    BY <2>1, ListedLen DEF GraphInv
  <2>3. PICK i \in DOMAIN frames[f] : v = frames[f][i]
    BY DEF ToSet
  <2>4. i \in 1 .. Len(frames[f])
    BY <2>2, <2>3, ListedLen DEF EnvOK
  <2> QED BY <2>2, <2>3, <2>4 DEF EnvOK, Holds
<1> QED BY <1>1, <1>2, <1>3, PTL DEF Spec
=============================================================================
