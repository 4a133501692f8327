-------------------------- MODULE PolicyArtifacts ---------------------------
(***************************************************************************)
(* policy/litert.py, quantize.py and executorch.py: an exported policy is  *)
(* given to an external converter, which leaves files in a directory; one  *)
(* of them is read back, run, and held against the policy.                 *)
(*                                                                         *)
(* An ONNX model or a .tflite is the output it computes, a sequence of     *)
(* numbers or NaN, with what it was made from. A converted model is off by *)
(* an error of each entry that the converter picks.                        *)
(***************************************************************************)
EXTENDS Integers, Sequences, FiniteSets

CONSTANTS
  Converted,    \* bound: which policies are converted, by their outputs
  Others,       \* policies exported before, by their outputs
  Batches,      \* representative data: sets of observations, by name
  Errors,       \* by how much an entry of a converted model may be off
  NaN,          \* what is not a number
  MaxCalls,     \* bound: conversions that the caller asks for
  OneUse        \* does the caller keep a work_dir to one policy and one batch?

\* A policy computes numbers.
ASSUME ArtifactAssumption ==
  /\ Errors \subseteq Int \union {NaN} /\ NaN \notin Int
  /\ Converted \union Others \subseteq Seq(Int)
  /\ MaxCalls \in Nat /\ OneUse \in BOOLEAN

VARIABLES
  policy,   \* the policy that was exported last: the output of its graph
  calls,    \* conversions asked for so far
  want,     \* the arguments of the call under way
  temp,     \* the temporary directory of the call: files by suffix
  kept,     \* the caller's work_dir, across calls
  at,       \* "none", "ready", "asked", "converted", "read", "returned", "raised"
  model,    \* what the call has read and returns
  report    \* the parity report of it

artifactVars == <<policy, calls, want, temp, kept, at, model, report>>

NoPolicy == <<>>
NoData   == "no-data"
NoCall   == [of |-> NoPolicy, recipe |-> "none", batch |-> NoData, own |-> TRUE]
NoModel  == [of |-> NoPolicy, kind |-> "none", batch |-> NoData, out |-> <<>>]
NoReport == [passed |-> FALSE, tol |-> 0]

-----------------------------------------------------------------------------
(***************************************************************************)
(* Recipes. A file of a directory is known by its suffix; the stem is the  *)
(* name of the ONNX file, the same for all calls that give no other.       *)
(***************************************************************************)
QUANT_TOLERANCE == [float32 |-> 0, float16 |-> 1, dynamic_int8 |-> 2, static_int8 |-> 3]

Quantized == {"float16", "dynamic_int8", "static_int8"}
Converting == Quantized \union {"float32", "executorch"}

\* Files in the order in which sorted gives them.
TfliteFiles ==
  <<"_dynamic_range_quant", "_float16", "_float32", "_full_integer_quant", "_integer_quant">>

\* What ends in the suffix: *_integer_quant.tflite takes full-integer files in.
Matching(suffix) ==
  IF suffix = "_integer_quant" THEN {"_integer_quant", "_full_integer_quant"} ELSE {suffix}

_RECIPE_SUFFIX ==
  [float16 |-> <<"_float16">>, dynamic_int8 |-> <<"_dynamic_range_quant">>,
   static_int8 |-> <<"_integer_quant", "_full_integer_quant">>]

First(names) == TfliteFiles[CHOOSE i \in DOMAIN TfliteFiles :
                           /\ TfliteFiles[i] \in names
                           /\ \A j \in 1 .. (i - 1) : TfliteFiles[j] \notin names]

\* Deviation: without a quantised file the float32 one will do.
PickedFallback(dir, recipe) ==
  LET list == IF recipe = "float32" THEN <<>> ELSE _RECIPE_SUFFIX[recipe]
      hits == UNION {Matching(list[i]) : i \in DOMAIN list} \intersect DOMAIN dir
  IN IF hits = {} THEN {"_float32"} \intersect DOMAIN dir ELSE {First(hits)}

\* The name of the file that is read, if there is one.
Picked(dir, recipe) ==
  LET Hits(suffix) == Matching(suffix) \intersect DOMAIN dir
      Found(list)  == {i \in DOMAIN list : Hits(list[i]) # {}}
      Earliest(list) == CHOOSE i \in Found(list) : \A j \in Found(list) : i <= j
  IN IF recipe = "float32"
     THEN IF "_float32" \in DOMAIN dir THEN {"_float32"}
          ELSE IF DOMAIN dir = {} THEN {} ELSE {First(DOMAIN dir)}
     ELSE LET list == _RECIPE_SUFFIX[recipe] IN
          IF Found(list) = {} THEN {} ELSE {First(Hits(list[Earliest(list)]))}

\* The precision that the files of a suffix have.
Precision(suffix) ==
  CASE suffix = "_float32" -> "float32"
    [] suffix = "_float16" -> "float16"
    [] suffix = "_dynamic_range_quant" -> "dynamic_int8"
    [] OTHER -> "static_int8"

(***************************************************************************)
(* Parity: the largest error over the output, unless an entry is NaN: then *)
(* the error of the whole output is NaN, and max keeps what it had.        *)
(***************************************************************************)
Numbers(out) == \A i \in DOMAIN out : out[i] # NaN
Distance(a, b) == IF a >= b THEN a - b ELSE b - a

\* Deviation: the sign of the difference is kept.
litert_paritySigned(onnx, litert, tol) ==
  (Numbers(onnx) /\ Numbers(litert)) => \A i \in DOMAIN onnx : litert[i] - onnx[i] <= tol

litert_parity(onnx, litert, tol) ==
  (Numbers(onnx) /\ Numbers(litert)) => \A i \in DOMAIN onnx : Distance(litert[i], onnx[i]) <= tol

-----------------------------------------------------------------------------
(***************************************************************************)
(* Calls.                                                                  *)
(***************************************************************************)
Raise ==
  /\ at' = "raised" /\ temp' = <<>> /\ model' = NoModel /\ report' = NoReport
  /\ UNCHANGED <<policy, calls, want, kept>>

\* The work_dir is of this call's policy and data, or nothing is in it.
OwnUse(call) ==
  \A suffix \in DOMAIN kept :
    /\ kept[suffix].of = call.of
    /\ kept[suffix].batch # NoData /\ call.batch # NoData => kept[suffix].batch = call.batch

Ask ==
  /\ at \in {"ready", "returned", "raised"} /\ calls < MaxCalls /\ policy \in Converted
  /\ \E of \in {policy} \union Others, recipe \in Converting,
        batch \in Batches \union {NoData}, own \in BOOLEAN :
       LET call == [of |-> of, recipe |-> recipe, batch |-> batch, own |-> own] IN
       /\ batch # NoData => recipe = "static_int8"
       /\ recipe = "executorch" => own
       /\ (OneUse /\ ~ own) => OwnUse(call)
       /\ want' = call
  /\ at' = "asked" /\ calls' = calls + 1 /\ temp' = <<>>
  /\ model' = NoModel /\ report' = NoReport
  /\ UNCHANGED <<policy, kept>>

\* An unknown recipe, no representative data, or tooling that is not installed.
Refuse ==
  /\ at = "asked" /\ Raise

Acceptable == want.recipe = "static_int8" => want.batch # NoData

\* A conversion of the policy asked for, off by the converter's error.
Conversions(kind) ==
  {[of |-> want.of, kind |-> kind, batch |-> IF kind = "static_int8" THEN want.batch ELSE NoData,
    out |-> [i \in DOMAIN want.of |-> IF e[i] = NaN THEN NaN ELSE want.of[i] + e[i]]] :
     e \in [DOMAIN want.of -> Errors]}

\* onnx2tf writes float32 and float16 always, the quantised files when told to,
\* and the integer ones only if the model can be quantised. It overwrites.
Written ==
  LET always == {"_float32", "_float16"}
      asked  == CASE want.recipe = "dynamic_int8" -> {always \union {"_dynamic_range_quant"}}
                  [] want.recipe = "static_int8"  -> {always, always \union {"_integer_quant"},
                                                      always \union {"_integer_quant", "_full_integer_quant"}}
                  [] OTHER -> {always}
  IN asked

Overlay(dir, files) == [s \in DOMAIN dir \union DOMAIN files |-> IF s \in DOMAIN files THEN files[s] ELSE dir[s]]

\* Only the file that the recipe is about carries the error: the rest is not read.
Convert ==
  /\ at = "asked" /\ want.recipe # "executorch" /\ Acceptable
  /\ \E names \in Written, m \in Conversions(want.recipe) :
       LET Made(s) ==
             IF Precision(s) = want.recipe THEN m
             ELSE [of |-> want.of, kind |-> Precision(s), batch |-> NoData, out |-> want.of]
           files == [s \in names |-> Made(s)]
       IN IF want.own THEN temp' = files /\ UNCHANGED kept
          ELSE kept' = Overlay(kept, files) /\ UNCHANGED temp
  /\ at' = "converted"
  /\ UNCHANGED <<policy, calls, want, model, report>>

\* onnx2tf raises, after any of the files that are always written.
ConvertFails ==
  /\ at = "asked" /\ want.recipe # "executorch" /\ Acceptable
  /\ \E names \in SUBSET {"_float32", "_float16"} :
       LET files == [s \in names |-> [of |-> want.of, kind |-> Precision(s), batch |-> NoData, out |-> want.of]]
       IN kept' = IF want.own THEN kept ELSE Overlay(kept, files)
  /\ at' = "raised" /\ temp' = <<>>
  /\ UNCHANGED <<policy, calls, want, model, report>>

\* The file is read before the temporary directory goes.
ReadBack ==
  /\ at = "converted"
  /\ LET dir == IF want.own THEN temp ELSE kept
         hit == Picked(dir, want.recipe)
     IN IF hit = {} THEN Raise
        ELSE /\ \E s \in hit : model' = dir[s]
             /\ at' = "read" /\ temp' = <<>>
             /\ UNCHANGED <<policy, calls, want, kept, report>>

\* ExecuTorch works in memory and has no parity check.
ExportExecutorch ==
  /\ at = "asked" /\ want.recipe = "executorch"
  /\ \E m \in Conversions("executorch") : model' = m
  /\ at' = "returned"
  /\ UNCHANGED <<policy, calls, want, temp, kept, report>>

\* The converted model against the policy, under the budget of the recipe.
CheckParity ==
  /\ at = "read"
  /\ LET tol == QUANT_TOLERANCE[want.recipe] IN
     report' = [passed |-> litert_parity(want.of, model.out, tol), tol |-> tol]
  /\ at' = "returned"
  /\ UNCHANGED <<policy, calls, want, temp, kept, model>>

ArtifactNext ==
  Ask \/ Refuse \/ Convert \/ ConvertFails \/ ReadBack \/ ExportExecutorch \/ CheckParity

ArtifactInit ==
  /\ policy = NoPolicy /\ calls = 0 /\ want = NoCall /\ temp = <<>> /\ kept = <<>>
  /\ at = "none" /\ model = NoModel /\ report = NoReport

-----------------------------------------------------------------------------
(***************************************************************************)
(* Properties.                                                             *)
(***************************************************************************)

\* What a call returns was made from the policy it was called with, at the
\* precision of its recipe, calibrated with its data: not a file that another
\* call, another precision or a failed conversion has left.
ArtifactOfPolicy ==
  at \in {"read", "returned"} =>
    /\ model.of = want.of /\ model.kind = want.recipe
    /\ model.batch = want.batch

\* What passes parity computes, where it computes numbers, what the policy does, to
\* within the budget of the recipe asked for.
AcceptedIsFaithful ==
  (at = "returned" /\ report.passed /\ Numbers(model.out)) =>
    \A i \in DOMAIN want.of : Distance(model.out[i], want.of[i]) <= QUANT_TOLERANCE[want.recipe]
=============================================================================
