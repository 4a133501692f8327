------------------------------ MODULE Manifest ------------------------------
(***************************************************************************)
(* The attestation manifest: what enters its content hash, how it is       *)
(* signed and verified, and the attestation that binds a manifest, a       *)
(* policy and a plan. BLAKE3 is taken as injective: a digest is the record *)
(* of what was hashed.                                                     *)
(***************************************************************************)
EXTENDS Integers, Sequences, FiniteSets

SCHEMA_VERSION_V0 == 0
HASH_CHAIN_SIGNER_IDENTITY == "hash-chain-v0"
None == "none"

blake3(payload) == [blake3 |-> payload]

(***************************************************************************)
(* toolchain_detect: a missing Python package raises, a missing C library  *)
(* is recorded as unknown with the reason. The compiler is the pinned one. *)
(***************************************************************************)
detect_acados_library_version(env) ==
  CASE env.acados = "no-dir"     -> "library-unknown:no-source-dir"
    [] env.acados = "no-git"     -> "library-unknown:not-a-git-checkout"
    [] env.acados = "git-fails"  -> "library-unknown:git-describe-rc"
    [] OTHER                     -> env.acados

\* A git that hangs raises too: nothing catches its time-out.
Detectable(env) == None \notin {env.template, env.casadi} /\ env.acados # "git-hangs"

detect_toolchain_versions(target, env) ==
  [compiler |-> target.toolchain, template |-> env.template,
   library  |-> detect_acados_library_version(env), casadi |-> env.casadi]

(***************************************************************************)
(* Manifest                                                                *)
(***************************************************************************)
Manifest(source, tools, target, artifact, when) ==
  [schema_version |-> SCHEMA_VERSION_V0, source_attestation_handle |-> source,
   toolchain_versions |-> tools, target_profile_hash |-> blake3(target),
   artifact_content_hash |-> blake3(artifact), build_timestamp_utc |-> when,
   signer_identity |-> None, signature |-> None]

CONTENT_FIELDS ==
  {"schema_version", "source_attestation_handle", "toolchain_versions",
   "target_profile_hash", "artifact_content_hash"}

\* Deviation: the time of the build is part of the chain.
content_payloadDated(m) == [f \in CONTENT_FIELDS \union {"build_timestamp_utc"} |-> m[f]]

content_payload(m) == [f \in CONTENT_FIELDS |-> m[f]]

content_hash(m) == blake3(content_payload(m))

(***************************************************************************)
(* Verification tries the schema, the expected hash if there is one, the   *)
(* signer and the signature.                                               *)
(***************************************************************************)
SignerKnown(identity) == identity \in {None, HASH_CHAIN_SIGNER_IDENTITY}

HashChainVerify(digest, signature) == signature = None /\ DOMAIN digest = {"blake3"}

SignatureStatus(m, ok) ==
  IF m.signature = None THEN "absent" ELSE IF ok THEN "verified" ELSE "invalid"

verify_manifest(m, expected) ==
  LET ok == /\ m.schema_version = SCHEMA_VERSION_V0
            /\ \A digest \in expected : content_hash(m) = digest
            /\ SignerKnown(m.signer_identity)
            /\ HashChainVerify(content_hash(m), m.signature)
  IN [ok |-> ok, signature_status |-> SignatureStatus(m, ok)]

\* The exit code of `jaxility verify` for a file that may not be a manifest
\* and an expected hash that may not be hexadecimal.
verify_cli(file, hex, expected) ==
  IF file.kind # "manifest" THEN 40
  ELSE IF ~ hex THEN 2
  ELSE IF verify_manifest(file.manifest, expected).ok THEN 0 ELSE 40

(***************************************************************************)
(* The dual-path attestation                                               *)
(***************************************************************************)
\* Deviation: the policy is left out.
attest_dual_pathWithoutPolicy(m, policy, plan) ==
  [controller_manifest_hash |-> content_hash(m), policy_artifact_hash |-> None,
   composition_plan_hash |-> blake3(plan)]

attest_dual_path(m, policy, plan) ==
  [controller_manifest_hash |-> content_hash(m), policy_artifact_hash |-> blake3(policy),
   composition_plan_hash |-> blake3(plan)]

=============================================================================
