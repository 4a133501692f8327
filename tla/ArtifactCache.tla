---------------------------- MODULE ArtifactCache ----------------------------
(***************************************************************************)
(* The content-addressed local cache of built artifacts, class             *)
(* ArtifactCache of jaxility/manifest/artifact.py.                         *)
(*                                                                         *)
(* Processes that share a cache root store, load and ask for artifacts;    *)
(* the directory of the file system is all they have in common. One step   *)
(* is one file-system call. A process may die between two of them, and     *)
(* the person who owns the directory may delete or rename an entry (the    *)
(* refusal of store tells them to), or payload.bin may be damaged.         *)
(*                                                                         *)
(* BLAKE3 is collision-free: a payload is identified with its hash, and a  *)
(* proper part of a file ("torn") neither hashes to it nor parses.         *)
(***************************************************************************)
EXTENDS FiniteSets

CONSTANTS
  Procs,      \* processes that use the cache
  Payloads,   \* payloads, and so content hashes
  Origins,    \* what else an Artifact records: source manifest, target, log
  None,       \* no artifact, no file
  Torn,       \* a file that is open for writing, or was when its writer died
  Crashes,    \* may a process die?
  Owner       \* does the owner of the directory intervene?

ASSUME CacheAssumption ==
  /\ None \notin Procs \union Payloads
  /\ Torn \notin Payloads \union {None}
  /\ {Crashes, Owner} \subseteq BOOLEAN

Artifacts == [payload : Payloads, origin : Origins]

ASSUME FilesDiffer == {None, Torn} \intersect Artifacts = {}

VARIABLES
  dirs,     \* the hashes h whose directory root/h is there
  payload_bin, artifact_json,  \* hash -> the two files in it
  pc,       \* per process: the file-system call it is about to make
  want,     \* per process: the content hash it is working on
  hand,     \* per process: the artifact it stores, or has parsed
  result,   \* per process: how its last call ended
  kept      \* history: hash -> the artifact whose store returned, while the
            \* owner has not touched the entry

disk == <<dirs, payload_bin, artifact_json>>
vars == <<disk, pc, want, hand, result, kept>>

Empty == [h \in Payloads |-> None]

content_hash(a) == a.payload

Storing(p) == pc[p] \in {"open payload", "write payload", "open meta", "write meta"}
Quiet(h) == \A p \in Procs : Storing(p) => want[p] # h

Init ==
  /\ dirs = {} /\ payload_bin = Empty /\ artifact_json = Empty
  /\ pc = [p \in Procs |-> "idle"]
  /\ want = [p \in Procs |-> None]
  /\ hand = [p \in Procs |-> None]
  /\ result = [p \in Procs |-> "none"]
  /\ kept = Empty

\* p begins an operation at h with the file-system call `next`, makes the next
\* call, or ends its operation with `outcome`.
Begin(p, h, a, next) ==
  /\ pc' = [pc EXCEPT ![p] = next]
  /\ want' = [want EXCEPT ![p] = h]
  /\ hand' = [hand EXCEPT ![p] = a]
  /\ result' = [result EXCEPT ![p] = "none"]

Step(p, next) == pc' = [pc EXCEPT ![p] = next] /\ UNCHANGED <<want, result>>

End(p, outcome) ==
  /\ pc' = [pc EXCEPT ![p] = "idle"]
  /\ want' = [want EXCEPT ![p] = None]
  /\ hand' = [hand EXCEPT ![p] = None]
  /\ result' = [result EXCEPT ![p] = outcome]

(***************************************************************************)
(* store.                                                                  *)
(***************************************************************************)

\* Deviation: the guard is has(), and the directory is made with exist_ok
StoreIfAbsent(p, a) ==
  /\ pc[p] = "idle"
  /\ IF artifact_json[content_hash(a)] # None
     THEN End(p, "exists") /\ UNCHANGED dirs
     ELSE /\ dirs' = dirs \union {content_hash(a)}
          /\ Begin(p, content_hash(a), a, "open payload")
  /\ UNCHANGED <<payload_bin, artifact_json, kept>>

\* mkdir(exist_ok=False) decides who may write; the loser gets ArtifactError.
Store(p, a) ==
  /\ pc[p] = "idle"
  /\ IF content_hash(a) \in dirs
     THEN End(p, "exists") /\ UNCHANGED dirs
     ELSE /\ dirs' = dirs \union {content_hash(a)}
          /\ Begin(p, content_hash(a), a, "open payload")
  /\ UNCHANGED <<payload_bin, artifact_json, kept>>

\* write_bytes and write_text each create an empty file, then fill it.
OpenPayload(p) ==
  /\ pc[p] = "open payload"
  /\ payload_bin' = [payload_bin EXCEPT ![want[p]] = Torn]
  /\ Step(p, "write payload")
  /\ UNCHANGED <<dirs, artifact_json, hand, kept>>

WritePayload(p) ==
  /\ pc[p] = "write payload"
  /\ payload_bin' = [payload_bin EXCEPT ![want[p]] = hand[p].payload]
  /\ Step(p, "open meta")
  /\ UNCHANGED <<dirs, artifact_json, hand, kept>>

OpenMeta(p) ==
  /\ pc[p] = "open meta"
  /\ artifact_json' = [artifact_json EXCEPT ![want[p]] = Torn]
  /\ Step(p, "write meta")
  /\ UNCHANGED <<dirs, payload_bin, hand, kept>>

WriteMeta(p) ==
  /\ pc[p] = "write meta"
  /\ artifact_json' = [artifact_json EXCEPT ![want[p]] = hand[p]]
  /\ kept' = [kept EXCEPT ![want[p]] = hand[p]]
  /\ End(p, "stored")
  /\ UNCHANGED <<dirs, payload_bin>>

(***************************************************************************)
(* load and has.                                                           *)
(***************************************************************************)

has(h) == artifact_json[h] # None

Load(p, h) ==
  /\ pc[p] = "idle"
  /\ IF has(h) THEN Begin(p, h, None, "read meta") ELSE End(p, "missing")
  /\ UNCHANGED <<disk, kept>>

\* Deviation: the recorded hash is not compared with the requested one
ReadMetaAnyHash(p) ==
  /\ pc[p] = "read meta"
  /\ LET meta == artifact_json[want[p]] IN
       CASE meta = None -> End(p, "FileNotFoundError")
         [] meta = Torn -> End(p, "ValidationError")
         [] OTHER -> Step(p, "read payload") /\ hand' = [hand EXCEPT ![p] = meta]
  /\ UNCHANGED <<disk, kept>>

\* artifact.json is read, parsed and compared with the requested hash.
ReadMeta(p) ==
  /\ pc[p] = "read meta"
  /\ LET meta == artifact_json[want[p]] IN
       CASE meta = None -> End(p, "FileNotFoundError")
         [] meta = Torn -> End(p, "ValidationError")
         [] meta \in Artifacts /\ content_hash(meta) # want[p] ->
              End(p, "mismatch")
         [] OTHER -> Step(p, "read payload") /\ hand' = [hand EXCEPT ![p] = meta]
  /\ UNCHANGED <<disk, kept>>

\* payload.bin is read and hashed again.
ReadPayload(p) ==
  /\ pc[p] = "read payload"
  /\ LET payload == payload_bin[want[p]] IN
       CASE payload = None -> End(p, "FileNotFoundError")
         [] payload \notin {None, content_hash(hand[p])} -> End(p, "mismatch")
         [] OTHER -> End(p, "loaded")
  /\ UNCHANGED <<disk, kept>>

(***************************************************************************)
(* The environment.                                                        *)
(***************************************************************************)

\* The process dies; another one may take its place. Files stay.
Crash(p) ==
  /\ Crashes
  /\ pc[p] # "idle"
  /\ End(p, "none")
  /\ UNCHANGED <<disk, kept>>

\* The owner handles entries nobody is storing at; loads may be under way.
Touch(h) ==
  /\ Owner
  /\ h \in dirs
  /\ Quiet(h)
  /\ UNCHANGED <<pc, want, hand, result>>

\* rm -r, one call at a time.
Delete(h) ==
  /\ Touch(h)
  /\ kept' = [kept EXCEPT ![h] = None]
  /\ \/ /\ payload_bin[h] # None
        /\ payload_bin' = [payload_bin EXCEPT ![h] = None]
        /\ UNCHANGED <<dirs, artifact_json>>
     \/ /\ artifact_json[h] # None
        /\ artifact_json' = [artifact_json EXCEPT ![h] = None]
        /\ UNCHANGED <<dirs, payload_bin>>
     \/ /\ payload_bin[h] = None /\ artifact_json[h] = None
        /\ dirs' = dirs \ {h}
        /\ UNCHANGED <<payload_bin, artifact_json>>

\* mv of one entry to the name of another.
Rename(h, g) ==
  /\ Touch(h)
  /\ g \notin dirs
  /\ kept' = [kept EXCEPT ![h] = None]
  /\ dirs' = (dirs \ {h}) \union {g}
  /\ payload_bin' = [payload_bin EXCEPT ![g] = payload_bin[h], ![h] = None]
  /\ artifact_json' = [artifact_json EXCEPT ![g] = artifact_json[h], ![h] = None]

\* payload.bin is damaged, or another file put in its place.
Damage(h) ==
  /\ Touch(h)
  /\ kept' = [kept EXCEPT ![h] = None]
  /\ \E bytes \in Payloads \union {Torn} : payload_bin' = [payload_bin EXCEPT ![h] = bytes]
  /\ UNCHANGED <<dirs, artifact_json>>

Next ==
  \/ \E p \in Procs :
       \/ \E a \in Artifacts : Store(p, a)
       \/ OpenPayload(p) \/ WritePayload(p) \/ OpenMeta(p) \/ WriteMeta(p)
       \/ \E h \in Payloads : Load(p, h)
       \/ ReadMeta(p) \/ ReadPayload(p)
       \/ Crash(p)
  \/ \E h \in Payloads : Delete(h) \/ Damage(h)
  \/ \E h, g \in Payloads : Rename(h, g)

Spec == Init /\ [][Next]_vars

(***************************************************************************)
(* Properties.                                                             *)
(***************************************************************************)

\* Processes that race to store at one hash, die half-way and race with the
\* owner of the directory still keep the write-once promise.
Promise == INSTANCE WriteOnce WITH
  entries <- dirs,
  writer <- [h \in Payloads |->
               IF Quiet(h) THEN None
               ELSE CHOOSE p \in Procs : Storing(p) /\ want[p] = h],
  published <- [h \in Payloads |-> IF artifact_json[h] \in Artifacts THEN artifact_json[h] ELSE None]

WritesOnce == Promise!Spec

\* What a store that returned has written stays whole, byte for byte and with
\* its own record, until the owner touches it: a later store of the same
\* payload from another source, or a crash of one, does not disturb it.
StoredStaysWhole ==
  \A h \in Payloads :
    kept[h] # None => h \in dirs /\ payload_bin[h] = h /\ artifact_json[h] = kept[h]

\* A load returns only an artifact of the requested hash, and only when
\* payload.bin still holds that payload, through half written, renamed,
\* damaged and half deleted entries.
LoadsAreGenuine ==
  [][\A p \in Procs :
       pc[p] = "read payload" /\ result'[p] = "loaded" =>
         /\ content_hash(hand[p]) = want[p]
         /\ payload_bin[want[p]] = want[p]]_vars

\* has: "True iff a cache entry for content_hash exists", and store refuses
\* "to overwrite existing cache entry". The two agree once nobody is storing.
HasAgreesWithStore ==
  [][\A p \in Procs, a \in Artifacts :
       Store(p, a) /\ result'[p] = "exists" /\ Quiet(content_hash(a)) =>
         has(content_hash(a))]_vars
==============================================================================
