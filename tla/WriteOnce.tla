------------------------------ MODULE WriteOnce ------------------------------
(***************************************************************************)
(* What the artifact cache promises (jaxility/manifest/artifact.py): of    *)
(* the processes that store at one content hash a single one becomes its   *)
(* writer and the others are refused; what the writer publishes is never   *)
(* replaced. Only whoever owns the cache directory takes an entry away.    *)
(***************************************************************************)
CONSTANTS Procs, Payloads, Artifacts, None

VARIABLES
  entries,    \* hashes that have an entry, published or not
  writer,     \* the process about to publish at a hash, or None
  published   \* the artifact published at a hash, or None

storeVars == <<entries, writer, published>>

Init ==
  /\ entries = {}
  /\ writer = [h \in Payloads |-> None]
  /\ published = [h \in Payloads |-> None]

\* A process wins the right to publish at h.
Reserve(p, h) ==
  /\ h \notin entries
  /\ entries' = entries \union {h}
  /\ writer' = [writer EXCEPT ![h] = p]
  /\ UNCHANGED published

\* The writer dies: the entry stays, unpublished.
Leave(h) ==
  /\ writer[h] # None
  /\ writer' = [writer EXCEPT ![h] = None]
  /\ UNCHANGED <<entries, published>>

\* The writer publishes, once, and is done.
Publish(h, a) ==
  /\ writer[h] # None
  /\ published[h] = None
  /\ published' = [published EXCEPT ![h] = a]
  /\ writer' = [writer EXCEPT ![h] = None]
  /\ UNCHANGED entries

\* The owner of the directory retracts or removes an entry nobody is writing.
Retract(h) ==
  /\ writer[h] = None
  /\ published' = [published EXCEPT ![h] = None]
  /\ entries' \in {entries, entries \ {h}}
  /\ UNCHANGED writer

\* The owner moves an entry nobody is writing to a free name.
Move(h, g) ==
  /\ h \in entries /\ g \notin entries
  /\ writer[h] = None
  /\ entries' = (entries \ {h}) \union {g}
  /\ published' = [published EXCEPT ![h] = None, ![g] = published[h]]
  /\ UNCHANGED writer

Next ==
  \/ \E p \in Procs, h \in Payloads : Reserve(p, h)
  \/ \E h \in Payloads, a \in Artifacts : Publish(h, a)
  \/ \E h \in Payloads : Leave(h) \/ Retract(h)
  \/ \E h, g \in Payloads : Move(h, g)

Spec == Init /\ [][Next]_storeVars
==============================================================================
