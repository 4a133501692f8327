------------------------ MODULE ArtifactCacheProofs -------------------------
(***************************************************************************)
(* What holds of the artifact cache for any number of processes, payloads  *)
(* and artifacts: what was stored stays whole, loads are genuine, and the  *)
(* file-system calls of store, interleaved with those of everybody else,   *)
(* implement the write-once promise.                                       *)
(***************************************************************************)
EXTENDS ArtifactCache, TLAPS

(***************************************************************************)
(* The inductive invariant.                                                *)
(***************************************************************************)
Calls == {"idle", "open payload", "write payload", "open meta", "write meta",
          "read meta", "read payload"}

TypeInv ==
  /\ dirs \subseteq Payloads
  /\ payload_bin \in [Payloads -> Payloads \union {None, Torn}]
  /\ artifact_json \in [Payloads -> Artifacts \union {None, Torn}]
  /\ pc \in [Procs -> Calls]
  /\ want \in [Procs -> Payloads \union {None}]
  /\ hand \in [Procs -> Artifacts \union {None}]
  /\ DOMAIN result = Procs
  /\ kept \in [Payloads -> Artifacts \union {None}]

\* How far the entry that a process stores at has come.
Half(p) ==
  /\ pc[p] = "open payload"  => payload_bin[want[p]] = None
  /\ pc[p] = "write payload" => payload_bin[want[p]] = Torn
  /\ pc[p] \in {"open meta", "write meta"} => payload_bin[want[p]] = want[p]
  /\ pc[p] = "write meta" => artifact_json[want[p]] = Torn
  /\ pc[p] # "write meta" => artifact_json[want[p]] = None

Stores(p) ==
  /\ want[p] \in dirs /\ hand[p] \in Artifacts /\ content_hash(hand[p]) = want[p]
  /\ Half(p)

StoresOwn == \A p \in Procs : Storing(p) => Stores(p)

OneWriter ==
  \A p, q \in Procs : Storing(p) /\ Storing(q) /\ want[p] = want[q] => p = q

Reads ==
  \A p \in Procs :
    /\ pc[p] \in {"read meta", "read payload"} => want[p] \in Payloads
    /\ pc[p] = "read payload" => hand[p] \in Artifacts /\ content_hash(hand[p]) = want[p]

NoDirNoFiles ==
  \A h \in Payloads : h \notin dirs => payload_bin[h] = None /\ artifact_json[h] = None

CacheInv == TypeInv /\ StoresOwn /\ OneWriter /\ Reads /\ NoDirNoFiles /\ StoredStaysWhole

LEMMA CacheInvInit == Init => CacheInv
BY CacheAssumption DEF Init, CacheInv, TypeInv, StoresOwn, OneWriter, Reads, NoDirNoFiles,
  StoredStaysWhole, Storing, Calls, Empty

(***************************************************************************)
(* Each action keeps the invariant.                                        *)
(***************************************************************************)

\* What a process has in hand is undisturbed by what happens to other entries.
LEMMA StoresKept ==
  ASSUME NEW q \in Procs, Stores(q), pc'[q] = pc[q], want'[q] = want[q], hand'[q] = hand[q],
         want[q] \in dirs', payload_bin'[want[q]] = payload_bin[want[q]],
         artifact_json'[want[q]] = artifact_json[want[q]]
  PROVE  Stores(q)'
BY DEF Stores, Half, content_hash

\* A call that ends, or dies, leaves the others as they are.
LEMMA EndKeeps ==
  ASSUME CacheInv, NEW p \in Procs, NEW outcome, End(p, outcome), UNCHANGED <<disk, kept>>
  PROVE  CacheInv'
<1>1. TypeInv'
  BY DEF CacheInv, TypeInv, End, Calls, disk
<1>2. \A q \in Procs : /\ Storing(q)' => q # p /\ Storing(q)
                       /\ q # p => pc'[q] = pc[q] /\ want'[q] = want[q] /\ hand'[q] = hand[q]
                       /\ pc'[p] = "idle"
  BY DEF CacheInv, TypeInv, End, Storing
<1>3. StoresOwn'
  BY <1>2, StoresKept DEF CacheInv, StoresOwn, Stores, disk
<1>4. OneWriter'
  BY <1>2 DEF CacheInv, OneWriter
<1>5. Reads'
  BY <1>2 DEF CacheInv, Reads, content_hash
<1> QED BY <1>1, <1>3, <1>4, <1>5 DEF CacheInv, NoDirNoFiles, StoredStaysWhole, disk

LEMMA StoreKeeps ==
  ASSUME CacheInv, NEW p \in Procs, NEW a \in Artifacts, Store(p, a)
  PROVE  CacheInv'
<1> DEFINE h == content_hash(a)
<1>1. h \in Payloads
  BY DEF content_hash, Artifacts
<1>2. CASE h \in dirs
  BY <1>2, EndKeeps DEF Store, disk
<1>3. CASE h \notin dirs
  <2>1. /\ pc[p] = "idle" /\ dirs' = dirs \union {h} /\ Begin(p, h, a, "open payload")
        /\ UNCHANGED <<payload_bin, artifact_json, kept>>
    BY <1>3 DEF Store
  <2>2. payload_bin[h] = None /\ artifact_json[h] = None /\ kept[h] = None
    BY <1>1, <1>3 DEF CacheInv, NoDirNoFiles, StoredStaysWhole
  <2>3. TypeInv'
    BY <1>1, <2>1 DEF CacheInv, TypeInv, Begin, Calls
  <2>4. /\ pc'[p] = "open payload" /\ want'[p] = h /\ hand'[p] = a
        /\ \A q \in Procs : q # p => pc'[q] = pc[q] /\ want'[q] = want[q] /\ hand'[q] = hand[q]
    BY <2>1 DEF CacheInv, TypeInv, Begin
  <2>5. \A q \in Procs : Storing(q) => Stores(q) /\ want[q] # h
    BY <1>3 DEF CacheInv, StoresOwn, Stores
  <2>6. \A q \in Procs : q # p => (Storing(q)' <=> Storing(q))
    BY <2>4 DEF Storing
  <2>7. Stores(p)'
    BY <2>1, <2>2, <2>4 DEF Stores, Half, content_hash
  <2>8. StoresOwn'
    BY <2>1, <2>4, <2>5, <2>6, <2>7, StoresKept DEF StoresOwn, Stores
  <2>9. OneWriter'
    BY <2>4, <2>5, <2>6 DEF CacheInv, OneWriter
  <2>10. Reads'
    BY <2>4 DEF CacheInv, Reads, content_hash
  <2>11. NoDirNoFiles' /\ StoredStaysWhole'
    BY <2>1, <2>2 DEF CacheInv, NoDirNoFiles, StoredStaysWhole
  <2> QED BY <2>3, <2>8, <2>9, <2>10, <2>11 DEF CacheInv
<1> QED BY <1>2, <1>3

\* The writer of an entry fills it; nobody else has it in hand, nor was it kept.
LEMMA WriterKeeps ==
  ASSUME CacheInv, NEW p \in Procs, Storing(p), NEW next \in Calls, Step(p, next),
         NEW b \in Payloads \union {None, Torn}, NEW m \in {None, Torn},
         payload_bin' = [payload_bin EXCEPT ![want[p]] = b],
         artifact_json' = [artifact_json EXCEPT ![want[p]] = m],
         UNCHANGED <<dirs, hand, kept>>, Storing(p)', Half(p)'
  PROVE  CacheInv'
<1> DEFINE h == want[p]
<1>1. Stores(p) /\ h \in Payloads
  BY DEF CacheInv, StoresOwn, Stores, TypeInv
<1>2. TypeInv'
  BY <1>1 DEF CacheInv, TypeInv, Step
<1>3. (\A q \in Procs : q # p => pc'[q] = pc[q]) /\ UNCHANGED <<want, hand>>
  BY DEF CacheInv, TypeInv, Step
<1>4. \A g \in Payloads : g # h => payload_bin'[g] = payload_bin[g]
                                   /\ artifact_json'[g] = artifact_json[g]
  BY DEF CacheInv, TypeInv
<1>5. \A q \in Procs : q # p /\ Storing(q)' => Storing(q)
  BY <1>3 DEF Storing
<1>6. \A q \in Procs : q # p /\ Storing(q) => Stores(q) /\ want[q] # h /\ want[q] \in Payloads
  BY DEF CacheInv, TypeInv, StoresOwn, Stores, OneWriter
<1>7. StoresOwn'
  <2>1. Stores(p)'
    BY <1>1, <1>3 DEF Stores, content_hash
  <2>2. ASSUME NEW q \in Procs, q # p, Storing(q)' PROVE Stores(q)'
    BY <1>3, <1>4, <1>5, <1>6, <2>2, StoresKept DEF Stores
  <2> QED BY <2>1, <2>2 DEF StoresOwn
<1>8. OneWriter' /\ Reads'
  <2>1. OneWriter'
    BY <1>3, <1>5 DEF CacheInv, OneWriter
  <2>2. Reads'
    BY <1>3 DEF CacheInv, Reads, content_hash, Storing
  <2> QED BY <2>1, <2>2
<1>9. kept[h] = None
  BY <1>1, FilesDiffer DEF CacheInv, StoredStaysWhole, TypeInv, Stores, Half
<1>10. NoDirNoFiles' /\ StoredStaysWhole'
  BY <1>1, <1>4, <1>9 DEF CacheInv, NoDirNoFiles, StoredStaysWhole, Stores
<1> QED BY <1>2, <1>7, <1>8, <1>10 DEF CacheInv

\* Files are written in the order of the code, each first empty.
LEMMA WritesKeep ==
  ASSUME CacheInv, NEW p \in Procs, OpenPayload(p) \/ WritePayload(p) \/ OpenMeta(p)
  PROVE  CacheInv'
<1> DEFINE h == want[p]
<1>1. /\ Storing(p) /\ Half(p) /\ h \in Payloads /\ hand[p].payload = h
      /\ artifact_json[h] = None
  BY DEF OpenPayload, WritePayload, OpenMeta, Storing, CacheInv, StoresOwn, Stores, Half,
    TypeInv, content_hash
<1>2. artifact_json = [artifact_json EXCEPT ![h] = None]
  BY <1>1 DEF CacheInv, TypeInv
<1>3. ASSUME NEW next \in {"write payload", "open meta", "write meta"}, Step(p, next)
      PROVE  pc'[p] = next /\ want'[p] = h /\ Storing(p)' /\ next \in Calls
  BY <1>3 DEF CacheInv, TypeInv, Step, Storing, Calls
<1>4. CASE OpenPayload(p)
  <2>1. /\ payload_bin' = [payload_bin EXCEPT ![h] = Torn] /\ UNCHANGED artifact_json
        /\ Step(p, "write payload") /\ UNCHANGED <<dirs, hand, kept>>
    BY <1>4 DEF OpenPayload
  <2>2. Half(p)'
    BY <1>1, <1>3, <2>1 DEF Half, CacheInv, TypeInv
  <2> QED BY <1>1, <1>2, <1>3, <2>1, <2>2, WriterKeeps
<1>5. CASE WritePayload(p)
  <2>1. /\ payload_bin' = [payload_bin EXCEPT ![h] = h] /\ UNCHANGED artifact_json
        /\ Step(p, "open meta") /\ UNCHANGED <<dirs, hand, kept>>
    BY <1>1, <1>5 DEF WritePayload
  <2>2. Half(p)'
    BY <1>1, <1>3, <2>1 DEF Half, CacheInv, TypeInv
  <2> QED BY <1>1, <1>2, <1>3, <2>1, <2>2, WriterKeeps
<1>6. CASE OpenMeta(p)
  <2>1. /\ artifact_json' = [artifact_json EXCEPT ![h] = Torn] /\ UNCHANGED payload_bin
        /\ Step(p, "write meta") /\ UNCHANGED <<dirs, hand, kept>>
    BY <1>6 DEF OpenMeta
  <2>2. pc[p] = "open meta" /\ payload_bin[h] = h
    BY <1>1, <1>6 DEF OpenMeta, Half
  <2>3. payload_bin' = [payload_bin EXCEPT ![h] = h]
    BY <1>1, <2>1, <2>2 DEF CacheInv, TypeInv
  <2>4. Half(p)'
    BY <1>1, <1>3, <2>1, <2>2 DEF Half, CacheInv, TypeInv
  <2> QED BY <1>1, <1>3, <2>1, <2>3, <2>4, WriterKeeps
<1> QED BY <1>4, <1>5, <1>6

\* The entry is whole when the store returns.
LEMMA WriteMetaKeeps ==
  ASSUME CacheInv, NEW p \in Procs, WriteMeta(p)
  PROVE  CacheInv'
<1> DEFINE h == want[p]
<1>1. /\ Storing(p) /\ Stores(p) /\ h \in Payloads /\ payload_bin[h] = h
      /\ hand[p] \in Artifacts
  BY DEF WriteMeta, Storing, CacheInv, StoresOwn, Stores, Half, TypeInv
<1>2. /\ artifact_json' = [artifact_json EXCEPT ![h] = hand[p]]
      /\ kept' = [kept EXCEPT ![h] = hand[p]]
      /\ End(p, "stored") /\ UNCHANGED <<dirs, payload_bin>>
  BY DEF WriteMeta
<1>3. TypeInv'
  BY <1>1, <1>2 DEF CacheInv, TypeInv, End, Calls
<1>4. /\ \A q \in Procs : Storing(q)' => q # p /\ Storing(q)
      /\ \A q \in Procs : q # p => pc'[q] = pc[q] /\ want'[q] = want[q] /\ hand'[q] = hand[q]
      /\ pc'[p] = "idle"
  BY <1>2 DEF CacheInv, TypeInv, End, Storing
<1>5. \A g \in Payloads : g # h => artifact_json'[g] = artifact_json[g] /\ kept'[g] = kept[g]
  BY <1>2 DEF CacheInv, TypeInv
<1>6. artifact_json'[h] = hand[p] /\ kept'[h] = hand[p]
  BY <1>1, <1>2 DEF CacheInv, TypeInv
<1>7. StoresOwn'
  <2>1. ASSUME NEW q \in Procs, Storing(q)' PROVE Stores(q)'
    <3>1. q # p /\ Stores(q) /\ want[q] # h /\ want[q] \in Payloads
      BY <1>1, <1>4, <2>1 DEF CacheInv, TypeInv, StoresOwn, Stores, OneWriter
    <3> QED BY <1>2, <1>4, <1>5, <3>1, StoresKept DEF Stores
  <2> QED BY <2>1 DEF StoresOwn
<1>8. OneWriter'
  BY <1>4 DEF CacheInv, OneWriter
<1>9. Reads'
  BY <1>4 DEF CacheInv, Reads, content_hash
<1>10. NoDirNoFiles' /\ StoredStaysWhole'
  BY <1>1, <1>2, <1>5, <1>6 DEF CacheInv, NoDirNoFiles, StoredStaysWhole, Stores
<1> QED BY <1>3, <1>7, <1>8, <1>9, <1>10 DEF CacheInv

\* A load that goes on holds what it has parsed, and touches nothing.
LEMMA ReadingKeeps ==
  ASSUME CacheInv, NEW p \in Procs, ~ Storing(p),
         NEW next \in {"read meta", "read payload"},
         NEW h \in Payloads, NEW a \in Artifacts \union {None},
         next = "read payload" => a \in Artifacts /\ content_hash(a) = h,
         pc' = [pc EXCEPT ![p] = next], want' = [want EXCEPT ![p] = h],
         hand' = [hand EXCEPT ![p] = a], DOMAIN result' = Procs, UNCHANGED <<disk, kept>>
  PROVE  CacheInv'
<1>1. TypeInv'
  BY DEF CacheInv, TypeInv, Calls, disk
<1>2. /\ pc'[p] = next /\ want'[p] = h /\ hand'[p] = a
      /\ \A q \in Procs : q # p => pc'[q] = pc[q] /\ want'[q] = want[q] /\ hand'[q] = hand[q]
  BY DEF CacheInv, TypeInv
<1>3. \A q \in Procs : Storing(q)' => q # p /\ Storing(q)
  BY <1>2 DEF Storing
<1>4. StoresOwn'
  BY <1>2, <1>3, StoresKept DEF CacheInv, StoresOwn, Stores, disk
<1>5. OneWriter'
  BY <1>2, <1>3 DEF CacheInv, OneWriter
<1>6. Reads'
  BY <1>2, ZenonT(60) DEF CacheInv, Reads, content_hash
<1> QED BY <1>1, <1>4, <1>5, <1>6 DEF CacheInv, NoDirNoFiles, StoredStaysWhole, disk

\* ReadMeta goes on only with the record of the hash it was asked for.
LEMMA MetaMatches ==
  ASSUME CacheInv, NEW p \in Procs, ReadMeta(p)
  PROVE  \/ \E outcome : End(p, outcome)
         \/ LET meta == artifact_json[want[p]] IN
            /\ meta \in Artifacts /\ content_hash(meta) = want[p]
            /\ Step(p, "read payload") /\ hand' = [hand EXCEPT ![p] = meta]
<1> DEFINE meta == artifact_json[want[p]]
<1>1. want[p] \in Payloads
  BY DEF ReadMeta, CacheInv, Reads
<1>2. meta \in Artifacts \/ meta = None \/ meta = Torn
  BY <1>1 DEF CacheInv, TypeInv
<1>3. CASE meta = None
  BY <1>3 DEF ReadMeta
<1>4. CASE meta = Torn
  BY <1>4, CacheAssumption DEF ReadMeta
<1>5. CASE meta \in Artifacts /\ content_hash(meta) # want[p]
  <2>1. meta # None /\ meta # Torn
    BY <1>5, FilesDiffer
  <2> QED BY <1>5, <2>1 DEF ReadMeta
<1>6. CASE meta \in Artifacts /\ content_hash(meta) = want[p]
  <2>1. meta # None /\ meta # Torn
    BY <1>6, FilesDiffer
  <2> QED BY <1>6, <2>1 DEF ReadMeta
<1> QED BY <1>2, <1>3, <1>4, <1>5, <1>6

LEMMA LoadKeeps ==
  ASSUME CacheInv, NEW p \in Procs,
         (\E h \in Payloads : Load(p, h)) \/ ReadMeta(p) \/ ReadPayload(p) \/ Crash(p)
  PROVE  CacheInv'
<1>1. ASSUME NEW h \in Payloads, Load(p, h) PROVE CacheInv'
  <2>1. CASE has(h)
    <3>1. /\ pc[p] = "idle" /\ Begin(p, h, None, "read meta") /\ UNCHANGED <<disk, kept>>
      BY <1>1, <2>1 DEF Load
    <3>2. ~ Storing(p) /\ DOMAIN result' = Procs
      BY <3>1 DEF Storing, Begin, CacheInv, TypeInv
    <3> QED BY <3>1, <3>2, ReadingKeeps DEF Begin
  <2>2. CASE ~ has(h)
    BY <1>1, <2>2, EndKeeps DEF Load
  <2> QED BY <2>1, <2>2
<1>2. CASE ReadMeta(p)
  <2> DEFINE meta == artifact_json[want[p]]
  <2>1. pc[p] = "read meta" /\ UNCHANGED <<disk, kept>> /\ want[p] \in Payloads
    BY <1>2 DEF ReadMeta, CacheInv, Reads
  <2>2. CASE \E outcome : End(p, outcome)
    BY <2>1, <2>2, EndKeeps
  <2>3. CASE /\ meta \in Artifacts /\ content_hash(meta) = want[p]
             /\ Step(p, "read payload") /\ hand' = [hand EXCEPT ![p] = meta]
    <3>1. /\ pc' = [pc EXCEPT ![p] = "read payload"] /\ want' = [want EXCEPT ![p] = want[p]]
          /\ DOMAIN result' = Procs /\ ~ Storing(p)
      BY <2>1, <2>3 DEF Step, CacheInv, TypeInv, Storing
    <3> QED BY <2>1, <2>3, <3>1, ReadingKeeps
  <2> QED BY <1>2, <2>2, <2>3, MetaMatches
<1>3. CASE ReadPayload(p)
  <2>1. (\E outcome : End(p, outcome)) /\ UNCHANGED <<disk, kept>>
    BY <1>3 DEF ReadPayload
  <2> QED BY <2>1, EndKeeps
<1>4. CASE Crash(p)
  BY <1>4, EndKeeps DEF Crash
<1> QED BY <1>1, <1>2, <1>3, <1>4

\* The owner deletes, moves or damages entries that nobody stores at.
LEMMA OwnerKeeps ==
  ASSUME CacheInv, NEW h \in Payloads, NEW g \in Payloads,
         Delete(h) \/ Damage(h) \/ Rename(h, g)
  PROVE  CacheInv'
<1>1. /\ h \in dirs /\ UNCHANGED <<pc, want, hand, result>>
      /\ kept' = [kept EXCEPT ![h] = None]
      /\ \A q \in Procs : Storing(q) => want[q] # h
  BY DEF Delete, Damage, Rename, Touch, Quiet
<1>2. \A q \in Procs : Storing(q)' <=> Storing(q)
  BY <1>1 DEF Storing
<1>3. OneWriter' /\ Reads'
  BY <1>1, <1>2 DEF CacheInv, OneWriter, Reads, content_hash
<1>4. TypeInv'
  BY <1>1 DEF CacheInv, TypeInv, Delete, Damage, Rename
<1>5. kept'[h] = None /\ \A x \in Payloads : x # h => kept'[x] = kept[x]
  BY <1>1 DEF CacheInv, TypeInv
<1>6. CASE Delete(h) \/ Damage(h)
  <2>1. \A x \in Payloads : x # h => /\ x \in dirs' <=> x \in dirs
                                     /\ payload_bin'[x] = payload_bin[x]
                                     /\ artifact_json'[x] = artifact_json[x]
    BY <1>6 DEF Delete, Damage, CacheInv, TypeInv
  <2>2. h \notin dirs' => payload_bin'[h] = None /\ artifact_json'[h] = None
    BY <1>1, <1>6 DEF Delete, Damage, CacheInv, TypeInv
  <2>3. ASSUME NEW q \in Procs, Storing(q)' PROVE Stores(q)'
    <3>1. Stores(q) /\ want[q] # h /\ want[q] \in Payloads
      BY <1>1, <1>2, <2>3 DEF CacheInv, TypeInv, StoresOwn, Stores
    <3> QED BY <1>1, <2>1, <3>1, StoresKept DEF Stores
  <2>4. NoDirNoFiles' /\ StoredStaysWhole'
    BY <1>5, <2>1, <2>2 DEF CacheInv, NoDirNoFiles, StoredStaysWhole
  <2> QED BY <1>3, <1>4, <2>3, <2>4 DEF CacheInv, StoresOwn
<1>7. CASE Rename(h, g)
  <2>1. g \notin dirs /\ g # h /\ dirs' = (dirs \ {h}) \union {g}
    BY <1>1, <1>7 DEF Rename
  <2>2. \A x \in Payloads : x # h /\ x # g => payload_bin'[x] = payload_bin[x]
                                              /\ artifact_json'[x] = artifact_json[x]
    BY <1>7 DEF Rename, CacheInv, TypeInv
  <2>3. payload_bin'[h] = None /\ artifact_json'[h] = None
    BY <1>7 DEF Rename, CacheInv, TypeInv
  <2>4. kept[g] = None
    BY <2>1 DEF CacheInv, StoredStaysWhole
  <2>5. ASSUME NEW q \in Procs, Storing(q)' PROVE Stores(q)'
    <3>1. Stores(q) /\ want[q] # h /\ want[q] # g /\ want[q] \in Payloads
      BY <1>1, <1>2, <2>1, <2>5 DEF CacheInv, TypeInv, StoresOwn, Stores
    <3> QED BY <1>1, <2>1, <2>2, <3>1, StoresKept DEF Stores
  <2>6. NoDirNoFiles' /\ StoredStaysWhole'
    BY <1>5, <2>1, <2>2, <2>3, <2>4 DEF CacheInv, NoDirNoFiles, StoredStaysWhole
  <2> QED BY <1>3, <1>4, <2>5, <2>6 DEF CacheInv, StoresOwn
<1> QED BY <1>6, <1>7

LEMMA CacheInvStep == CacheInv /\ [Next]_vars => CacheInv'
<1> SUFFICES ASSUME CacheInv, [Next]_vars PROVE CacheInv'
  OBVIOUS
<1>1. ASSUME NEW p \in Procs, NEW a \in Artifacts, Store(p, a) PROVE CacheInv'
  BY <1>1, StoreKeeps
<1>2. ASSUME NEW p \in Procs, OpenPayload(p) \/ WritePayload(p) \/ OpenMeta(p) PROVE CacheInv'
  BY <1>2, WritesKeep
<1>3. ASSUME NEW p \in Procs, WriteMeta(p) PROVE CacheInv'
  BY <1>3, WriteMetaKeeps
<1>4. ASSUME NEW p \in Procs,
             (\E h \in Payloads : Load(p, h)) \/ ReadMeta(p) \/ ReadPayload(p) \/ Crash(p)
      PROVE  CacheInv'
  BY <1>4, LoadKeeps
<1>5. ASSUME NEW h \in Payloads, NEW g \in Payloads, Delete(h) \/ Damage(h) \/ Rename(h, g)
      PROVE  CacheInv'
  BY <1>5, OwnerKeeps
<1>6. CASE UNCHANGED vars
  <2>1. \A q \in Procs : (Storing(q)' <=> Storing(q)) /\ (Stores(q)' <=> Stores(q))
    BY <1>6 DEF vars, disk, Storing, Stores, Half, content_hash
  <2> QED BY <1>6, <2>1 DEF vars, disk, CacheInv, TypeInv, StoresOwn, OneWriter, Reads,
                          NoDirNoFiles, StoredStaysWhole, content_hash
<1> QED BY <1>1, <1>2, <1>3, <1>4, <1>5, <1>6 DEF Next

(***************************************************************************)
(* The theorems.                                                           *)
(***************************************************************************)

\* What a store that returned has written stays whole until the owner touches it, for
\* any number of processes that store, load and die.
THEOREM StoredWhole == Spec => []StoredStaysWhole
BY CacheInvInit, CacheInvStep, PTL DEF Spec, CacheInv

\* While a call is under way it has no outcome.
Pending == \A p \in Procs : pc[p] # "idle" => result[p] = "none"

LEMMA PendingStep == CacheInv /\ Pending /\ [Next]_vars => Pending'
<1> SUFFICES ASSUME CacheInv, Pending, [Next]_vars PROVE Pending'
  OBVIOUS
<1>1. ASSUME NEW p \in Procs, NEW outcome, End(p, outcome) PROVE Pending'
  BY <1>1 DEF Pending, End, CacheInv, TypeInv
<1>2. ASSUME NEW p \in Procs, NEW next, pc[p] # "idle", Step(p, next) PROVE Pending'
  BY <1>2 DEF Pending, Step, CacheInv, TypeInv
<1>3. ASSUME NEW p \in Procs, NEW h, NEW a, NEW next, Begin(p, h, a, next) PROVE Pending'
  BY <1>3 DEF Pending, Begin, CacheInv, TypeInv
<1>4. ASSUME NEW p \in Procs, NEW a \in Artifacts, Store(p, a) PROVE Pending'
  BY <1>1, <1>3, <1>4 DEF Store
<1>5. ASSUME NEW p \in Procs, OpenPayload(p) \/ WritePayload(p) \/ OpenMeta(p) PROVE Pending'
  BY <1>2, <1>5 DEF OpenPayload, WritePayload, OpenMeta
<1>6. ASSUME NEW p \in Procs, NEW h \in Payloads, Load(p, h) PROVE Pending'
  BY <1>1, <1>3, <1>6 DEF Load
<1>7. ASSUME NEW p \in Procs, ReadMeta(p) PROVE Pending'
  <2>1. pc[p] # "idle"
    BY <1>7 DEF ReadMeta
  <2> QED BY <1>1, <1>2, <1>7, <2>1, MetaMatches
<1>8. ASSUME NEW p \in Procs, WriteMeta(p) \/ ReadPayload(p) \/ Crash(p) PROVE Pending'
  BY <1>1, <1>8 DEF WriteMeta, ReadPayload, Crash
<1>9. ASSUME NEW h \in Payloads, NEW g \in Payloads, Delete(h) \/ Damage(h) \/ Rename(h, g)
      PROVE  Pending'
  BY <1>9 DEF Delete, Damage, Rename, Touch, Pending
<1>10. CASE UNCHANGED vars
  BY <1>10 DEF vars, Pending
<1> QED BY <1>4, <1>5, <1>6, <1>7, <1>8, <1>9, <1>10 DEF Next

\* A process that is about to read payload.bin reads it, dies, or is not the one that moves.
LEMMA ReaderMoves ==
  ASSUME CacheInv, Next, NEW p \in Procs, pc[p] = "read payload"
  PROVE  ReadPayload(p) \/ Crash(p) \/ UNCHANGED result \/ result'[p] = result[p]
<1>1. ASSUME NEW q \in Procs, q # p, NEW outcome, End(q, outcome) PROVE result'[p] = result[p]
  BY <1>1 DEF End, CacheInv, TypeInv
<1>2. ASSUME NEW q \in Procs, q # p, NEW h, NEW a, NEW next, Begin(q, h, a, next)
      PROVE  result'[p] = result[p]
  BY <1>2 DEF Begin, CacheInv, TypeInv
<1>3. ASSUME NEW q \in Procs, NEW a \in Artifacts, Store(q, a) PROVE result'[p] = result[p]
  BY <1>1, <1>2, <1>3 DEF Store
<1>4. ASSUME NEW q \in Procs, OpenPayload(q) \/ WritePayload(q) \/ OpenMeta(q)
      PROVE  UNCHANGED result
  BY <1>4 DEF OpenPayload, WritePayload, OpenMeta, Step
<1>5. ASSUME NEW q \in Procs, NEW h \in Payloads, Load(q, h) PROVE result'[p] = result[p]
  BY <1>1, <1>2, <1>5 DEF Load
<1>6. ASSUME NEW q \in Procs, ReadMeta(q) PROVE result'[p] = result[p]
  <2>1. q # p
    BY <1>6 DEF ReadMeta
  <2> QED BY <1>1, <1>6, <2>1, MetaMatches DEF Step
<1>7. ASSUME NEW q \in Procs, WriteMeta(q) PROVE result'[p] = result[p]
  BY <1>1, <1>7 DEF WriteMeta
<1>8. ASSUME NEW q \in Procs, q # p, ReadPayload(q) \/ Crash(q) PROVE result'[p] = result[p]
  BY <1>1, <1>8 DEF ReadPayload, Crash
<1>9. ASSUME NEW h \in Payloads, NEW g \in Payloads, Delete(h) \/ Damage(h) \/ Rename(h, g)
      PROVE  UNCHANGED result
  BY <1>9 DEF Delete, Damage, Rename, Touch
<1> QED BY <1>3, <1>4, <1>5, <1>6, <1>7, <1>8, <1>9 DEF Next

\* Every load that returns has read, from payload.bin, the payload of the hash it was
\* asked for, and the record of that hash.
THEOREM LoadsGenuine == Spec => LoadsAreGenuine
<1>1. Init => Pending
  BY DEF Init, Pending
<1>2. CacheInv /\ Pending /\ [Next]_vars =>
        [\A p \in Procs :
           pc[p] = "read payload" /\ result'[p] = "loaded" =>
             /\ content_hash(hand[p]) = want[p]
             /\ payload_bin[want[p]] = want[p]]_vars
  <2> SUFFICES ASSUME CacheInv, Pending, Next, NEW p \in Procs, pc[p] = "read payload",
                      result'[p] = "loaded"
               PROVE  content_hash(hand[p]) = want[p] /\ payload_bin[want[p]] = want[p]
    OBVIOUS
  <2>1. content_hash(hand[p]) = want[p]
    BY DEF CacheInv, Reads
  <2>2. result[p] = "none"
    BY DEF Pending
  <2>3. \A outcome : End(p, outcome) => outcome = "loaded"
    BY DEF End, CacheInv, TypeInv
  <2>4. ReadPayload(p)
    BY <2>2, <2>3, ReaderMoves DEF Crash
  <2> DEFINE payload == payload_bin[want[p]]
  <2>5. payload # None /\ ~ (payload \notin {None, content_hash(hand[p])})
    BY <2>3, <2>4 DEF ReadPayload
  <2> QED BY <2>1, <2>5
<1> QED BY <1>1, <1>2, CacheInvInit, CacheInvStep, PendingStep, PTL DEF Spec, LoadsAreGenuine

(***************************************************************************)
(* The cache implements WriteOnce. The writer of an entry is the one       *)
(* process whose store is under way there.                                 *)
(***************************************************************************)
Writer == [h \in Payloads |->
             IF Quiet(h) THEN None
             ELSE CHOOSE p \in Procs : Storing(p) /\ want[p] = h]

Published == [h \in Payloads |-> IF artifact_json[h] \in Artifacts THEN artifact_json[h] ELSE None]

LEMMA WriterIsUnique ==
  CacheInv => \A p \in Procs : Storing(p) => want[p] \in Payloads /\ Writer[want[p]] = p
<1> SUFFICES ASSUME CacheInv, NEW p \in Procs, Storing(p)
             PROVE  want[p] \in Payloads /\ Writer[want[p]] = p
  OBVIOUS
<1>1. want[p] \in Payloads
  BY DEF CacheInv, TypeInv, StoresOwn, Stores
<1>2. ~ Quiet(want[p])
  BY DEF Quiet
<1>3. \A q \in Procs : (Storing(q) /\ want[q] = want[p]) <=> q = p
  BY DEF CacheInv, OneWriter
<1>4. (CHOOSE q \in Procs : Storing(q) /\ want[q] = want[p]) = p
  BY <1>3
<1> QED BY <1>1, <1>2, <1>4 DEF Writer

LEMMA WriterIsUniqueNext ==
  CacheInv' => \A p \in Procs : Storing(p)' => want'[p] \in Payloads /\ Writer'[want'[p]] = p
<1>1. (CacheInv => \A p \in Procs : Storing(p) => want[p] \in Payloads /\ Writer[want[p]] = p)'
  BY WriterIsUnique, PTL
<1> QED BY <1>1

\* An entry keeps its writer if the same processes store at it as before.
LEMMA SameWriter ==
  ASSUME CacheInv, CacheInv', NEW h \in Payloads,
         \A q \in Procs : (Storing(q)' /\ want'[q] = h) <=> (Storing(q) /\ want[q] = h)
  PROVE  Writer'[h] = Writer[h]
<1>1. CASE Quiet(h)
  <2>1. Quiet(h)'
    BY <1>1 DEF Quiet
  <2> QED BY <1>1, <2>1 DEF Writer
<1>2. CASE ~ Quiet(h)
  <2>1. PICK p \in Procs : Storing(p) /\ want[p] = h
    BY <1>2 DEF Quiet
  <2> QED BY <2>1, WriterIsUnique, WriterIsUniqueNext
<1> QED BY <1>1, <1>2

\* Only entries where the store of p begins or ends get another writer.
LEMMA WriterMoves ==
  ASSUME CacheInv, CacheInv', NEW p \in Procs, NEW h \in Payloads,
         \A q \in Procs : q # p => pc'[q] = pc[q] /\ want'[q] = want[q],
         Storing(p) => want[p] = h, Storing(p)' => want'[p] = h
  PROVE  Writer' = [Writer EXCEPT ![h] = Writer'[h]]
<1>1. \A g \in Payloads : g # h => Writer'[g] = Writer[g]
  <2> SUFFICES ASSUME NEW g \in Payloads, g # h PROVE Writer'[g] = Writer[g]
    OBVIOUS
  <2>1. ASSUME NEW q \in Procs
        PROVE  (Storing(q)' /\ want'[q] = g) <=> (Storing(q) /\ want[q] = g)
    <3>1. CASE q = p
      BY <3>1
    <3>2. CASE q # p
      BY <3>2 DEF Storing
    <3> QED BY <3>1, <3>2
  <2> QED BY <2>1, SameWriter
<1>2. Writer = [g \in Payloads |-> Writer[g]] /\ Writer' = [g \in Payloads |-> Writer'[g]]
  BY DEF Writer
<1> QED BY <1>1, <1>2

LEMMA WriterStays ==
  ASSUME CacheInv, CacheInv',
         \A q \in Procs : (Storing(q)' <=> Storing(q)) /\ (Storing(q) => want'[q] = want[q])
  PROVE  Writer' = Writer
<1>1. ASSUME NEW h \in Payloads PROVE Writer'[h] = Writer[h]
  BY SameWriter
<1>2. Writer = [g \in Payloads |-> Writer[g]] /\ Writer' = [g \in Payloads |-> Writer'[g]]
  BY DEF Writer
<1> QED BY <1>1, <1>2

\* A process that ends or dies while it does not store changes nothing of the promise.
LEMMA EndStutters ==
  ASSUME CacheInv, CacheInv', NEW p \in Procs, ~ Storing(p), NEW outcome, End(p, outcome),
         UNCHANGED <<dirs, artifact_json>>
  PROVE  UNCHANGED <<dirs, Writer, Published>>
<1>1. \A q \in Procs : (Storing(q)' <=> Storing(q)) /\ (Storing(q) => want'[q] = want[q])
  BY DEF End, Storing, CacheInv, TypeInv
<1> QED BY <1>1, WriterStays DEF Published

\* One that does store frees the entry.
LEMMA EndFrees ==
  ASSUME CacheInv, CacheInv', NEW p \in Procs, Storing(p), NEW outcome, End(p, outcome)
  PROVE  /\ want[p] \in Payloads /\ Writer[want[p]] = p
         /\ Writer' = [Writer EXCEPT ![want[p]] = None]
<1>1. want[p] \in Payloads /\ Writer[want[p]] = p
  BY WriterIsUnique
<1>2. /\ \A q \in Procs : q # p => pc'[q] = pc[q] /\ want'[q] = want[q]
      /\ ~ Storing(p)'
  BY DEF End, Storing, CacheInv, TypeInv
<1>3. PICK h \in Payloads : h = want[p]
  BY <1>1
<1>4. Quiet(h)'
  <2>1. \A q \in Procs : Storing(q)' => Storing(q) /\ q # p /\ want'[q] = want[q]
    BY <1>2 DEF Storing
  <2> QED BY <1>3, <2>1 DEF Quiet, CacheInv, OneWriter
<1>5. Writer'[h] = None
  BY <1>4 DEF Writer
<1> QED BY <1>1, <1>2, <1>3, <1>5, WriterMoves

(***************************************************************************)
(* Each step of the cache is one of the promise, or none.                  *)
(***************************************************************************)
P == INSTANCE WriteOnce WITH entries <- dirs, writer <- Writer, published <- Published

LEMMA StoreReserves ==
  ASSUME CacheInv, CacheInv', NEW p \in Procs, NEW a \in Artifacts, Store(p, a)
  PROVE  P!Next \/ UNCHANGED <<dirs, Writer, Published>>
<1> DEFINE h == content_hash(a)
<1>1. h \in Payloads /\ ~ Storing(p) /\ UNCHANGED artifact_json
  BY DEF content_hash, Artifacts, Store, Storing
<1>2. CASE h \in dirs
  BY <1>1, <1>2, EndStutters DEF Store
<1>3. CASE h \notin dirs
  <2>1. dirs' = dirs \union {h} /\ Begin(p, h, a, "open payload")
    BY <1>3 DEF Store
  <2>2. /\ \A q \in Procs : q # p => pc'[q] = pc[q] /\ want'[q] = want[q]
        /\ Storing(p)' /\ want'[p] = h
    BY <2>1 DEF Begin, Storing, CacheInv, TypeInv
  <2>3. Writer'[h] = p
    BY <2>2, WriterIsUniqueNext
  <2>4. Writer' = [Writer EXCEPT ![h] = p]
    BY <1>1, <2>2, <2>3, WriterMoves
  <2>5. UNCHANGED Published
    BY <1>1 DEF Published
  <2>6. P!Reserve(p, h)
    BY <1>3, <2>1, <2>4, <2>5 DEF P!Reserve
  <2> QED BY <1>1, <2>6 DEF P!Next
<1> QED BY <1>2, <1>3

\* Nothing is published until artifact.json is whole.
LEMMA WritesStutter ==
  ASSUME CacheInv, CacheInv', NEW p \in Procs, OpenPayload(p) \/ WritePayload(p) \/ OpenMeta(p)
  PROVE  UNCHANGED <<dirs, Writer, Published>>
<1>1. \A q \in Procs : (Storing(q)' <=> Storing(q)) /\ (Storing(q) => want'[q] = want[q])
  BY DEF OpenPayload, WritePayload, OpenMeta, Step, Storing, CacheInv, TypeInv
<1>2. UNCHANGED Published
  <2>1. \A h \in Payloads : \/ artifact_json'[h] = artifact_json[h]
                            \/ artifact_json[h] = None /\ artifact_json'[h] = Torn
    <3>1. CASE OpenMeta(p)
      <4>1. Storing(p) /\ Stores(p) /\ artifact_json[want[p]] = None
        BY <3>1 DEF OpenMeta, Storing, CacheInv, StoresOwn, Stores, Half
      <4> QED BY <3>1, <4>1 DEF OpenMeta, CacheInv, TypeInv
    <3>2. CASE OpenPayload(p) \/ WritePayload(p)
      BY <3>2 DEF OpenPayload, WritePayload
    <3> QED BY <3>1, <3>2
  <2>2. None \notin Artifacts /\ Torn \notin Artifacts
    BY FilesDiffer
  <2>3. ASSUME NEW h \in Payloads PROVE Published'[h] = Published[h]
    BY <2>1, <2>2 DEF Published
  <2>4. Published = [h \in Payloads |-> Published[h]] /\ Published' = [h \in Payloads |-> Published'[h]]
    BY DEF Published
  <2> QED BY <2>3, <2>4
<1>3. UNCHANGED dirs
  BY DEF OpenPayload, WritePayload, OpenMeta
<1> QED BY <1>1, <1>2, <1>3, WriterStays

LEMMA WriteMetaPublishes ==
  ASSUME CacheInv, CacheInv', NEW p \in Procs, WriteMeta(p)
  PROVE  P!Next
<1> DEFINE h == want[p]
<1>1. /\ Storing(p) /\ hand[p] \in Artifacts /\ artifact_json[h] = Torn
      /\ End(p, "stored") /\ UNCHANGED dirs
      /\ artifact_json' = [artifact_json EXCEPT ![h] = hand[p]]
  BY DEF WriteMeta, Storing, CacheInv, StoresOwn, Stores, Half
<1>2. h \in Payloads /\ Writer[h] = p /\ Writer' = [Writer EXCEPT ![h] = None]
  BY <1>1, EndFrees
<1>3. Published[h] = None
  BY <1>1, <1>2, FilesDiffer DEF Published
<1>4. Published' = [Published EXCEPT ![h] = hand[p]]
  <2>1. ASSUME NEW g \in Payloads PROVE Published'[g] = IF g = h THEN hand[p] ELSE Published[g]
    BY <1>1, <1>2, <2>1 DEF Published, CacheInv, TypeInv
  <2>2. Published = [g \in Payloads |-> Published[g]] /\ Published' = [g \in Payloads |-> Published'[g]]
    BY DEF Published
  <2> QED BY <1>2, <2>1, <2>2
<1>5. p # None
  BY CacheAssumption
<1>6. P!Publish(h, hand[p])
  BY <1>1, <1>2, <1>3, <1>4, <1>5 DEF P!Publish
<1> QED BY <1>1, <1>2, <1>6 DEF P!Next

LEMMA CrashLeaves ==
  ASSUME CacheInv, CacheInv', NEW p \in Procs, Crash(p)
  PROVE  P!Next \/ UNCHANGED <<dirs, Writer, Published>>
<1>1. End(p, "none") /\ UNCHANGED <<dirs, artifact_json>>
  BY DEF Crash, disk
<1>2. CASE Storing(p)
  <2>1. want[p] \in Payloads /\ Writer[want[p]] = p /\ Writer' = [Writer EXCEPT ![want[p]] = None]
    BY <1>1, <1>2, EndFrees
  <2>2. p # None /\ UNCHANGED Published
    BY <1>1, CacheAssumption DEF Published
  <2>3. P!Leave(want[p])
    BY <1>1, <2>1, <2>2 DEF P!Leave
  <2> QED BY <2>1, <2>3 DEF P!Next
<1>3. CASE ~ Storing(p)
  BY <1>1, <1>3, EndStutters
<1> QED BY <1>2, <1>3

LEMMA LoadStutters ==
  ASSUME CacheInv, CacheInv', NEW p \in Procs,
         (\E h \in Payloads : Load(p, h)) \/ ReadMeta(p) \/ ReadPayload(p)
  PROVE  UNCHANGED <<dirs, Writer, Published>>
<1>1. ~ Storing(p) /\ UNCHANGED <<dirs, artifact_json>>
  BY DEF Load, ReadMeta, ReadPayload, Storing, disk
<1>2. CASE \E outcome : End(p, outcome)
  BY <1>1, <1>2, EndStutters
<1>3. CASE \E h, a : Begin(p, h, a, "read meta")
  <2>1. \A q \in Procs : (Storing(q)' <=> Storing(q)) /\ (Storing(q) => want'[q] = want[q])
    BY <1>1, <1>3 DEF Begin, Storing, CacheInv, TypeInv
  <2> QED BY <1>1, <2>1, WriterStays DEF Published
<1>4. CASE Step(p, "read payload")
  <2>1. \A q \in Procs : (Storing(q)' <=> Storing(q)) /\ (Storing(q) => want'[q] = want[q])
    BY <1>1, <1>4 DEF Step, Storing, CacheInv, TypeInv
  <2> QED BY <1>1, <2>1, WriterStays DEF Published
<1>5. CASE ReadMeta(p)
  BY <1>2, <1>4, <1>5, MetaMatches
<1>6. CASE ReadPayload(p)
  BY <1>2, <1>6 DEF ReadPayload
<1>7. CASE \E h \in Payloads : Load(p, h)
  BY <1>2, <1>3, <1>7 DEF Load
<1> QED BY <1>5, <1>6, <1>7

\* What the owner does to an entry nobody stores at.
LEMMA OwnerRetracts ==
  ASSUME CacheInv, CacheInv', NEW h \in Payloads, NEW g \in Payloads,
         Delete(h) \/ Damage(h) \/ Rename(h, g)
  PROVE  P!Next \/ UNCHANGED <<dirs, Writer, Published>>
<1>1. h \in dirs /\ Quiet(h) /\ UNCHANGED <<pc, want>>
  BY DEF Delete, Damage, Rename, Touch
<1>2. UNCHANGED Writer /\ Writer[h] = None
  <2>1. \A q \in Procs : (Storing(q)' <=> Storing(q)) /\ (Storing(q) => want'[q] = want[q])
    BY <1>1 DEF Storing
  <2> QED BY <1>1, <2>1, WriterStays DEF Writer
<1>3. /\ Published = [x \in Payloads |-> Published[x]]
      /\ Published' = [x \in Payloads |-> Published'[x]]
  BY DEF Published
<1>4. None \notin Artifacts
  BY FilesDiffer
<1>5. CASE Damage(h)
  BY <1>2, <1>5 DEF Damage, Published
<1>6. CASE Delete(h)
  <2>1. CASE UNCHANGED artifact_json /\ UNCHANGED dirs
    BY <1>2, <2>1 DEF Published
  <2>2. CASE UNCHANGED artifact_json /\ artifact_json[h] = None /\ dirs' = dirs \ {h}
    <3>1. Published[h] = None /\ UNCHANGED Published
      BY <1>4, <2>2 DEF Published
    <3>2. Published' = [Published EXCEPT ![h] = None]
      BY <1>3, <3>1
    <3>3. P!Retract(h)
      BY <1>2, <2>2, <3>2 DEF P!Retract
    <3> QED BY <3>3 DEF P!Next
  <2>3. CASE artifact_json' = [artifact_json EXCEPT ![h] = None] /\ UNCHANGED dirs
    <3>1. ASSUME NEW x \in Payloads PROVE Published'[x] = IF x = h THEN None ELSE Published[x]
      BY <1>4, <2>3 DEF Published, CacheInv, TypeInv
    <3>2. Published' = [Published EXCEPT ![h] = None]
      BY <1>3, <3>1
    <3>3. P!Retract(h)
      BY <1>2, <2>3, <3>2 DEF P!Retract
    <3> QED BY <3>3 DEF P!Next
  <2> QED BY <1>6, <2>1, <2>2, <2>3 DEF Delete
<1>7. CASE Rename(h, g)
  <2>1. /\ g \notin dirs /\ g # h /\ dirs' = (dirs \ {h}) \union {g}
        /\ artifact_json' = [artifact_json EXCEPT ![g] = artifact_json[h], ![h] = None]
    BY <1>1, <1>7 DEF Rename
  <2>2. ASSUME NEW x \in Payloads
        PROVE  Published'[x] = IF x = h THEN None ELSE IF x = g THEN Published[h] ELSE Published[x]
    BY <1>4, <2>1 DEF Published, CacheInv, TypeInv
  <2>3. Published' = [Published EXCEPT ![h] = None, ![g] = Published[h]]
    BY <1>3, <2>1, <2>2
  <2>4. P!Move(h, g)
    BY <1>1, <1>2, <2>1, <2>3 DEF P!Move
  <2> QED BY <2>4 DEF P!Next
<1> QED BY <1>5, <1>6, <1>7

\* The cache implements the write-once store, for any number of processes that race,
\* die half-way and race with the owner of the directory.
THEOREM CacheWritesOnce == Spec => WritesOnce
<1> DEFINE bar == <<dirs, Writer, Published>>
<1>1. Init => P!Init
  <2> SUFFICES ASSUME Init PROVE P!Init
    OBVIOUS
  <2>1. \A h \in Payloads : Quiet(h) /\ artifact_json[h] = None
    BY DEF Init, Quiet, Storing, Empty
  <2>2. None \notin Artifacts
    BY FilesDiffer
  <2>3. \A h \in Payloads : Writer[h] = None /\ Published[h] = None
    BY <2>1, <2>2 DEF Writer, Published
  <2> QED BY <2>3 DEF Init, P!Init, Writer, Published
<1>2. CacheInv /\ CacheInv' /\ [Next]_vars => [P!Next]_bar
  <2> SUFFICES ASSUME CacheInv, CacheInv', [Next]_vars PROVE P!Next \/ UNCHANGED bar
    OBVIOUS
  <2>1. CASE UNCHANGED vars
    <3>1. \A q \in Procs : (Storing(q)' <=> Storing(q)) /\ (Storing(q) => want'[q] = want[q])
      BY <2>1 DEF vars, Storing
    <3> QED BY <2>1, <3>1, WriterStays DEF vars, disk, Published
  <2>2. CASE Next
    BY <2>2, StoreReserves, WritesStutter, WriteMetaPublishes, CrashLeaves, LoadStutters,
       OwnerRetracts DEF Next
  <2> QED BY <2>1, <2>2
<1>3. P!Init => Promise!Init
  BY DEF P!Init, Promise!Init, Writer, Published
<1>4. [P!Next]_bar => [Promise!Next]_(Promise!storeVars)
  BY DEF Promise!storeVars, Writer, Published, P!Next, Promise!Next, P!Reserve, Promise!Reserve,
    P!Leave, Promise!Leave, P!Publish, Promise!Publish, P!Retract, Promise!Retract,
    P!Move, Promise!Move
<1> QED BY <1>1, <1>2, <1>3, <1>4, CacheInvInit, CacheInvStep, PTL
        DEF Spec, WritesOnce, Promise!Spec

=============================================================================
