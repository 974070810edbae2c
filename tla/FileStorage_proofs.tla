-------------------------- MODULE FileStorage_proofs --------------------------
(***************************************************************************)
(* Proofs about FileStorage, for any number of keys, signed PDFs and       *)
(* requests, and any limit.                                                *)
(***************************************************************************)
EXTENDS FileStorage, FiniteSetTheorems, TLAPS

USE StorageAssumption

----------------------------------------------------------------------------
(* The request that takes a step *)

Turn(w, to, m) ==
  /\ pc' \in [Workers -> Pc] /\ my' \in [Workers -> Memory]
  /\ pc'[w] = to /\ my'[w] = m
  /\ \A v \in Workers \ {w} : pc'[v] = pc[v] /\ my'[v] = my[v]

LEMMA Turns ==
  ASSUME TypeOK, NEW w \in Workers, NEW to \in Pc, NEW m \in Memory,
         pc' = [pc EXCEPT ![w] = to], my' = [my EXCEPT ![w] = m]
  PROVE  Turn(w, to, m)
  BY DEF Turn, TypeOK

LEMMA Walks ==
  ASSUME TypeOK, NEW w \in Workers, NEW to \in Pc, pc' = [pc EXCEPT ![w] = to], my' = my
  PROVE  Turn(w, to, my[w])
  BY DEF Turn, TypeOK

\* What requests remember, and what the rows are, have their types.
LEMMA Typed ==
  ASSUME TypeOK
  PROVE  /\ Blank \in Memory
         /\ \A w \in Workers : /\ my[w] \in Memory /\ my[w].key \in Rows \cup {None}
                               /\ my[w].rows \in SUBSET Rows
                               /\ my[w].keys \in SUBSET (Key \cup {SignedPdf})
         /\ doc # NoDocument => /\ doc.file \in Key /\ doc.versions \in SUBSET Key
                                /\ doc.signed \in Sig \cup {None}
         /\ doc = NoDocument => DocRows(doc) = {} /\ doc.versions = {} /\ doc.file = None
         /\ DocRows(doc) \in SUBSET file /\ file \in SUBSET Rows
  BY DEF TypeOK, Memory, Blank, Document, NoDocument, DocRows

LEMMA MemorySaneKept ==
  ASSUME MemorySane, NEW w \in Workers, NEW to, NEW m, Turn(w, to, m), Sane(to, m)
  PROVE  MemorySane'
<1>1. ASSUME NEW v \in Workers
      PROVE  Sane(pc'[v], my'[v])
  <2>1. CASE v = w
    BY <2>1 DEF Turn
  <2>2. CASE v # w
    BY <2>2 DEF Turn, MemorySane
  <2> QED BY <2>1, <2>2
<1> QED BY <1>1 DEF MemorySane

----------------------------------------------------------------------------
(* Sizes *)

\* Products of natural numbers.
LEMMA Products ==
  ASSUME NEW m \in Nat, NEW a \in Nat, NEW b \in Nat
  PROVE  m * a \in Nat /\ (a <= b => m * a <= m * b) /\ (a < b => m * a + m <= m * b)
<1>1. m * a \in Nat
  OBVIOUS
<1>2. ASSUME a <= b PROVE m * a <= m * b
  <2>1. b - a \in Nat /\ m * (b - a) \in Nat /\ m * (b - a) = m * b - m * a
    BY <1>2
  <2> QED BY <2>1
<1>3. ASSUME a < b PROVE m * a + m <= m * b
  <2>1. b - (a + 1) \in Nat /\ m * (b - (a + 1)) \in Nat /\ m * (b - (a + 1)) = m * b - (m * a + m)
    BY <1>3
  <2> QED BY <2>1
<1> QED BY <1>1, <1>2, <1>3

\* The bytes of files are a natural number, which grows with the files, by at most
\* the largest size for each.
BytesOf(rs) == {b \in rs \X (1..MaxSize) : b[2] <= Size[b[1]]}

LEMMA BytesGrow ==
  /\ Bytes({}) = 0
  /\ \A rs \in SUBSET Rows : Bytes(rs) \in Nat /\ IsFiniteSet(rs)
  /\ \A rs, qs \in SUBSET Rows : rs \subseteq qs => Bytes(rs) <= Bytes(qs)
  /\ \A rs \in SUBSET Rows, k \in Rows : Bytes(rs \cup {k}) <= Bytes(rs) + MaxSize
<1>1. IsFiniteSet(1..MaxSize) /\ Cardinality(1..MaxSize) = MaxSize
  BY FS_Interval
<1>2. \A rs \in SUBSET Rows : IsFiniteSet(rs)
  BY FS_Union, FS_Subset DEF Rows
<1>3. \A rs \in SUBSET Rows : IsFiniteSet(BytesOf(rs)) /\ Cardinality(BytesOf(rs)) \in Nat
  <2> SUFFICES ASSUME NEW rs \in SUBSET Rows
               PROVE  IsFiniteSet(BytesOf(rs)) /\ Cardinality(BytesOf(rs)) \in Nat
    OBVIOUS
  <2>1. IsFiniteSet(rs \X (1..MaxSize))
    BY <1>1, <1>2, FS_Product
  <2>2. BytesOf(rs) \in SUBSET (rs \X (1..MaxSize))
    BY DEF BytesOf
  <2> QED BY <2>1, <2>2, FS_Subset, FS_CardinalityType
<1>4. Bytes({}) = 0
  <2>1. BytesOf({}) = {}
    BY DEF BytesOf
  <2> QED BY <2>1, FS_EmptySet DEF Bytes, BytesOf
<1>5. ASSUME NEW rs \in SUBSET Rows, NEW qs \in SUBSET Rows, rs \subseteq qs
      PROVE  Bytes(rs) <= Bytes(qs)
  <2>1. BytesOf(rs) \subseteq BytesOf(qs)
    BY <1>5 DEF BytesOf
  <2> QED BY <1>3, <2>1, FS_Subset DEF Bytes, BytesOf
<1>6. ASSUME NEW rs \in SUBSET Rows, NEW k \in Rows
      PROVE  Bytes(rs \cup {k}) <= Bytes(rs) + MaxSize
  <2>1. IsFiniteSet({k} \X (1..MaxSize)) /\ Cardinality({k} \X (1..MaxSize)) = MaxSize
    <3>1. IsFiniteSet({k}) /\ Cardinality({k}) = 1
      BY FS_Singleton
    <3>2. /\ IsFiniteSet({k} \X (1..MaxSize))
          /\ Cardinality({k} \X (1..MaxSize)) = Cardinality({k}) * Cardinality(1..MaxSize)
      BY <1>1, <3>1, FS_Product
    <3> QED BY <1>1, <3>1, <3>2
  <2>2. BytesOf({k}) \in SUBSET ({k} \X (1..MaxSize))
    BY DEF BytesOf
  <2>3. IsFiniteSet(BytesOf({k})) /\ Cardinality(BytesOf({k})) <= MaxSize
    <3>1. Cardinality(BytesOf({k})) <= Cardinality({k} \X (1..MaxSize))
      BY <2>1, <2>2, FS_Subset
    <3>2. IsFiniteSet(BytesOf({k}))
      BY <2>1, <2>2, FS_Subset
    <3> QED BY <2>1, <3>1, <3>2
  <2>4. BytesOf(rs \cup {k}) = BytesOf(rs) \cup BytesOf({k})
    BY DEF BytesOf
  <2>5. IsFiniteSet(BytesOf(rs)) /\ Cardinality(BytesOf(rs)) \in Nat
    BY <1>3
  <2>6. Cardinality(BytesOf(rs) \cup BytesOf({k})) =
          Cardinality(BytesOf(rs)) + Cardinality(BytesOf({k})) - Cardinality(BytesOf(rs) \cap BytesOf({k}))
    BY <2>3, <2>5, FS_Union
  <2>7. Cardinality(BytesOf(rs) \cap BytesOf({k})) \in Nat /\ Cardinality(BytesOf({k})) \in Nat
    BY <2>3, <2>5, FS_Subset, FS_CardinalityType
  <2>8. Cardinality(BytesOf(rs \cup {k})) <= Cardinality(BytesOf(rs)) + MaxSize
    <3> DEFINE a == Cardinality(BytesOf(rs))
               c == Cardinality(BytesOf({k}))
               d == Cardinality(BytesOf(rs) \cap BytesOf({k}))
               s == Cardinality(BytesOf(rs) \cup BytesOf({k}))
    <3>1. s = a + c - d /\ a \in Nat /\ c \in Nat /\ d \in Nat /\ c <= MaxSize
      BY <2>3, <2>5, <2>6, <2>7
    <3>2. Cardinality(BytesOf(rs \cup {k})) = s
      BY <2>4
    <3> HIDE DEF a, c, d, s
    <3>3. s <= a + MaxSize
      BY <3>1
    <3> QED BY <3>2, <3>3 DEF a
  <2> QED BY <2>8 DEF Bytes, BytesOf
<1> QED BY <1>2, <1>3, <1>4, <1>5, <1>6 DEF Bytes, BytesOf

\* Where no file is added, no upload either.
LEMMA OvershootKept ==
  ASSUME StorageOvershoot, TypeOK, file' \ free' \in SUBSET (file \ free), Uploading' \in SUBSET Uploading
  PROVE  StorageOvershoot'
<1> DEFINE b == Bytes(file \ free)
           u == Cardinality(Uploading)
           r == 2 * HalfMb * Limit + MaxSize * Cardinality(Workers)
<1>1. file \ free \in SUBSET Rows
  BY DEF TypeOK
<1>2. Bytes(file' \ free') <= b /\ Bytes(file' \ free') \in Nat /\ b \in Nat
  BY <1>1, BytesGrow
<1>3. IsFiniteSet(Uploading)
  BY FS_Subset DEF Uploading
<1>4. Cardinality(Uploading') <= u /\ Cardinality(Uploading') \in Nat /\ u \in Nat
  BY <1>3, FS_Subset, FS_CardinalityType
<1>5. /\ MaxSize * Cardinality(Uploading') <= MaxSize * u
      /\ MaxSize * Cardinality(Uploading') \in Nat /\ MaxSize * u \in Nat
  BY <1>4, Products
<1>6. r \in Nat
  BY FS_CardinalityType, Products
<1>7. b + MaxSize * u + HalfMb < r
  BY DEF StorageOvershoot
<1>8. Bytes(file' \ free') + MaxSize * Cardinality(Uploading') + HalfMb < r
  <2> HIDE DEF b, u, r
  <2> QED BY <1>2, <1>5, <1>6, <1>7
<1> QED BY <1>8 DEF StorageOvershoot

\* What the guard lets pass.
LEMMA GuardPassed ==
  ASSUME TypeOK, UnderLimit
  PROVE  Bytes(file) + HalfMb < 2 * HalfMb * Limit
<1> DEFINE n == Bytes(file) + HalfMb
           d == 2 * HalfMb
           q == n \div d
<1>1. n \in Nat /\ d \in Nat /\ d > 0 /\ Limit \in Nat
  BY BytesGrow DEF TypeOK
<1>2. q < Limit
  BY DEF UnderLimit, storageMb
<1> HIDE DEF n, d
<1>3. q \in Nat /\ n < d * q + d
  BY <1>1
<1> HIDE DEF q
<1>4. d * q + d <= d * Limit
  BY <1>1, <1>2, <1>3, Products
<1>5. n < d * Limit
  <2>1. d * q \in Nat /\ d * Limit \in Nat
    BY <1>1, <1>3, Products
  <2> QED BY <1>1, <1>3, <1>4, <2>1
<1> QED BY <1>5 DEF n, d

----------------------------------------------------------------------------

LEMMA InitIInv == Init => IInv
<1> SUFFICES ASSUME Init PROVE IInv
  OBVIOUS
<1>1. TypeOK
  <2>1. Blank \in Memory /\ "idle" \in Pc /\ "none" \in Link
    BY DEF Memory, Blank, Pc, Link
  <2>2. DocRows(NoDocument) = {}
    BY DEF DocRows, NoDocument
  <2> QED BY <2>1, <2>2 DEF Init, TypeOK
<1>2. MemorySane /\ NewIsOwn /\ LockHeld
  BY DEF Init, MemorySane, Sane, NewIsOwn, Making, LockHeld
<1>3. /\ AttachedOnce /\ CutIsGone /\ RemovalSane /\ DeletedAreGone /\ FilesHaveObjects
      /\ Charged
  BY DEF Init, AttachedOnce, CutIsGone, RemovalSane, DeletedAreGone, FilesHaveObjects, Charged
<1>4. StorageOvershoot
  <2>1. file \ free = {} /\ Uploading = {}
    BY DEF Init, Uploading
  <2>2. Cardinality(Workers) \in Nat /\ Cardinality({}) = 0 /\ Bytes({}) = 0
    BY FS_EmptySet, FS_CardinalityType, BytesGrow
  <2>3. MaxSize * Cardinality(Workers) \in Nat /\ MaxSize * 0 = 0
    BY <2>2, Products
  <2>4. HalfMb < 2 * HalfMb * Limit /\ 2 * HalfMb * Limit \in Nat
    <3>1. (2 * HalfMb) * 1 <= (2 * HalfMb) * Limit /\ (2 * HalfMb) * Limit \in Nat
      <4> DEFINE d == 2 * HalfMb
      <4>1. d \in Nat /\ 1 <= Limit /\ 1 \in Nat /\ Limit \in Nat
        OBVIOUS
      <4> HIDE DEF d
      <4>2. d * 1 <= d * Limit /\ d * Limit \in Nat
        BY <4>1, Products
      <4> QED BY <4>2 DEF d
    <3> QED BY <3>1
  <2> DEFINE a == 2 * HalfMb * Limit
             b == MaxSize * Cardinality(Workers)
  <2>5. a \in Nat /\ b \in Nat /\ HalfMb < a
    BY <2>3, <2>4
  <2>6. Bytes(file \ free) = 0 /\ MaxSize * Cardinality(Uploading) = 0
    BY <2>1, <2>2, <2>3
  <2> HIDE DEF a, b
  <2>7. 0 + 0 + HalfMb < a + b
    BY <2>5
  <2> QED BY <2>6, <2>7 DEF StorageOvershoot, a, b
<1> QED BY <1>1, <1>2, <1>3, <1>4 DEF IInv

----------------------------------------------------------------------------
(* What keeps the parts of the invariant *)

\* An object in the making, with nothing that names it but its maker.
Own(k) ==
  /\ k \in stored /\ k \notin file /\ k # logo
  /\ update[k] = "none" /\ invoice[k] = "none"

\* What the other requests have in the making.
Fresh(w) == {my[v].key : v \in Making \ {w}}

LEMMA FreshIsOwn ==
  ASSUME MemorySane, NewIsOwn, NEW w \in Workers, NEW k \in Fresh(w)
  PROVE  k \in Key /\ Own(k) /\ k \notin Held(w) \cup my[w].rows
  BY DEF Fresh, NewIsOwn, Own, Making, MemorySane, Sane

LEMMA NewIsOwnKept ==
  ASSUME NewIsOwn, NEW w \in Workers, NEW to, NEW m, Turn(w, to, m),
         \A k \in Fresh(w) : Own(k)' /\ k \notin {m.key} \cup m.keys \cup m.rows,
         to \in {"row", "versionRow", "logoRow"} =>
           /\ Own(m.key)'
           /\ \A v \in Workers \ {w} : m.key \notin Held(v) \cup my[v].rows
  PROVE  NewIsOwn'
<1>1. ASSUME NEW u \in Making'
      PROVE  Own(my[u].key)' /\ \A v \in Workers \ {u} : my'[u].key \notin (Held(v) \cup my[v].rows)'
  <2>1. CASE u = w
    BY <1>1, <2>1 DEF Making, Turn, Held, Own
  <2>2. CASE u # w
    <3>1. u \in Making \ {w} /\ my'[u] = my[u] /\ my[u].key \in Fresh(w)
      BY <1>1, <2>2 DEF Making, Turn, Fresh
    <3>2. ASSUME NEW v \in Workers \ {u}
          PROVE  my'[u].key \notin (Held(v) \cup my[v].rows)'
      BY <3>1 DEF NewIsOwn, Turn, Held
    <3> QED BY <3>1, <3>2 DEF Own
  <2> QED BY <2>1, <2>2
<1> QED BY <1>1 DEF NewIsOwn, Own

LEMMA AttachedOnceKept ==
  ASSUME TypeOK, MemorySane, AttachedOnce, NEW w \in Workers, NEW to, NEW m, Turn(w, to, m),
         to \notin Removing \cup {"attach"},
         \A v \in Workers \ {w} : pc[v] = "attach" => update'[my[v].key] = update[my[v].key]
  PROVE  AttachedOnce'
  BY DEF AttachedOnce, Turn

LEMMA RemovalSaneKept ==
  ASSUME MemorySane, RemovalSane, NEW w \in Workers, NEW to, NEW m, Turn(w, to, m),
         to \notin Removing,
         \A v \in Workers \ {w} : pc[v] \in Removing =>
           /\ my[v].key \in file' => my[v].key \in file
           /\ my[v].key \in stored' => my[v].key \in stored
           /\ update[my[v].key] = "none" => update'[my[v].key] = "none"
  PROVE  RemovalSane'
  BY DEF RemovalSane, Turn, Removing

LEMMA DeletedAreGoneKept ==
  ASSUME DeletedAreGone, NEW w \in Workers, NEW to, NEW m, Turn(w, to, m),
         logo' \notin file',
         \A v \in Workers \ {w} : my[v].keys \cap Key \cap file' \subseteq file,
         to \in {"sweep", "logoDelete"} => m.keys \cap Key \cap file' = {},
         to = "logoDelete" => m.keys \subseteq Key
  PROVE  DeletedAreGone'
<1>1. ASSUME NEW v \in Workers
      PROVE  /\ pc'[v] \in {"sweep", "logoDelete"} => my'[v].keys \cap Key \cap file' = {}
             /\ pc'[v] = "logoDelete" => my'[v].keys \subseteq Key
  <2>1. CASE v = w
    BY <2>1 DEF Turn
  <2>2. CASE v # w
    <3>1. pc'[v] = pc[v] /\ my'[v] = my[v]
      BY <2>2 DEF Turn
    <3>2. pc[v] \in {"sweep", "logoDelete"} => my[v].keys \cap Key \cap file = {}
      BY DEF DeletedAreGone
    <3>3. my[v].keys \cap Key \cap file' \subseteq file
      BY <2>2
    <3>4. pc[v] = "logoDelete" => my[v].keys \subseteq Key
      BY DEF DeletedAreGone
    <3> QED BY <3>1, <3>2, <3>3, <3>4
  <2> QED BY <2>1, <2>2
<1> QED BY <1>1 DEF DeletedAreGone

LEMMA LockHeldKept ==
  ASSUME LockHeld, NEW w \in Workers, NEW to, NEW m, Turn(w, to, m),
         to \notin {"versionRow", "signRow"}, Locked /\ doc # NoDocument => doc' # NoDocument \/ pc[w] \in {"versionRow", "signRow"}
  PROVE  LockHeld'
<1>1. ASSUME NEW v \in Workers, pc'[v] \in {"versionRow", "signRow"}
      PROVE  v # w /\ pc[v] = pc'[v] /\ Locked
  BY <1>1 DEF Turn, Locked
<1> QED BY <1>1 DEF LockHeld, Turn

----------------------------------------------------------------------------
(* Requests that begin *)

\* They read names of files, of updates and of the logo.
Named == file \cup Objects(file) \cup {logo, None} \cup {k \in Key : update[k] # "none"}

LEMMA Begins ==
  ASSUME IInv, NEW w \in Workers, NEW to, NEW m, Turn(w, to, m), Sane(to, m), pc[w] = "idle",
         to \in {"put", "removeRow", "updObject", "logoDelete", "docRows", "purge"},
         UNCHANGED <<stored, rowVars, history>>,
         {m.key} \cup m.keys \cup m.rows \subseteq Named,
         to = "updObject" => update[m.key] # "none" /\ (update[m.key] = "linked" => m.rows = {m.key}),
         to = "logoDelete" => m.keys \subseteq {logo} \ {None},
         to = "put" /\ Guarded(m.use) => UnderLimit
  PROVE  IInv'
<1>0. /\ TypeOK /\ MemorySane /\ NewIsOwn /\ AttachedOnce /\ CutIsGone /\ RemovalSane
      /\ DeletedAreGone /\ LockHeld /\ FilesHaveObjects /\ Charged /\ StorageOvershoot
  BY DEF IInv
<1>1. UNCHANGED <<stored, file, free, update, invoice, doc, logo, place, waste, half>>
  BY DEF rowVars, history
<1>2. TypeOK'
  BY <1>0, <1>1 DEF TypeOK, Turn, DocRows
<1>3. MemorySane'
  BY <1>0, MemorySaneKept
<1>4. NewIsOwn'
  <2>1. \A k \in Fresh(w) : k \in Key /\ Own(k)
    BY <1>0, FreshIsOwn
  <2>2. \A k \in Key : Own(k) => k \notin Named
    BY DEF Own, Named, Objects, Object
  <2>3. \A k : Own(k)' <=> Own(k)
    BY <1>1 DEF Own
  <2>4. \A k \in Fresh(w) : Own(k)' /\ k \notin {m.key} \cup m.keys \cup m.rows
    BY <2>1, <2>2, <2>3
  <2> QED BY <1>0, <2>4, NewIsOwnKept
<1>5. AttachedOnce'
  <2>1. \A v \in Workers \ {w} : pc[v] = "attach" /\ to = "updObject" => my[v].key # m.key
    BY <1>0 DEF AttachedOnce
  <2> QED BY <1>0, <1>1, <2>1 DEF AttachedOnce, Turn, Removing
<1>6. RemovalSane'
  BY <1>0, <1>1 DEF RemovalSane, Turn, CutIsGone, TypeOK, Link, Sane
<1>7. CutIsGone' /\ FilesHaveObjects'
  BY <1>0, <1>1 DEF CutIsGone, FilesHaveObjects
<1>8. DeletedAreGone'
  <2>1. to = "logoDelete" => m.keys \cap Key \cap file' = {} /\ m.keys \subseteq Key
    BY <1>0, <1>1 DEF DeletedAreGone, TypeOK
  <2> QED BY <1>0, <1>1, <2>1, DeletedAreGoneKept DEF DeletedAreGone
<1>9. LockHeld'
  BY <1>0, <1>1, LockHeldKept
<1>10. Charged'
  BY <1>0, <1>1 DEF Charged, LeftBehind, Turn
<1>11. StorageOvershoot'
  <2>1. CASE to = "put" /\ Guarded(m.use)
    <3>1. UnderLimit /\ file' \ free' \in SUBSET file /\ Uploading' \in SUBSET Workers
      BY <1>1, <2>1 DEF Uploading
    <3>2. Bytes(file) + HalfMb < 2 * HalfMb * Limit
      BY <1>0, <3>1, GuardPassed
    <3>3. Bytes(file' \ free') <= Bytes(file) /\ Bytes(file' \ free') \in Nat /\ Bytes(file) \in Nat
      BY <1>0, <3>1, BytesGrow DEF TypeOK
    <3>4. /\ Cardinality(Uploading') <= Cardinality(Workers) /\ Cardinality(Uploading') \in Nat
          /\ Cardinality(Workers) \in Nat
      BY <3>1, FS_Subset, FS_CardinalityType
    <3>5. /\ MaxSize * Cardinality(Uploading') <= MaxSize * Cardinality(Workers)
          /\ MaxSize * Cardinality(Uploading') \in Nat /\ MaxSize * Cardinality(Workers) \in Nat
      BY <3>4, Products
    <3>6. 2 * HalfMb * Limit \in Nat
      BY Products
    <3> QED BY <3>2, <3>3, <3>5, <3>6 DEF StorageOvershoot
  <2>2. CASE ~(to = "put" /\ Guarded(m.use))
    <3>1. Uploading' \in SUBSET Uploading
      BY <2>2 DEF Uploading, Turn
    <3> QED BY <1>0, <1>1, <3>1, OvershootKept
  <2> QED BY <2>1, <2>2
<1> QED BY <1>2, <1>3, <1>4, <1>5, <1>6, <1>7, <1>8, <1>9, <1>10, <1>11 DEF IInv

LEMMA UploadCheckStep ==
  ASSUME IInv, NEW w \in Workers, NEW use \in Uses, UploadCheck(w, use)
  PROVE  IInv'
<1> DEFINE m == [Blank EXCEPT !.use = use]
<1>1. m \in Memory /\ Sane("put", m) /\ {m.key} \cup m.keys \cup m.rows \subseteq Named /\ m.use = use
  BY DEF Memory, Blank, Sane, Named
<1>2. Turn(w, "put", m) /\ pc[w] = "idle" /\ UNCHANGED <<stored, rowVars, history>>
  BY <1>1, Turns DEF UploadCheck, Goto, Remember, Pc, IInv
<1> HIDE DEF m
<1> QED BY <1>1, <1>2, Begins DEF UploadCheck

LEMMA RemoveReadStep ==
  ASSUME IInv, NEW w \in Workers, NEW r \in Rows, RemoveRead(w, r)
  PROVE  IInv'
<1> DEFINE m == [Blank EXCEPT !.key = r, !.keys = {Object(r)}]
<1>1. /\ m \in Memory /\ Sane("removeRow", m)
      /\ {m.key} \cup m.keys \cup m.rows \subseteq Named
  BY DEF Memory, Blank, Sane, Named, RemoveRead, Objects, Object, Rows
<1>2. Turn(w, "removeRow", m) /\ pc[w] = "idle" /\ UNCHANGED <<stored, rowVars, history>>
  BY <1>1, Turns DEF RemoveRead, Goto, Remember, Pc, IInv
<1> HIDE DEF m
<1> QED BY <1>1, <1>2, Begins

LEMMA UpdateReadStep ==
  ASSUME IInv, NEW w \in Workers, NEW k \in Key, UpdateRead(w, k)
  PROVE  IInv'
<1> DEFINE m == [Blank EXCEPT !.key = k, !.rows = IF update[k] = "linked" THEN {k} ELSE {}]
<1>1. /\ m \in Memory /\ Sane("updObject", m) /\ m.key = k
      /\ {m.key} \cup m.keys \cup m.rows \subseteq Named
      /\ update[k] # "none" /\ (update[k] = "linked" => m.rows = {k})
  <2>1. update[k] # "none" /\ (update[k] = "linked" => k \in file)
    BY DEF UpdateRead, IInv, TypeOK
  <2>2. m.key = k /\ m.keys = {} /\ m.rows = (IF update[k] = "linked" THEN {k} ELSE {}) /\ m.use = None
    BY DEF Blank
  <2>3. m \in Memory
    BY DEF Memory, Blank, Rows
  <2> QED BY <2>1, <2>2, <2>3 DEF Sane, Named
<1>2. Turn(w, "updObject", m) /\ pc[w] = "idle" /\ UNCHANGED <<stored, rowVars, history>>
  BY <1>1, Turns DEF UpdateRead, Goto, Remember, Pc, IInv
<1> HIDE DEF m
<1> QED BY <1>1, <1>2, Begins

LEMMA LogoReadStep ==
  ASSUME IInv, NEW w \in Workers, NEW to \in {None, "new"}, LogoRead(w, to)
  PROVE  IInv'
<1> DEFINE m == [Blank EXCEPT !.keys = {logo} \ {None}, !.use = IF to = None THEN None ELSE "file"]
<1>1. /\ m \in Memory /\ Sane("logoDelete", m)
      /\ {m.key} \cup m.keys \cup m.rows \subseteq Named
      /\ m.keys \subseteq {logo} \ {None}
  BY DEF Memory, Blank, Sane, Named, LogoRead, Rows, Uses, IInv, TypeOK
<1>2. Turn(w, "logoDelete", m) /\ pc[w] = "idle" /\ UNCHANGED <<stored, rowVars, history>>
  BY <1>1, Turns DEF LogoRead, Goto, Remember, Pc, IInv
<1> HIDE DEF m
<1> QED BY <1>1, <1>2, Begins

LEMMA DocReadStep ==
  ASSUME IInv, NEW w \in Workers, DocRead(w)
  PROVE  IInv'
<1> DEFINE m == [Blank EXCEPT !.key = doc.file, !.rows = DocRows(doc), !.keys = Objects(DocRows(doc))]
<1>1. doc.file \in Key /\ DocRows(doc) \in SUBSET file /\ file \in SUBSET Rows /\ doc.file \in DocRows(doc)
  BY DEF IInv, TypeOK, DocRead, Document, DocRows
<1>2. Objects(DocRows(doc)) \subseteq Objects(file) /\ Objects(DocRows(doc)) \subseteq Key \cup {SignedPdf}
  BY <1>1 DEF Objects, Object, Rows
<1>3. /\ m \in Memory /\ Sane("docRows", m)
      /\ {m.key} \cup m.keys \cup m.rows \subseteq Named
  <2>1. m.key = doc.file /\ m.keys = Objects(DocRows(doc)) /\ m.rows = DocRows(doc)
    BY DEF Blank
  <2>2. m \in Memory
    BY <1>1, <1>2 DEF Memory, Blank, Rows
  <2> HIDE DEF m
  <2> QED BY <1>1, <1>2, <2>1, <2>2 DEF Sane, Named
<1>4. Turn(w, "docRows", m) /\ pc[w] = "idle" /\ UNCHANGED <<stored, rowVars, history>>
  BY <1>3, Turns DEF DocRead, Goto, Remember, Pc, IInv
<1> HIDE DEF m
<1> QED BY <1>3, <1>4, Begins

LEMMA PurgeReadStep ==
  ASSUME IInv, NEW w \in Workers, PurgeRead(w)
  PROVE  IInv'
<1> DEFINE m == [Blank EXCEPT !.keys = Objects(file)]
<1>1. Objects(file) \subseteq Key \cup {SignedPdf}
  BY DEF IInv, TypeOK, Objects, Object, Rows
<1>2. m \in Memory /\ Sane("purge", m) /\ {m.key} \cup m.keys \cup m.rows \subseteq Named
  BY <1>1 DEF Memory, Blank, Sane, Named
<1>3. Turn(w, "purge", m) /\ pc[w] = "idle" /\ UNCHANGED <<stored, rowVars, history>>
  BY <1>2, Turns DEF PurgeRead, Goto, Remember, Pc, IInv
<1> HIDE DEF m
<1> QED BY <1>2, <1>3, Begins

----------------------------------------------------------------------------
(* Requests that end, or go on to delete objects, to store a logo or to     *)
(* attach a file                                                           *)

LEMMA ChargedKept ==
  ASSUME Charged, NEW w \in Workers, NEW to, NEW m, Turn(w, to, m),
         \A o \in stored' :
           o \notin stored \/ o \in Objects(file) \cup {logo} \cup waste \cup LeftBehind(pc[w], my[w])
             => o \in Objects(file') \cup {logo'} \cup waste' \cup LeftBehind(to, m)
  PROVE  Charged'
<1> SUFFICES ASSUME NEW o \in stored',
                    o \notin Objects(file') \cup {logo'} \cup waste'
             PROVE  \E v \in Workers : o \in LeftBehind(pc'[v], my'[v])
  BY DEF Charged, Objects
<1>1. CASE o \in LeftBehind(to, m)
  BY <1>1 DEF Turn
<1>2. CASE o \notin LeftBehind(to, m)
  <2>1. o \in stored /\ o \notin Objects(file) \cup {logo} \cup waste \cup LeftBehind(pc[w], my[w])
    BY <1>2
  <2>2. PICK v \in Workers : o \in LeftBehind(pc[v], my[v])
    BY <2>1 DEF Charged
  <2>3. v # w /\ pc'[v] = pc[v] /\ my'[v] = my[v]
    BY <2>1, <2>2 DEF Turn
  <2> QED BY <2>2, <2>3
<1> QED BY <1>1, <1>2

LEMMA Ends ==
  ASSUME IInv, NEW w \in Workers, NEW to \in {"idle", "sweep", "logoPut", "logoClear", "attach"}, NEW m,
         Turn(w, to, m), TypeOK', Sane(to, m),
         {m.key} \cup m.keys \cup m.rows \subseteq Named \cup Held(w) \cup my[w].rows,
         to = "attach" => pc[w] = "row" /\ m = my[w] /\ update' = update,
         stored' \subseteq stored,
         file' \cap Key \subseteq file \/ (w \in Making /\ file' \cap Key \subseteq file \cup {my[w].key}),
         logo' \notin file',
         \A k \in Key : Own(k) /\ k # my[w].key /\ k \notin my[w].keys => Own(k)',
         \A k \in Key : update[k] = "none" /\ update'[k] # "none" => pc[w] = "attach" /\ k = my[w].key,
         CutIsGone',
         to = "sweep" => m.keys \cap Key \cap file' = {},
         doc # NoDocument /\ doc' = NoDocument => ~Locked,
         FilesHaveObjects',
         \A o \in stored :
           o \in Objects(file) \cup {logo} \cup waste \cup LeftBehind(pc[w], my[w]) /\ o \in stored'
             => o \in Objects(file') \cup {logo'} \cup waste' \cup LeftBehind(to, m),
         StorageOvershoot'
  PROVE  IInv'
<1>0. /\ TypeOK /\ MemorySane /\ NewIsOwn /\ AttachedOnce /\ CutIsGone /\ RemovalSane
      /\ DeletedAreGone /\ LockHeld /\ FilesHaveObjects /\ Charged /\ StorageOvershoot
  BY DEF IInv
<1>1. MemorySane'
  BY <1>0, MemorySaneKept
<1>2. NewIsOwn'
  <2>1. ASSUME NEW k \in Fresh(w)
        PROVE  k \in Key /\ Own(k) /\ k \notin Held(w) \cup my[w].rows
    BY <1>0, FreshIsOwn
  <2>2. ASSUME NEW k \in Fresh(w)
        PROVE  Own(k)' /\ k \notin {m.key} \cup m.keys \cup m.rows
    <3>1. k \notin Named
      BY <2>1 DEF Own, Named, Objects, Object
    <3>2. Own(k)'
      BY <2>1 DEF Held
    <3> QED BY <2>1, <3>1, <3>2
  <2> QED BY <1>0, <2>2, NewIsOwnKept
<1>3. AttachedOnce'
  <2>1. ASSUME NEW v \in Workers \ {w}, pc[v] = "attach"
        PROVE  update'[my[v].key] = update[my[v].key]
    <3>1. my[v].key \in Key /\ update[my[v].key] = "none"
      BY <1>0, <2>1 DEF AttachedOnce, MemorySane, Sane
    <3>2. pc[w] = "attach" => my[w].key # my[v].key
      BY <1>0, <2>1 DEF AttachedOnce
    <3> QED BY <3>1, <3>2
  <2>2. CASE to # "attach"
    BY <1>0, <2>1, <2>2, AttachedOnceKept DEF Removing
  <2>3. CASE to = "attach"
    <3>1. w \in Making /\ my'[w] = my[w] /\ update' = update
      BY <2>3 DEF Making, Turn
    <3>2. update[my[w].key] = "none" /\ \A v \in Workers \ {w} : my[v].key # my[w].key
      BY <1>0, <3>1 DEF NewIsOwn, Held
    <3> QED BY <1>0, <3>1, <3>2 DEF AttachedOnce, Turn
  <2> QED BY <2>2, <2>3
<1>4. RemovalSane'
  <2>1. ASSUME NEW v \in Workers \ {w}, pc[v] \in Removing
        PROVE  /\ my[v].key \in file' => my[v].key \in file
               /\ my[v].key \in stored' => my[v].key \in stored
               /\ update[my[v].key] = "none" => update'[my[v].key] = "none"
    <3>1. my[v].key \in Key
      BY <1>0, <2>1 DEF MemorySane, Sane, Removing
    <3>2. pc[w] = "attach" => my[w].key # my[v].key
      BY <1>0, <2>1 DEF AttachedOnce
    <3>3. w \in Making => my[w].key # my[v].key
      BY <1>0, <2>1 DEF NewIsOwn, Held
    <3> QED BY <3>1, <3>2, <3>3
  <2> QED BY <1>0, <2>1, RemovalSaneKept DEF Removing
<1>5. DeletedAreGone'
  <2>1. ASSUME NEW v \in Workers \ {w}
        PROVE  my[v].keys \cap Key \cap file' \subseteq file
    <3>1. w \in Making => my[w].key \notin my[v].keys
      BY <1>0, <2>1 DEF NewIsOwn, Held
    <3> QED BY <3>1
  <2> QED BY <1>0, <2>1, DeletedAreGoneKept
<1>6. LockHeld'
  <2>1. Locked /\ doc # NoDocument => doc' # NoDocument \/ pc[w] \in {"versionRow", "signRow"}
    OBVIOUS
  <2> QED BY <1>0, <2>1, LockHeldKept
<1>7. Charged'
  BY <1>0, ChargedKept
<1> QED BY <1>0, <1>1, <1>2, <1>3, <1>4, <1>5, <1>6, <1>7 DEF IInv

\* Rows that go take nothing in the making with them; they only cut links.
LEMMA CutKeeps ==
  ASSUME NEW rs \in SUBSET Rows, NEW links \in [Key -> Link]
  PROVE  /\ Cut(links, rs) \in [Key -> Link]
         /\ \A k \in Key : /\ links[k] = "none" <=> Cut(links, rs)[k] = "none"
                           /\ Cut(links, rs)[k] = "linked" => links[k] = "linked" /\ k \notin rs
                           /\ Cut(links, rs)[k] = "cut" => links[k] = "cut" \/ k \in rs
  BY DEF Cut, Link

\* Where no row changes, and objects are deleted or given up.
LEMMA Drops ==
  ASSUME IInv, NEW w \in Workers, NEW to \in {"idle", "sweep", "logoPut", "logoClear"}, NEW m,
         Turn(w, to, m), Sane(to, m), m = Blank, UNCHANGED <<rowVars, half>>,
         stored' \in SUBSET stored, waste' \in SUBSET stored',
         stored \ stored' \subseteq my[w].keys, my[w].keys \cap Key \cap file \cap stored \subseteq stored',
         (waste \cup LeftBehind(pc[w], my[w])) \cap stored' \subseteq waste'
  PROVE  IInv'
<1>0. /\ TypeOK /\ MemorySane /\ NewIsOwn /\ AttachedOnce /\ CutIsGone /\ RemovalSane
      /\ DeletedAreGone /\ LockHeld /\ FilesHaveObjects /\ Charged /\ StorageOvershoot
  BY DEF IInv
<1>1. UNCHANGED <<file, free, update, invoice, doc, logo, place, half>>
  BY DEF rowVars
<1>2. TypeOK'
  BY <1>0, <1>1 DEF TypeOK, Turn, DocRows
<1>3. {m.key} \cup m.keys \cup m.rows \subseteq Named
  BY DEF Blank, Named
<1>4. \A k \in Key : Own(k) /\ k # my[w].key /\ k \notin my[w].keys => Own(k)'
  BY <1>1 DEF Own
<1>5. CutIsGone' /\ logo' \notin file' /\ file' \cap Key \subseteq file
  BY <1>0, <1>1 DEF CutIsGone, DeletedAreGone
<1>6. FilesHaveObjects'
  BY <1>0, <1>1 DEF FilesHaveObjects
<1>7. \A o \in stored : o \in Objects(file) \cup {logo} \cup waste \cup LeftBehind(pc[w], my[w]) /\ o \in stored'
         => o \in Objects(file') \cup {logo'} \cup waste' \cup LeftBehind(to, m)
  BY <1>1
<1>8. StorageOvershoot'
  <2>1. Uploading' \in SUBSET Uploading
    BY DEF Uploading, Turn
  <2> QED BY <1>0, <1>1, <2>1, OvershootKept
<1>9. /\ \A k \in Key : update[k] = "none" /\ update'[k] # "none" => pc[w] = "attach" /\ k = my[w].key
      /\ doc # NoDocument /\ doc' = NoDocument => ~Locked
      /\ to = "sweep" => m.keys \cap Key \cap file' = {}
  BY <1>1 DEF Blank
<1> QED BY <1>2, <1>3, <1>4, <1>5, <1>6, <1>7, <1>8, <1>9, Ends

LEMMA FailStep ==
  ASSUME IInv, NEW w \in Workers, Fail(w)
  PROVE  IInv'
<1>1. TypeOK /\ Blank \in Memory /\ Sane("idle", Blank) /\ "idle" \in Pc
  BY Typed DEF IInv, Sane, Pc, Blank
<1>2. Turn(w, "idle", Blank)
  BY <1>1, Turns DEF Fail, Remember
<1>3. stored' = stored /\ waste' = waste \cup (LeftBehind(pc[w], my[w]) \cap stored) /\ waste \in SUBSET stored
  BY <1>1 DEF Fail, TypeOK
<1>4. my[w].keys \cap Key \cap file \cap stored \subseteq stored'
  BY <1>3
<1>5. UNCHANGED <<rowVars, half>>
  BY DEF Fail
<1> QED BY <1>1, <1>2, <1>3, <1>4, <1>5, Drops

LEMMA SweepStep ==
  ASSUME IInv, NEW w \in Workers, Sweep(w)
  PROVE  IInv'
<1>1. TypeOK /\ Blank \in Memory /\ Sane("idle", Blank) /\ "idle" \in Pc
  BY Typed DEF IInv, Sane, Pc, Blank
<1>2. Turn(w, "idle", Blank)
  BY <1>1, Turns DEF Sweep, Done, Goto, Remember
<1>3. /\ stored' \in SUBSET stored /\ waste' \in SUBSET stored'
      /\ stored \ stored' \subseteq my[w].keys
      /\ (waste \cup my[w].keys) \cap stored' \subseteq waste'
  BY <1>1 DEF Sweep, DeleteObjects, TypeOK
<1>4. pc[w] = "sweep" /\ LeftBehind(pc[w], my[w]) = my[w].keys /\ UNCHANGED <<rowVars, half>>
  BY DEF Sweep, Done, Goto, LeftBehind
<1>5. my[w].keys \cap Key \cap file \cap stored \subseteq stored'
  BY <1>4 DEF IInv, DeletedAreGone
<1> QED BY <1>1, <1>2, <1>3, <1>4, <1>5, Drops

LEMMA LogoDeleteStep ==
  ASSUME IInv, NEW w \in Workers, LogoDelete(w)
  PROVE  IInv'
<1> DEFINE to == IF my[w].use = None THEN "logoClear" ELSE "logoPut"
<1>1. TypeOK /\ Blank \in Memory /\ Sane(to, Blank) /\ to \in Pc
  BY Typed DEF IInv, Sane, Pc, Blank
<1>2. Turn(w, to, Blank)
  BY <1>1, Turns DEF LogoDelete, Goto, Remember
<1>3. /\ stored' \in SUBSET stored /\ waste' \in SUBSET stored'
      /\ stored \ stored' \subseteq my[w].keys /\ waste \cap stored' \subseteq waste'
  BY <1>1 DEF LogoDelete, DeleteObjects, TypeOK
<1>4. pc[w] = "logoDelete" /\ LeftBehind(pc[w], my[w]) = {} /\ UNCHANGED <<rowVars, half>>
  BY DEF LogoDelete, Goto, LeftBehind
<1>5. my[w].keys \cap Key \cap file \cap stored \subseteq stored'
  BY <1>4 DEF IInv, DeletedAreGone
<1>6. to \in {"idle", "sweep", "logoPut", "logoClear"}
  OBVIOUS
<1> HIDE DEF to
<1> QED BY <1>1, <1>2, <1>3, <1>4, <1>5, <1>6, Drops

\* Where File rows are deleted, and the links to them cut.
LEMMA Cuts ==
  ASSUME IInv, NEW w \in Workers, NEW to \in {"idle", "sweep"}, NEW m, Turn(w, to, m), Sane(to, m),
         {m.key} \cup m.keys \cup m.rows \subseteq Named \cup Held(w) \cup my[w].rows,
         NEW rs \in SUBSET Rows, file' = file \ rs, free' = free \ rs,
         invoice' = Cut(invoice, rs),
         update' = Cut(update, rs) \/ (update' = update /\ \A k \in Key \cap rs : update[k] = "none"),
         UNCHANGED <<stored, waste, logo, place>>,
         half' \in SUBSET Key, half \subseteq half' \cup rs,
         doc' \in Document \cup {NoDocument}, DocRows(doc)' \in SUBSET (DocRows(doc) \ rs),
         doc # NoDocument /\ doc' = NoDocument => ~Locked,
         to = "sweep" => m.keys \cap Key \cap file' = {},
         Objects(rs \cap file) \cap stored \subseteq LeftBehind(to, m), LeftBehind(pc[w], my[w]) = {}
  PROVE  IInv'
<1>0. /\ TypeOK /\ MemorySane /\ NewIsOwn /\ AttachedOnce /\ CutIsGone /\ RemovalSane
      /\ DeletedAreGone /\ LockHeld /\ FilesHaveObjects /\ Charged /\ StorageOvershoot
  BY DEF IInv
<1>1. /\ update \in [Key -> Link] /\ invoice \in [Key -> Link] /\ free \in SUBSET file /\ file \in SUBSET Rows
      /\ DocRows(doc) \in SUBSET file
  BY <1>0 DEF TypeOK
<1>2. /\ invoice' \in [Key -> Link]
      /\ \A k \in Key : /\ invoice[k] = "none" <=> invoice'[k] = "none"
                        /\ invoice'[k] = "linked" => invoice[k] = "linked" /\ k \notin rs
  BY <1>1, CutKeeps
<1>3. /\ update' \in [Key -> Link]
      /\ \A k \in Key : /\ update[k] = "none" <=> update'[k] = "none"
                        /\ update'[k] = "linked" => update[k] = "linked" /\ k \notin rs
                        /\ update'[k] = "cut" => update[k] = "cut" \/ k \in rs
  <2>1. CASE update' = Cut(update, rs)
    BY <1>1, <2>1, CutKeeps
  <2>2. CASE update' = update /\ \A k \in Key \cap rs : update[k] = "none"
    BY <1>1, <2>2
  <2> QED BY <2>1, <2>2
<1>4. TypeOK'
  <2>1. /\ file' \in SUBSET Rows /\ free' \in SUBSET file' /\ DocRows(doc)' \in SUBSET file'
    BY <1>1
  <2>2. \A k \in Key : "linked" \in {update'[k], invoice'[k]} => k \in file'
    BY <1>0, <1>2, <1>3 DEF TypeOK
  <2>3. pc' \in [Workers -> Pc] /\ my' \in [Workers -> Memory]
    BY DEF Turn
  <2> QED BY <1>0, <1>2, <1>3, <2>1, <2>2, <2>3 DEF TypeOK
<1>5. \A k \in Key : Own(k) /\ k # my[w].key /\ k \notin my[w].keys => Own(k)'
  BY <1>2, <1>3 DEF Own
<1>6. CutIsGone'
  BY <1>0, <1>3 DEF CutIsGone
<1>7. FilesHaveObjects'
  BY <1>0 DEF FilesHaveObjects
<1>8. \A o \in stored : o \in Objects(file) \cup {logo} \cup waste \cup LeftBehind(pc[w], my[w]) /\ o \in stored'
         => o \in Objects(file') \cup {logo'} \cup waste' \cup LeftBehind(to, m)
  BY DEF Objects
<1>9. StorageOvershoot'
  <2>1. Uploading' \in SUBSET Uploading
    BY DEF Uploading, Turn
  <2> QED BY <1>0, <2>1, OvershootKept
<1>10. logo' \notin file' /\ file' \cap Key \subseteq file
  BY <1>0 DEF DeletedAreGone
<1>11. \A k \in Key : update[k] = "none" /\ update'[k] # "none" => pc[w] = "attach" /\ k = my[w].key
  BY <1>3
<1>12. /\ stored' \subseteq stored /\ to \in {"idle", "sweep", "logoPut", "logoClear"}
       /\ Turn(w, to, m) /\ Sane(to, m)
       /\ {m.key} \cup m.keys \cup m.rows \subseteq Named \cup Held(w) \cup my[w].rows
       /\ doc # NoDocument /\ doc' = NoDocument => ~Locked
       /\ to = "sweep" => m.keys \cap Key \cap file' = {}
  OBVIOUS
<1> QED
  BY ONLY IInv, w \in Workers, <1>4, <1>5, <1>6, <1>7, <1>8, <1>9, <1>10, <1>11, <1>12, Ends

LEMMA RemoveRowStep ==
  ASSUME IInv, NEW w \in Workers, RemoveRow(w)
  PROVE  IInv'
<1> DEFINE r == my[w].key
           m == my[w]
<1>1. TypeOK /\ "sweep" \in Pc /\ Sane("sweep", m) /\ pc[w] = "removeRow"
  BY DEF IInv, Sane, Pc, RemoveRow, Goto
<1>2. Turn(w, "sweep", m)
  BY <1>1, Walks DEF RemoveRow, Goto
<1>3. /\ r \in Rows /\ m.keys = {Object(r)} /\ {r} \in SUBSET Rows
      /\ LeftBehind(pc[w], my[w]) = {} /\ LeftBehind("sweep", m) = {Object(r)}
  BY <1>1 DEF IInv, MemorySane, Sane, LeftBehind
<1>4. /\ file' = file \ {r} /\ free' = free \ {r} /\ invoice' = Cut(invoice, {r})
      /\ update' = Cut(update, {r}) /\ UNCHANGED <<stored, waste, half, logo, place>>
      /\ r \notin doc.versions /\ (r \in DocRows(doc) => ~Locked)
      /\ doc' = IF doc.file = r THEN NoDocument ELSE [doc EXCEPT !.signed = IF @ = r THEN None ELSE @]
  BY DEF RemoveRow, DropFiles, history
<1>5. /\ doc' \in Document \cup {NoDocument} /\ DocRows(doc)' \in SUBSET (DocRows(doc) \ {r})
      /\ doc # NoDocument /\ doc' = NoDocument => ~Locked
  <2>1. CASE doc = NoDocument
    BY <1>3, <1>4, <2>1 DEF NoDocument, DocRows, Rows
  <2>2. CASE doc \in Document
    BY <1>3, <1>4, <2>2 DEF Document, NoDocument, DocRows, Rows
  <2> QED BY <1>1, <2>1, <2>2 DEF TypeOK
<1>6. Objects({r} \cap file) \subseteq {Object(r)} /\ m.keys \cap Key \cap file' = {}
  BY <1>3, <1>4 DEF Objects, Object, Rows
<1>7. {m.key} \cup m.keys \cup m.rows \subseteq Named \cup Held(w) \cup my[w].rows /\ half \in SUBSET Key
  BY <1>1 DEF Held, TypeOK
<1> HIDE DEF r, m
<1> QED BY <1>1, <1>2, <1>3, <1>4, <1>5, <1>6, <1>7, Cuts

LEMMA DocRemoveStep ==
  ASSUME IInv, NEW w \in Workers, DocRemove(w)
  PROVE  IInv'
<1> DEFINE rs == my[w].rows
           m == my[w]
<1>1. TypeOK /\ "sweep" \in Pc /\ Sane("sweep", m) /\ pc[w] = "docRows"
  BY DEF IInv, Sane, Pc, DocRemove, Goto
<1>2. Turn(w, "sweep", m)
  BY <1>1, Walks DEF DocRemove, Goto
<1>3. /\ rs \in SUBSET Rows /\ m.keys = Objects(rs)
      /\ LeftBehind(pc[w], my[w]) = {} /\ LeftBehind("sweep", m) = Objects(rs)
  BY <1>1, Typed DEF IInv, MemorySane, Sane, LeftBehind
<1>4. /\ file' = file \ rs /\ free' = free \ rs /\ invoice' = Cut(invoice, rs)
      /\ update' = Cut(update, rs) /\ UNCHANGED <<stored, waste, half, logo, place>>
      /\ doc' = NoDocument /\ ~Locked
  BY DEF DocRemove, DropFiles, history
<1>5. doc' \in Document \cup {NoDocument} /\ DocRows(doc)' = {}
  BY <1>4 DEF DocRows, NoDocument
<1>6. Objects(rs \cap file) \subseteq Objects(rs) /\ m.keys \cap Key \cap file' = {}
  BY <1>3, <1>4 DEF Objects, Object, Rows
<1>7. {m.key} \cup m.keys \cup m.rows \subseteq Named \cup Held(w) \cup my[w].rows /\ half \in SUBSET Key
  BY <1>1 DEF Held, TypeOK
<1> HIDE DEF rs, m
<1> QED BY <1>1, <1>2, <1>3, <1>4, <1>5, <1>6, <1>7, Cuts

LEMMA UpdateFileStep ==
  ASSUME IInv, NEW w \in Workers, UpdateFile(w)
  PROVE  IInv'
<1> DEFINE rs == IF my[w].rows \cap doc.versions = {} THEN my[w].rows ELSE {}
<1>1. TypeOK /\ Blank \in Memory /\ Sane("idle", Blank) /\ "idle" \in Pc /\ pc[w] = "updFile"
  BY Typed DEF IInv, Sane, Pc, Blank, UpdateFile, Done, Goto
<1>2. Turn(w, "idle", Blank)
  BY <1>1, Turns DEF UpdateFile, Done, Goto, Remember
<1>3. /\ my[w].rows \subseteq {my[w].key} /\ my[w].key \in Key /\ my[w].key \notin stored
      /\ update[my[w].key] = "none" /\ LeftBehind(pc[w], my[w]) = {}
  BY <1>1 DEF IInv, MemorySane, Sane, RemovalSane, LeftBehind
<1>4. /\ rs \in SUBSET Rows /\ rs \subseteq {my[w].key} /\ (\A k \in Key \cap rs : update[k] = "none")
      /\ Objects(rs \cap file) \cap stored = {}
  BY <1>3 DEF Objects, Object, Rows
<1>5. /\ file' = file \ rs /\ free' = free \ rs /\ invoice' = Cut(invoice, rs) /\ update' = update
      /\ half' = half \ rs /\ UNCHANGED <<stored, waste, logo, place>>
      /\ doc' = IF doc.file \in rs THEN NoDocument ELSE doc
      /\ rs \cap doc.versions = {} /\ (doc.file \in rs => rs \cap DocRows(doc) = {} \/ ~Locked)
  <2>1. CASE my[w].rows \cap doc.versions = {}
    BY <2>1 DEF UpdateFile, DropFiles
  <2>2. CASE my[w].rows \cap doc.versions # {}
    BY <1>1, <2>2 DEF UpdateFile, Cut, TypeOK, Link
  <2> QED BY <2>1, <2>2
<1>6. /\ doc' \in Document \cup {NoDocument} /\ DocRows(doc)' \in SUBSET (DocRows(doc) \ rs)
      /\ doc # NoDocument /\ doc' = NoDocument => ~Locked
  <2>1. CASE doc = NoDocument
    BY <1>3, <1>4, <1>5, <2>1 DEF NoDocument, DocRows, Rows
  <2>2. CASE doc \in Document
    BY <1>3, <1>4, <1>5, <2>2 DEF Document, NoDocument, DocRows, Rows
  <2> QED BY <1>1, <2>1, <2>2 DEF TypeOK
<1>7. {Blank.key} \cup Blank.keys \cup Blank.rows \subseteq Named /\ half \in SUBSET Key
  BY <1>1 DEF Blank, Named, TypeOK
<1> HIDE DEF rs
<1> QED BY <1>1, <1>2, <1>3, <1>4, <1>5, <1>6, <1>7, Cuts

\* Where only the row of a signed PDF goes, no other object loses its row.
LEMMA SignedPdfOnly ==
  ASSUME \A r \in file : r \in file' \/ r = doc.signed, doc.signed \in Sig \cup {None}, None \notin file
  PROVE  Objects(file) \subseteq Objects(file') \cup {SignedPdf}
<1> SUFFICES ASSUME NEW r \in file
             PROVE  Object(r) \in Objects(file') \cup {SignedPdf}
  BY DEF Objects
<1>1. CASE r \in file'
  BY <1>1 DEF Objects
<1>2. CASE r \in Sig
  BY <1>2 DEF Object
<1> QED BY <1>1, <1>2

LEMMA AttachStep ==
  ASSUME IInv, NEW w \in Workers, Attach(w)
  PROVE  IInv'
<1>0. /\ TypeOK /\ MemorySane /\ NewIsOwn /\ AttachedOnce /\ CutIsGone /\ RemovalSane
      /\ DeletedAreGone /\ LockHeld /\ FilesHaveObjects /\ Charged /\ StorageOvershoot
  BY DEF IInv
<1> DEFINE k == my[w].key
<1>1. Blank \in Memory /\ Sane("idle", Blank) /\ "idle" \in Pc /\ pc[w] = "attach" /\ k \in Key /\ k \in file
  BY <1>0, Typed DEF Sane, Pc, Blank, Attach, Done, Goto, MemorySane
<1>2. Turn(w, "idle", Blank)
  BY <1>0, <1>1, Turns DEF Attach, Done, Goto, Remember
<1>3. /\ UNCHANGED <<stored, file, free, logo, place, waste, half>>
      /\ update' = update \/ update' = [update EXCEPT ![k] = "linked"]
      /\ invoice' = invoice \/ invoice' = [invoice EXCEPT ![k] = "linked"]
      /\ doc' = doc \/ (doc = NoDocument /\ doc' = [NoDocument EXCEPT !.file = k])
  BY DEF Attach, history
<1>4. doc' \in Document \cup {NoDocument} /\ DocRows(doc)' \subseteq file
  <2>1. CASE doc' = doc
    BY <1>0, <2>1 DEF TypeOK, DocRows
  <2>2. CASE doc = NoDocument /\ doc' = [NoDocument EXCEPT !.file = k]
    BY <1>1, <2>2 DEF Document, NoDocument, DocRows
  <2> QED BY <1>3, <2>1, <2>2
<1>5. /\ update' \in [Key -> Link] /\ invoice' \in [Key -> Link]
      /\ \A j \in Key : j # k => update'[j] = update[j] /\ invoice'[j] = invoice[j]
      /\ update'[k] \in {update[k], "linked"} /\ invoice'[k] \in {invoice[k], "linked"}
  BY <1>0, <1>1, <1>3 DEF TypeOK, Link
<1>6. TypeOK'
  <2>1. pc' \in [Workers -> Pc] /\ my' \in [Workers -> Memory]
    BY <1>2 DEF Turn
  <2>2. \A j \in Key : "linked" \in {update'[j], invoice'[j]} => j \in file'
    BY <1>0, <1>1, <1>3, <1>5 DEF TypeOK
  <2> QED BY <1>0, <1>3, <1>4, <1>5, <2>1, <2>2 DEF TypeOK
<1>7. \A j \in Key : Own(j) /\ j # k /\ j \notin my[w].keys => Own(j)'
  BY <1>3, <1>5 DEF Own
<1>8. \A j \in Key : update[j] = "none" /\ update'[j] # "none" => pc[w] = "attach" /\ j = k
  BY <1>1, <1>5
<1>9. CutIsGone' /\ FilesHaveObjects' /\ logo' \notin file'
  BY <1>0, <1>3, <1>5 DEF CutIsGone, FilesHaveObjects, DeletedAreGone
<1>10. \A o \in stored : o \in Objects(file) \cup {logo} \cup waste \cup LeftBehind(pc[w], my[w]) /\ o \in stored'
         => o \in Objects(file') \cup {logo'} \cup waste' \cup LeftBehind("idle", Blank)
  BY <1>1, <1>3 DEF LeftBehind
<1>11. StorageOvershoot'
  <2>1. Uploading' \in SUBSET Uploading /\ file' \ free' = file \ free
    BY <1>2, <1>3 DEF Uploading, Turn
  <2> QED BY <1>0, <2>1, OvershootKept
<1>12. /\ {Blank.key} \cup Blank.keys \cup Blank.rows \subseteq Named
       /\ doc # NoDocument /\ doc' = NoDocument => ~Locked
       /\ file' \cap Key \subseteq file /\ stored' \subseteq stored
  BY <1>3 DEF Blank, Named
<1> QED
  BY ONLY IInv, w \in Workers, <1>1, <1>2, <1>6, <1>7, <1>8, <1>9, <1>10, <1>11, <1>12, Ends

LEMMA LogoWriteStep ==
  ASSUME IInv, NEW w \in Workers, LogoWrite(w)
  PROVE  IInv'
<1>0. /\ TypeOK /\ MemorySane /\ NewIsOwn /\ AttachedOnce /\ CutIsGone /\ RemovalSane
      /\ DeletedAreGone /\ LockHeld /\ FilesHaveObjects /\ Charged /\ StorageOvershoot
  BY DEF IInv
<1> DEFINE k == my[w].key
<1>1. /\ Blank \in Memory /\ Sane("idle", Blank) /\ "idle" \in Pc /\ pc[w] \in {"logoRow", "logoClear"}
      /\ k \in Key \cup {None} /\ k \notin file
      /\ LeftBehind(pc[w], my[w]) \subseteq {k}
  BY <1>0, Typed DEF Sane, Pc, Blank, LogoWrite, MemorySane, NewIsOwn, Making, LeftBehind, Rows
<1>2. Turn(w, "idle", Blank)
  BY <1>0, <1>1, Turns DEF LogoWrite, Goto, Remember
<1>3. /\ UNCHANGED <<stored, file, free, update, invoice, doc, place, half>>
      /\ logo' = k /\ waste' = waste \cup (({logo} \ {None}) \cap stored)
  BY DEF LogoWrite
<1>4. None \notin stored
  BY <1>0 DEF TypeOK
<1>5. TypeOK'
  <2>1. pc' \in [Workers -> Pc] /\ my' \in [Workers -> Memory] /\ DocRows(doc)' = DocRows(doc)
    BY <1>2, <1>3 DEF Turn, DocRows
  <2> QED BY <1>0, <1>1, <1>3, <2>1 DEF TypeOK
<1>6. \A j \in Key : Own(j) /\ j # k /\ j \notin my[w].keys => Own(j)'
  BY <1>3 DEF Own
<1>7. CutIsGone' /\ FilesHaveObjects' /\ logo' \notin file'
  BY <1>0, <1>1, <1>3 DEF CutIsGone, FilesHaveObjects
<1>8. \A o \in stored : o \in Objects(file) \cup {logo} \cup waste \cup LeftBehind(pc[w], my[w]) /\ o \in stored'
         => o \in Objects(file') \cup {logo'} \cup waste' \cup LeftBehind("idle", Blank)
  BY <1>1, <1>3, <1>4
<1>9. StorageOvershoot'
  <2>1. Uploading' \in SUBSET Uploading /\ file' \ free' = file \ free
    BY <1>2, <1>3 DEF Uploading, Turn
  <2> QED BY <1>0, <2>1, OvershootKept
<1>10. /\ {Blank.key} \cup Blank.keys \cup Blank.rows \subseteq Named
       /\ doc # NoDocument /\ doc' = NoDocument => ~Locked
       /\ file' \cap Key \subseteq file /\ stored' \subseteq stored
       /\ \A j \in Key : update[j] = "none" /\ update'[j] # "none" => pc[w] = "attach" /\ j = k
  BY <1>3 DEF Blank, Named
<1> QED
  BY ONLY IInv, w \in Workers, <1>1, <1>2, <1>5, <1>6, <1>7, <1>8, <1>9, <1>10, Ends

LEMMA PurgeRowsStep ==
  ASSUME IInv, NEW w \in Workers, PurgeRows(w)
  PROVE  IInv'
<1>0. /\ TypeOK /\ MemorySane /\ NewIsOwn /\ AttachedOnce /\ CutIsGone /\ RemovalSane
      /\ DeletedAreGone /\ LockHeld /\ FilesHaveObjects /\ Charged /\ StorageOvershoot
  BY DEF IInv
<1>1. "sweep" \in Pc /\ Sane("sweep", my[w]) /\ pc[w] = "purge"
  BY DEF Sane, Pc, PurgeRows, Goto
<1>2. Turn(w, "sweep", my[w])
  BY <1>0, <1>1, Walks DEF PurgeRows, Goto
<1>3. /\ stored' = stored /\ half' = half /\ file' = {} /\ free' = {} /\ doc' = NoDocument /\ logo' = None
      /\ update' = [j \in Key |-> "none"] /\ invoice' = [j \in Key |-> "none"] /\ place' = "nothing"
      /\ waste' = waste \cup (((Objects(file) \cup {logo}) \cap stored) \ my[w].keys) /\ ~Locked
  BY DEF PurgeRows, ProjectGone
<1>4. TypeOK'
  <2>1. pc' \in [Workers -> Pc] /\ my' \in [Workers -> Memory] /\ DocRows(doc)' = {}
    BY <1>2, <1>3 DEF Turn, DocRows, NoDocument
  <2>2. update' \in [Key -> Link] /\ invoice' \in [Key -> Link] /\ \A j \in Key : update'[j] = "none" /\ invoice'[j] = "none"
    BY <1>3 DEF Link
  <2> QED BY <1>0, <1>3, <2>1, <2>2 DEF TypeOK
<1>5. \A j \in Key : Own(j) /\ j # my[w].key /\ j \notin my[w].keys => Own(j)'
  BY <1>3 DEF Own
<1>6. CutIsGone' /\ FilesHaveObjects' /\ logo' \notin file'
  BY <1>3 DEF CutIsGone, FilesHaveObjects
<1>7. \A o \in stored : o \in Objects(file) \cup {logo} \cup waste \cup LeftBehind(pc[w], my[w]) /\ o \in stored'
         => o \in Objects(file') \cup {logo'} \cup waste' \cup LeftBehind("sweep", my[w])
  BY <1>1, <1>3 DEF LeftBehind
<1>8. StorageOvershoot'
  <2>1. Uploading' \in SUBSET Uploading /\ file' \ free' = {}
    BY <1>2, <1>3 DEF Uploading, Turn
  <2> QED BY <1>0, <2>1, OvershootKept
<1>9. /\ {my[w].key} \cup my[w].keys \cup my[w].rows \subseteq Named \cup Held(w) \cup my[w].rows
      /\ doc # NoDocument /\ doc' = NoDocument => ~Locked
      /\ file' \cap Key \subseteq file /\ stored' \subseteq stored /\ my[w].keys \cap Key \cap file' = {}
      /\ \A j \in Key : update[j] = "none" /\ update'[j] # "none" => pc[w] = "attach" /\ j = my[w].key
  BY <1>3 DEF Held
<1> QED
  BY ONLY IInv, w \in Workers, <1>1, <1>2, <1>4, <1>5, <1>6, <1>7, <1>8, <1>9, Ends

LEMMA SignRowStep ==
  ASSUME IInv, NEW w \in Workers, NEW s \in Sig, SignRow(w, s)
  PROVE  IInv'
<1>0. /\ TypeOK /\ MemorySane /\ NewIsOwn /\ AttachedOnce /\ CutIsGone /\ RemovalSane
      /\ DeletedAreGone /\ LockHeld /\ FilesHaveObjects /\ Charged /\ StorageOvershoot
  BY DEF IInv
<1>1. Blank \in Memory /\ Sane("idle", Blank) /\ "idle" \in Pc /\ pc[w] = "signRow" /\ doc # NoDocument
  BY <1>0, Typed DEF Sane, Pc, Blank, SignRow, Done, Goto, LockHeld
<1>2. Turn(w, "idle", Blank)
  BY <1>0, <1>1, Turns DEF SignRow, Done, Goto, Remember
<1>3. /\ UNCHANGED <<stored, update, invoice, logo, place, waste, half>>
      /\ file' = (file \ {doc.signed}) \cup {s} /\ free' = (free \ {doc.signed}) \cup {s}
      /\ doc' = [doc EXCEPT !.signed = s]
  BY DEF SignRow, history
<1>4. doc \in Document /\ doc.signed \in Sig \cup {None} /\ DocRows(doc) \in SUBSET file /\ file \in SUBSET Rows
  BY <1>0, <1>1 DEF TypeOK, Document
<1>5. doc' \in Document /\ DocRows(doc)' \in SUBSET file' /\ doc' # NoDocument
  BY <1>3, <1>4 DEF Document, NoDocument, DocRows, Rows
<1>6. \A j \in Key : (j \in file' <=> j \in file) /\ (j = logo => j \notin file)
  BY <1>0, <1>3, <1>4 DEF DeletedAreGone
<1>7. TypeOK'
  <2>1. pc' \in [Workers -> Pc] /\ my' \in [Workers -> Memory]
    BY <1>2 DEF Turn
  <2>2. file' \in SUBSET Rows /\ free' \in SUBSET file'
    BY <1>0, <1>3 DEF TypeOK, Rows
  <2>3. \A j \in Key : "linked" \in {update'[j], invoice'[j]} => j \in file'
    BY <1>0, <1>3, <1>6 DEF TypeOK
  <2> QED BY <1>0, <1>3, <1>5, <2>1, <2>2, <2>3 DEF TypeOK
<1>8. \A j \in Key : Own(j) /\ j # my[w].key /\ j \notin my[w].keys => Own(j)'
  BY <1>3, <1>6 DEF Own
<1>9. CutIsGone' /\ FilesHaveObjects' /\ logo' \notin file'
  <2>1. logo \in Key \cup {None} /\ None \notin Rows /\ None \notin file'
    BY <1>0, <1>3 DEF TypeOK, Rows
  <2> QED BY <1>0, <1>3, <1>6, <2>1 DEF CutIsGone, FilesHaveObjects
<1>10. \A o \in stored : o \in Objects(file) \cup {logo} \cup waste \cup LeftBehind(pc[w], my[w]) /\ o \in stored'
         => o \in Objects(file') \cup {logo'} \cup waste' \cup LeftBehind("idle", Blank)
  <2>1. SignedPdf \in Objects(file')
    BY <1>3 DEF Objects, Object
  <2>2. LeftBehind(pc[w], my[w]) = {SignedPdf}
    BY <1>1 DEF LeftBehind
  <2>3. Objects(file) \subseteq Objects(file') \cup {SignedPdf}
    BY <1>3, <1>4, SignedPdfOnly DEF Rows
  <2> QED BY <1>3, <2>1, <2>2, <2>3
<1>11. StorageOvershoot'
  <2>1. Uploading' \in SUBSET Uploading /\ file' \ free' \in SUBSET (file \ free)
    BY <1>2, <1>3 DEF Uploading, Turn
  <2> QED BY <1>0, <2>1, OvershootKept
<1>12. /\ {Blank.key} \cup Blank.keys \cup Blank.rows \subseteq Named
       /\ doc # NoDocument /\ doc' = NoDocument => ~Locked
       /\ file' \cap Key \subseteq file /\ stored' \subseteq stored
       /\ \A j \in Key : update[j] = "none" /\ update'[j] # "none" => pc[w] = "attach" /\ j = my[w].key
  BY <1>3, <1>5, <1>6 DEF Blank, Named
<1> QED
  BY ONLY IInv, w \in Workers, <1>1, <1>2, <1>7, <1>8, <1>9, <1>10, <1>11, <1>12, Ends

\* A version becomes the file of the document, and the signed PDF is void.
LEMMA Versions ==
  ASSUME IInv, NEW w \in Workers, NEW k \in Key, doc # NoDocument, Unsign(w),
         (pc[w] = "versionRow" /\ k = my[w].key) \/ (pc[w] = "idle" /\ k \in doc.versions),
         free' = (free \ {doc.signed}) \cup ({my[w].key} \cap Key),
         doc' = [file |-> k, versions |-> doc.versions \cup {doc.file}, signed |-> None],
         UNCHANGED <<stored, update, invoice, logo, place, history>>
  PROVE  IInv'
<1>0. /\ TypeOK /\ MemorySane /\ NewIsOwn /\ AttachedOnce /\ CutIsGone /\ RemovalSane
      /\ DeletedAreGone /\ LockHeld /\ FilesHaveObjects /\ Charged /\ StorageOvershoot
  BY DEF IInv
<1> DEFINE new == {my[w].key} \cap Key
           to == IF doc.signed = None THEN "idle" ELSE "sweep"
           m == IF doc.signed = None THEN Blank ELSE [Blank EXCEPT !.keys = {SignedPdf}]
<1>1. /\ (pc[w] = "versionRow" /\ new = {k}) \/ (pc[w] = "idle" /\ new = {})
      /\ pc[w] = "versionRow" => /\ w \in Making /\ k \in stored /\ k \notin file /\ k # logo
                                 /\ update[k] = "none" /\ invoice[k] = "none" /\ k = my[w].key
      /\ pc[w] = "idle" => k \in file
  BY <1>0 DEF MemorySane, Sane, Blank, NewIsOwn, Making, TypeOK, DocRows
<1>2. /\ doc \in Document /\ doc.signed \in Sig \cup {None} /\ doc.file \in Key /\ doc.versions \in SUBSET Key
      /\ DocRows(doc) \in SUBSET file /\ file \in SUBSET Rows /\ doc.file \in file /\ doc.versions \in SUBSET file
      /\ doc.signed # None => doc.signed \in file
  BY <1>0 DEF TypeOK, Document, DocRows
<1>3. /\ m \in Memory /\ to \in {"idle", "sweep"} /\ to \in Pc /\ Sane(to, m) /\ m.rows = {} /\ m.key = None
      /\ m.keys \subseteq {SignedPdf} /\ (m.keys = {SignedPdf} <=> doc.signed # None)
      /\ LeftBehind(to, m) = m.keys
  BY DEF Memory, Blank, Pc, Sane, LeftBehind
<1>4. Turn(w, to, m)
  BY <1>0, <1>3, Turns DEF Unsign, Done, Goto, Remember
<1>5. /\ UNCHANGED <<stored, update, invoice, logo, place, waste, half>>
      /\ file' = (file \ {doc.signed}) \cup new /\ free' = (free \ {doc.signed}) \cup new
  BY DEF Unsign, history
<1> HIDE DEF m, to
<1>6. doc' \in Document /\ DocRows(doc)' \in SUBSET file' /\ doc' # NoDocument
  <2>1. doc' \in Document /\ doc' # NoDocument
    BY <1>2 DEF Document, NoDocument
  <2>2. DocRows(doc)' = {k} \cup doc.versions \cup {doc.file}
    BY <1>2 DEF DocRows
  <2>3. \A j \in Key : j \in file => j \in file'
    BY <1>2, <1>5
  <2>4. k \in file'
    BY <1>1, <1>5, <2>3
  <2> QED BY <1>2, <2>1, <2>2, <2>3, <2>4
<1>7. \A j \in Key : j \in file' <=> j \in file \cup new
  BY <1>2, <1>5
<1>8. TypeOK'
  <2>1. pc' \in [Workers -> Pc] /\ my' \in [Workers -> Memory]
    BY <1>4 DEF Turn
  <2>2. file' \in SUBSET Rows /\ free' \in SUBSET file'
    BY <1>0, <1>5 DEF TypeOK, Rows
  <2>3. \A j \in Key : "linked" \in {update'[j], invoice'[j]} => j \in file'
    BY <1>0, <1>5, <1>7 DEF TypeOK
  <2> QED BY <1>0, <1>5, <1>6, <2>1, <2>2, <2>3 DEF TypeOK
<1>9. \A j \in Key : Own(j) /\ j # my[w].key /\ j \notin my[w].keys => Own(j)'
  BY <1>5, <1>7 DEF Own
<1>10. CutIsGone' /\ FilesHaveObjects' /\ logo' \notin file'
  <2>1. logo \in Key \cup {None} /\ None \notin file'
    BY <1>0, <1>2, <1>5 DEF TypeOK, Rows
  <2>2. logo \notin file
    BY <1>0 DEF DeletedAreGone
  <2> QED BY <1>0, <1>1, <1>5, <1>7, <2>1, <2>2 DEF CutIsGone, FilesHaveObjects
<1>11. \A o \in stored : o \in Objects(file) \cup {logo} \cup waste \cup LeftBehind(pc[w], my[w]) /\ o \in stored'
         => o \in Objects(file') \cup {logo'} \cup waste' \cup LeftBehind(to, m)
  <2>1. Objects(file) \subseteq Objects(file') \cup {SignedPdf}
    BY <1>2, <1>5, SignedPdfOnly DEF Rows
  <2>2. LeftBehind(pc[w], my[w]) \subseteq Objects(file')
    BY <1>1, <1>5 DEF LeftBehind, Objects, Object
  <2>3. CASE doc.signed = None
    <3>1. Objects(file) \subseteq Objects(file')
      BY <1>2, <1>5, <2>3 DEF Objects, Rows
    <3> QED BY <1>5, <2>2, <3>1
  <2>4. CASE doc.signed # None
    <3>1. LeftBehind(to, m) = {SignedPdf}
      BY <1>3, <2>4
    <3>2. logo' = logo /\ waste' = waste
      BY <1>5
    <3> QED BY <2>1, <2>2, <3>1, <3>2
  <2> QED BY <2>3, <2>4
<1>12. StorageOvershoot'
  <2>1. Uploading' \in SUBSET Uploading /\ file' \ free' \in SUBSET (file \ free)
    BY <1>3, <1>4, <1>5 DEF Uploading, Turn
  <2> QED BY <1>0, <2>1, OvershootKept
<1>13. {m.key} \cup m.keys \cup m.rows \subseteq Named
  BY <1>2, <1>3 DEF Named, Objects, Object
<1>14. /\ to = "sweep" => m.keys \cap Key \cap file' = {}
       /\ doc # NoDocument /\ doc' = NoDocument => ~Locked
       /\ file' \cap Key \subseteq file \/ (w \in Making /\ file' \cap Key \subseteq file \cup {my[w].key})
       /\ stored' \subseteq stored /\ to \notin {"logoPut", "logoClear", "attach"}
       /\ \A j \in Key : update[j] = "none" /\ update'[j] # "none" => pc[w] = "attach" /\ j = my[w].key
  BY <1>1, <1>3, <1>5, <1>6, <1>7
<1> QED
  BY ONLY IInv, w \in Workers, <1>3, <1>4, <1>8, <1>9, <1>10, <1>11, <1>12, <1>13, <1>14, Ends

LEMMA VersionRowStep ==
  ASSUME IInv, NEW w \in Workers, VersionRow(w)
  PROVE  IInv'
<1>1. pc[w] = "versionRow" /\ my[w].key \in Key /\ doc # NoDocument
  BY DEF IInv, VersionRow, MemorySane, Sane, LockHeld
<1>2. {my[w].key} = {my[w].key} \cap Key
  BY <1>1
<1>3. /\ Unsign(w) /\ free' = (free \ {doc.signed}) \cup ({my[w].key} \cap Key)
      /\ doc' = [file |-> my[w].key, versions |-> doc.versions \cup {doc.file}, signed |-> None]
      /\ UNCHANGED <<stored, update, invoice, logo, place, history>>
  BY <1>2 DEF VersionRow
<1> QED BY ONLY IInv, w \in Workers, <1>1, <1>3, Versions

LEMMA RestoreStep ==
  ASSUME IInv, NEW w \in Workers, NEW k \in Key, Restore(w, k)
  PROVE  IInv'
<1>1. my[w].key \notin Key
  BY DEF IInv, Restore, MemorySane, Sane, Blank
<1>2. doc # NoDocument
  BY DEF Restore, NoDocument
<1> QED BY <1>1, <1>2, Versions DEF Restore

LEMMA UploadRowStep ==
  ASSUME IInv, NEW w \in Workers, UploadRow(w)
  PROVE  IInv'
<1>0. /\ TypeOK /\ MemorySane /\ NewIsOwn /\ AttachedOnce /\ CutIsGone /\ RemovalSane
      /\ DeletedAreGone /\ LockHeld /\ FilesHaveObjects /\ Charged /\ StorageOvershoot
  BY DEF IInv
<1> DEFINE k == my[w].key
           to == IF my[w].use \in {"file", "mine"} THEN "idle" ELSE "attach"
           m == IF my[w].use \in {"file", "mine"} THEN Blank ELSE my[w]
<1>1. /\ pc[w] = "row" /\ w \in Making /\ k \in Key /\ k \in stored /\ k \notin file /\ k # logo
      /\ update[k] = "none" /\ invoice[k] = "none" /\ my[w].keys = {} /\ my[w].rows = {}
  BY <1>0 DEF UploadRow, Making, NewIsOwn, MemorySane, Sane
<1>2. /\ m \in Memory /\ to \in {"idle", "attach"} /\ to \in Pc /\ Sane(to, m)
      /\ to = "attach" => m = my[w]
      /\ {m.key} \cup m.keys \cup m.rows \subseteq Named \cup Held(w)
      /\ LeftBehind(to, m) = {}
  BY <1>0, <1>1, Typed DEF Blank, Pc, Sane, LeftBehind, Named, Held, UploadRow
<1>3. Turn(w, to, m)
  <2>1. CASE my[w].use \in {"file", "mine"}
    BY <1>0, <1>2, <2>1, Turns DEF UploadRow, Done, Goto, Remember
  <2>2. CASE my[w].use \notin {"file", "mine"}
    BY <1>0, <1>2, <2>2, Walks DEF UploadRow, Goto
  <2> QED BY <2>1, <2>2
<1>4. /\ UNCHANGED <<stored, update, invoice, doc, logo, place, waste, half>>
      /\ file' = file \cup {k}
      /\ free' = IF Guarded(my[w].use) THEN free ELSE free \cup {k}
  BY DEF UploadRow, history
<1> HIDE DEF m, to
<1>5. TypeOK'
  <2>1. pc' \in [Workers -> Pc] /\ my' \in [Workers -> Memory]
    BY <1>3 DEF Turn
  <2>2. file' \in SUBSET Rows /\ free' \in SUBSET file' /\ DocRows(doc)' \subseteq file'
    BY <1>0, <1>1, <1>4 DEF TypeOK, Rows, DocRows
  <2> QED BY <1>0, <1>4, <2>1, <2>2 DEF TypeOK
<1>6. \A j \in Key : Own(j) /\ j # my[w].key /\ j \notin my[w].keys => Own(j)'
  BY <1>4 DEF Own
<1>7. CutIsGone' /\ FilesHaveObjects' /\ logo' \notin file'
  BY <1>0, <1>1, <1>4 DEF CutIsGone, FilesHaveObjects, DeletedAreGone
<1>8. \A o \in stored : o \in Objects(file) \cup {logo} \cup waste \cup LeftBehind(pc[w], my[w]) /\ o \in stored'
         => o \in Objects(file') \cup {logo'} \cup waste' \cup LeftBehind(to, m)
  <2>1. Objects(file) \subseteq Objects(file') /\ k \in Objects(file')
    BY <1>1, <1>4 DEF Objects, Object
  <2>2. LeftBehind(pc[w], my[w]) = {k}
    BY <1>1 DEF LeftBehind
  <2> QED BY <1>4, <2>1, <2>2
<1>9. StorageOvershoot'
  <2>1. CASE Guarded(my[w].use)
    <3>1. file' \ free' \in SUBSET ((file \ free) \cup {k}) /\ Uploading' \in SUBSET (Uploading \ {w}) /\ w \in Uploading
      BY <1>1, <1>2, <1>3, <1>4, <2>1 DEF Uploading, Turn
    <3>2. IsFiniteSet(Uploading)
      BY FS_Subset DEF Uploading
    <3>3. /\ Bytes(file' \ free') <= Bytes(file \ free) + MaxSize
          /\ Bytes(file' \ free') \in Nat /\ Bytes(file \ free) \in Nat
      <4>1. file \ free \in SUBSET Rows /\ k \in Rows /\ file' \ free' \in SUBSET Rows
            /\ (file \ free) \cup {k} \in SUBSET Rows
        BY <1>0, <1>1, <3>1 DEF TypeOK, Rows
      <4>2. Bytes(file' \ free') <= Bytes((file \ free) \cup {k})
        BY <3>1, <4>1, BytesGrow
      <4>3. /\ Bytes((file \ free) \cup {k}) <= Bytes(file \ free) + MaxSize
            /\ Bytes((file \ free) \cup {k}) \in Nat /\ Bytes(file \ free) \in Nat
            /\ Bytes(file' \ free') \in Nat
        BY <4>1, BytesGrow
      <4> QED BY <4>2, <4>3
    <3>4. /\ Cardinality(Uploading') < Cardinality(Uploading)
          /\ Cardinality(Uploading') \in Nat /\ Cardinality(Uploading) \in Nat
      <4>1. IsFiniteSet(Uploading \ {w}) /\ Cardinality(Uploading \ {w}) = Cardinality(Uploading) - 1
        BY <3>1, <3>2, FS_RemoveElement
      <4>2. Cardinality(Uploading') <= Cardinality(Uploading \ {w}) /\ IsFiniteSet(Uploading')
        BY <3>1, <4>1, FS_Subset
      <4> QED BY <3>2, <4>1, <4>2, FS_CardinalityType
    <3>5. /\ MaxSize * Cardinality(Uploading') + MaxSize <= MaxSize * Cardinality(Uploading)
          /\ MaxSize * Cardinality(Uploading') \in Nat /\ MaxSize * Cardinality(Uploading) \in Nat
      BY <3>4, Products
    <3>6. MaxSize * Cardinality(Workers) \in Nat /\ 2 * HalfMb * Limit \in Nat
      BY FS_CardinalityType, Products
    <3> QED BY <1>0, <3>3, <3>5, <3>6 DEF StorageOvershoot
  <2>2. CASE ~Guarded(my[w].use)
    <3>1. file' \ free' \in SUBSET (file \ free) /\ Uploading' \in SUBSET Uploading
      BY <1>2, <1>3, <1>4, <2>2 DEF Uploading, Turn
    <3> QED BY <1>0, <3>1, OvershootKept
  <2> QED BY <2>1, <2>2
<1>10. /\ {m.key} \cup m.keys \cup m.rows \subseteq Named \cup Held(w) \cup my[w].rows
       /\ to = "attach" => pc[w] = "row" /\ m = my[w] /\ update' = update
       /\ doc # NoDocument /\ doc' = NoDocument => ~Locked
       /\ w \in Making /\ file' \cap Key \subseteq file \cup {my[w].key}
       /\ stored' \subseteq stored /\ to \notin {"sweep", "logoPut", "logoClear"}
       /\ \A j \in Key : update[j] = "none" /\ update'[j] # "none" => pc[w] = "attach" /\ j = my[w].key
  BY <1>1, <1>2, <1>4
<1> QED
  BY ONLY IInv, w \in Workers, <1>2, <1>3, <1>5, <1>6, <1>7, <1>8, <1>9, <1>10, Ends

----------------------------------------------------------------------------
(* Requests that store an object *)

LEMMA Puts ==
  ASSUME IInv, NEW w \in Workers, NEW k \in Key, NEW from, NEW to, Put(w, k, from, to),
         <<from, to>> \in {<<"put", "row">>, <<"logoPut", "logoRow">>, <<"idle", "versionRow">>},
         to = "versionRow" => doc # NoDocument /\ ~Locked
  PROVE  IInv'
<1>0. /\ TypeOK /\ MemorySane /\ NewIsOwn /\ AttachedOnce /\ CutIsGone /\ RemovalSane
      /\ DeletedAreGone /\ LockHeld /\ FilesHaveObjects /\ Charged /\ StorageOvershoot
  BY DEF IInv
<1> PICK m : m = [my[w] EXCEPT !.key = k]
  OBVIOUS
<1>1. /\ m \in Memory /\ m.key = k /\ m.keys = {} /\ m.rows = {} /\ m.use = my[w].use
      /\ to \in Pc /\ Sane(to, m) /\ LeftBehind(to, m) = {k} /\ pc[w] = from
  <2>1. pc[w] = from /\ my[w] \in Memory
    BY <1>0, Typed DEF Put, Goto
  <2>2. m \in Memory /\ m.key = k /\ m.keys = my[w].keys /\ m.rows = my[w].rows /\ m.use = my[w].use
    BY <2>1 DEF Memory, Rows
  <2>3. m.keys = {} /\ m.rows = {}
    BY <1>0, <2>1, <2>2 DEF MemorySane, Sane, Blank
  <2> QED BY <2>1, <2>2, <2>3 DEF Sane, LeftBehind, Pc
<1>2. Turn(w, to, m)
  BY <1>0, <1>1, Turns DEF Put, Goto, Remember
<1>3. /\ UNCHANGED <<file, free, update, invoice, doc, logo, place, waste, half>> /\ stored' = stored \cup {k}
      /\ k \notin stored /\ k \notin file /\ k # logo /\ update[k] = "none" /\ invoice[k] = "none"
      /\ \A v \in Workers : k \notin Held(v) \cup my[v].rows
  BY DEF Put, Unused, rowVars, history
<1>4. TypeOK'
  BY <1>0, <1>2, <1>3 DEF TypeOK, Turn, DocRows
<1>5. MemorySane'
  BY <1>0, <1>1, <1>2, MemorySaneKept
<1>6. NewIsOwn'
  <2>1. \A j \in Fresh(w) : j \in Key /\ Own(j) /\ j # k
    <3>1. \A j \in Fresh(w) : j \in Key /\ Own(j)
      BY <1>0, FreshIsOwn
    <3> QED BY <1>3, <3>1 DEF Own
  <2>2. \A j \in Fresh(w) : Own(j)' /\ j \notin {m.key} \cup m.keys \cup m.rows
    BY <1>1, <1>3, <2>1 DEF Own
  <2>3. Own(m.key)' /\ \A v \in Workers \ {w} : m.key \notin Held(v) \cup my[v].rows
    BY <1>1, <1>3 DEF Own
  <2> QED BY <1>0, <1>2, <2>2, <2>3, NewIsOwnKept
<1>7. AttachedOnce'
  BY <1>0, <1>2, <1>3, AttachedOnceKept DEF Removing
<1>8. RemovalSane'
  <2>1. \A v \in Workers : my[v].key # k
    BY <1>3 DEF Held
  <2> QED BY <1>0, <1>2, <1>3, <2>1, RemovalSaneKept DEF Removing
<1>9. DeletedAreGone'
  BY <1>0, <1>2, <1>3, DeletedAreGoneKept DEF DeletedAreGone
<1>10. LockHeld'
  <2>1. CASE to = "versionRow"
    BY <1>0, <1>2, <1>3, <2>1 DEF LockHeld, Turn, Locked
  <2>2. CASE to # "versionRow"
    BY <1>0, <1>2, <1>3, <2>2, LockHeldKept
  <2> QED BY <2>1, <2>2
<1>11. CutIsGone' /\ FilesHaveObjects'
  BY <1>0, <1>3 DEF CutIsGone, FilesHaveObjects
<1>12. Charged'
  <2>1. LeftBehind(pc[w], my[w]) = {}
    BY <1>1 DEF LeftBehind
  <2> QED BY <1>0, <1>1, <1>2, <1>3, <2>1, ChargedKept
<1>13. StorageOvershoot'
  <2>1. Uploading' \in SUBSET Uploading
    BY <1>1, <1>2 DEF Uploading, Turn
  <2> QED BY <1>0, <1>3, <2>1, OvershootKept
<1> QED BY <1>4, <1>5, <1>6, <1>7, <1>8, <1>9, <1>10, <1>11, <1>12, <1>13 DEF IInv

LEMMA PutSteps ==
  ASSUME IInv, NEW w \in Workers, NEW k \in Key, UploadPut(w, k) \/ LogoPut(w, k) \/ VersionPut(w, k)
  PROVE  IInv'
<1>1. CASE UploadPut(w, k)
  BY <1>1, Puts DEF UploadPut
<1>2. CASE LogoPut(w, k)
  BY <1>2, Puts DEF LogoPut
<1>3. CASE VersionPut(w, k)
  BY <1>3, Puts DEF VersionPut
<1> QED BY <1>1, <1>2, <1>3

LEMMA SignPutStep ==
  ASSUME IInv, NEW w \in Workers, SignPut(w)
  PROVE  IInv'
<1>0. /\ TypeOK /\ MemorySane /\ NewIsOwn /\ AttachedOnce /\ CutIsGone /\ RemovalSane
      /\ DeletedAreGone /\ LockHeld /\ FilesHaveObjects /\ Charged /\ StorageOvershoot
  BY DEF IInv
<1>1. /\ pc[w] = "idle" /\ my[w] = Blank /\ my[w] \in Memory /\ "signRow" \in Pc /\ Sane("signRow", my[w])
      /\ LeftBehind("signRow", my[w]) = {SignedPdf} /\ LeftBehind(pc[w], my[w]) = {}
      /\ my[w].key = None /\ my[w].keys = {} /\ my[w].rows = {}
  <2>1. pc[w] = "idle" /\ my[w] = Blank /\ my[w] \in Memory
    BY <1>0, Typed DEF SignPut, Goto, MemorySane, Sane
  <2>2. "signRow" \in Pc /\ Sane("signRow", Blank)
    BY DEF Pc, Sane, Blank
  <2> QED BY <2>1, <2>2 DEF LeftBehind, Blank
<1>2. Turn(w, "signRow", my[w])
  BY <1>0, <1>1, Walks DEF SignPut, Goto
<1>3. /\ UNCHANGED <<file, free, update, invoice, doc, logo, place, waste, half>>
      /\ stored' = stored \cup {SignedPdf} /\ doc # NoDocument /\ ~Locked
  BY DEF SignPut, rowVars, history
<1>4. TypeOK'
  BY <1>0, <1>2, <1>3 DEF TypeOK, Turn, DocRows
<1>5. MemorySane'
  BY <1>0, <1>1, <1>2, MemorySaneKept
<1>6. NewIsOwn'
  <2>1. \A j \in Fresh(w) : j \in Key /\ Own(j)
    BY <1>0, FreshIsOwn
  <2>2. \A j \in Fresh(w) : Own(j)' /\ j \notin {my[w].key} \cup my[w].keys \cup my[w].rows
    BY <1>1, <1>3, <2>1 DEF Own
  <2> QED BY <1>0, <1>2, <2>2, NewIsOwnKept
<1>7. AttachedOnce'
  BY <1>0, <1>2, <1>3, AttachedOnceKept DEF Removing
<1>8. RemovalSane'
  <2>1. \A v \in Workers : pc[v] \in Removing => my[v].key # SignedPdf
    BY <1>0 DEF MemorySane, Sane, Removing
  <2> QED BY <1>0, <1>2, <1>3, <2>1, RemovalSaneKept DEF Removing
<1>9. DeletedAreGone'
  BY <1>0, <1>2, <1>3, DeletedAreGoneKept DEF DeletedAreGone
<1>10. LockHeld'
  BY <1>0, <1>2, <1>3 DEF LockHeld, Turn, Locked
<1>11. CutIsGone' /\ FilesHaveObjects'
  BY <1>0, <1>3 DEF CutIsGone, FilesHaveObjects
<1>12. Charged'
  BY <1>0, <1>1, <1>2, <1>3, ChargedKept
<1>13. StorageOvershoot'
  <2>1. Uploading' \in SUBSET Uploading
    BY <1>1, <1>2 DEF Uploading, Turn
  <2> QED BY <1>0, <1>3, <2>1, OvershootKept
<1> QED BY <1>4, <1>5, <1>6, <1>7, <1>8, <1>9, <1>10, <1>11, <1>12, <1>13 DEF IInv

----------------------------------------------------------------------------
(* The removal of an update, and of the project *)

LEMMA UpdateObjectStep ==
  ASSUME IInv, NEW w \in Workers, UpdateObject(w)
  PROVE  IInv'
<1>0. /\ TypeOK /\ MemorySane /\ NewIsOwn /\ AttachedOnce /\ CutIsGone /\ RemovalSane
      /\ DeletedAreGone /\ LockHeld /\ FilesHaveObjects /\ Charged /\ StorageOvershoot
  BY DEF IInv
<1> DEFINE k == my[w].key
<1>1. /\ pc[w] = "updObject" /\ "updRow" \in Pc /\ Sane("updRow", my[w]) /\ k \in Key
      /\ my[w].rows \subseteq {k} /\ my[w].keys = {}
      /\ LeftBehind("updRow", my[w]) = {} /\ LeftBehind(pc[w], my[w]) = {}
  BY <1>0 DEF UpdateObject, Goto, MemorySane, Sane, Pc, LeftBehind
<1>2. Turn(w, "updRow", my[w])
  BY <1>0, <1>1, Walks DEF UpdateObject, Goto
<1>3. /\ UNCHANGED <<file, free, update, invoice, doc, logo, place>> /\ stored' = stored \ {k}
      /\ half' = half \cup (my[w].rows \cap file) /\ waste' = waste \ {k}
  BY DEF UpdateObject, rowVars
<1>4. TypeOK'
  BY <1>0, <1>1, <1>2, <1>3 DEF TypeOK, Turn, DocRows
<1>5. MemorySane'
  BY <1>0, <1>1, <1>2, MemorySaneKept
<1>6. NewIsOwn'
  <2>1. \A j \in Fresh(w) : j \in Key /\ Own(j) /\ j \notin Held(w) \cup my[w].rows
    BY <1>0, FreshIsOwn
  <2>2. \A j \in Fresh(w) : Own(j)' /\ j \notin {my[w].key} \cup my[w].keys \cup my[w].rows
    BY <1>3, <2>1 DEF Own, Held
  <2> QED BY <1>0, <1>2, <2>2, NewIsOwnKept
<1>7. AttachedOnce'
  BY <1>0, <1>1, <1>2, <1>3 DEF AttachedOnce, Turn, Removing
<1>8. RemovalSane'
  BY <1>0, <1>1, <1>2, <1>3 DEF RemovalSane, Turn
<1>9. DeletedAreGone'
  BY <1>0, <1>2, <1>3, DeletedAreGoneKept DEF DeletedAreGone
<1>10. LockHeld'
  BY <1>0, <1>2, <1>3, LockHeldKept
<1>11. CutIsGone' /\ FilesHaveObjects'
  <2>1. k \in file => my[w].rows = {k}
    BY <1>0, <1>1 DEF RemovalSane
  <2> QED BY <1>0, <1>3, <2>1 DEF CutIsGone, FilesHaveObjects
<1>12. Charged'
  BY <1>0, <1>1, <1>2, <1>3, ChargedKept
<1>13. StorageOvershoot'
  <2>1. Uploading' \in SUBSET Uploading
    BY <1>1, <1>2 DEF Uploading, Turn
  <2> QED BY <1>0, <1>3, <2>1, OvershootKept
<1> QED BY <1>4, <1>5, <1>6, <1>7, <1>8, <1>9, <1>10, <1>11, <1>12, <1>13 DEF IInv

LEMMA UpdateRowStep ==
  ASSUME IInv, NEW w \in Workers, UpdateRow(w)
  PROVE  IInv'
<1>0. /\ TypeOK /\ MemorySane /\ NewIsOwn /\ AttachedOnce /\ CutIsGone /\ RemovalSane
      /\ DeletedAreGone /\ LockHeld /\ FilesHaveObjects /\ Charged /\ StorageOvershoot
  BY DEF IInv
<1> DEFINE k == my[w].key
           to == IF my[w].rows = {} THEN "idle" ELSE "updFile"
<1> PICK m : m = IF my[w].rows = {} THEN Blank ELSE my[w]
  OBVIOUS
<1>1. /\ pc[w] = "updRow" /\ to \in Pc /\ to \in {"idle", "updFile"} /\ k \in Key /\ k \notin stored
      /\ to = "updFile" => m = my[w]
      /\ LeftBehind(to, m) = {} /\ LeftBehind(pc[w], my[w]) = {}
  BY <1>0 DEF UpdateRow, MemorySane, Sane, RemovalSane, Pc, LeftBehind
<1>2. m \in Memory /\ Sane(to, m) /\ {m.key} \cup m.keys \cup m.rows \subseteq {None} \cup Held(w) \cup my[w].rows
  BY <1>0, <1>1, Typed DEF Sane, Blank, Held, MemorySane
<1>3. Turn(w, to, m)
  <2>1. CASE my[w].rows = {}
    BY <1>0, <1>1, <1>2, <2>1, Turns DEF UpdateRow, Done, Goto, Remember
  <2>2. CASE my[w].rows # {}
    BY <1>0, <1>1, <2>2, Walks DEF UpdateRow, Goto
  <2> QED BY <2>1, <2>2
<1>4. /\ UNCHANGED <<stored, file, free, invoice, doc, logo, place, waste, half>>
      /\ update' = [update EXCEPT ![k] = "none"]
  BY DEF UpdateRow, history
<1>5. update' \in [Key -> Link] /\ update'[k] = "none" /\ \A j \in Key : j # k => update'[j] = update[j]
  BY <1>0, <1>1, <1>4 DEF TypeOK, Link
<1> HIDE DEF to
<1>6. TypeOK'
  <2>1. pc' \in [Workers -> Pc] /\ my' \in [Workers -> Memory] /\ DocRows(doc)' = DocRows(doc)
    BY <1>3, <1>4 DEF Turn, DocRows
  <2>2. \A j \in Key : "linked" \in {update'[j], invoice'[j]} => j \in file'
    BY <1>0, <1>4, <1>5 DEF TypeOK
  <2> QED BY <1>0, <1>4, <1>5, <2>1, <2>2 DEF TypeOK
<1>7. MemorySane'
  BY <1>0, <1>2, <1>3, MemorySaneKept
<1>8. NewIsOwn'
  <2>1. \A j \in Fresh(w) : j \in Key /\ Own(j) /\ j \notin Held(w) \cup my[w].rows
    BY <1>0, FreshIsOwn
  <2>2. \A j \in Fresh(w) : Own(j)' /\ j \notin {m.key} \cup m.keys \cup m.rows
    BY <1>2, <1>4, <1>5, <2>1 DEF Own
  <2>3. to \notin {"row", "versionRow", "logoRow"}
    BY <1>1
  <2> QED BY <1>0, <1>3, <2>2, <2>3, NewIsOwnKept
<1>9. AttachedOnce'
  <2>1. \A v \in Workers \ {w} : pc[v] = "attach" => my[v].key # k /\ my[v].key \in Key
    BY <1>0, <1>1 DEF AttachedOnce, Removing, MemorySane, Sane
  <2>2. \A v \in Workers \ {w} : pc[v] = "attach" => update'[my[v].key] = update[my[v].key]
    BY <1>5, <2>1
  <2>3. to = "updFile" => pc[w] \in Removing /\ my'[w] = my[w]
    BY <1>1, <1>3 DEF Removing, Turn
  <2> QED BY <1>0, <1>1, <1>3, <2>2, <2>3 DEF AttachedOnce, Turn, Removing
<1>10. RemovalSane'
  <2>1. \A j \in Key : update[j] = "none" => update'[j] = "none"
    BY <1>5
  <2>2. \A v \in Workers : pc[v] = "updFile" => my[v].key \in Key
    BY <1>0 DEF MemorySane, Sane
  <2> QED BY <1>0, <1>1, <1>3, <1>4, <1>5, <2>1, <2>2 DEF RemovalSane, Turn
<1>11. DeletedAreGone'
  BY <1>0, <1>1, <1>3, <1>4, DeletedAreGoneKept DEF DeletedAreGone
<1>12. LockHeld'
  BY <1>0, <1>1, <1>3, <1>4, LockHeldKept
<1>13. CutIsGone' /\ FilesHaveObjects'
  BY <1>0, <1>4, <1>5 DEF CutIsGone, FilesHaveObjects
<1>14. Charged'
  BY <1>0, <1>1, <1>3, <1>4, ChargedKept
<1>15. StorageOvershoot'
  <2>1. Uploading' \in SUBSET Uploading
    BY <1>1, <1>3 DEF Uploading, Turn
  <2> QED BY <1>0, <1>4, <2>1, OvershootKept
<1> QED BY <1>6, <1>7, <1>8, <1>9, <1>10, <1>11, <1>12, <1>13, <1>14, <1>15 DEF IInv

LEMMA RemoveProjectStep ==
  ASSUME IInv, RemoveProject
  PROVE  IInv'
<1>0. /\ TypeOK /\ MemorySane /\ NewIsOwn /\ AttachedOnce /\ CutIsGone /\ RemovalSane
      /\ DeletedAreGone /\ LockHeld /\ FilesHaveObjects /\ Charged /\ StorageOvershoot
  BY DEF IInv
<1>1. /\ UNCHANGED <<stored, logo, half, pc, my>> /\ file' = {} /\ free' = {} /\ doc' = NoDocument
      /\ update' = [j \in Key |-> "none"] /\ invoice' = Cut(invoice, file) /\ place' = "organization"
      /\ waste' = waste \cup (Objects(file) \cap stored) /\ ~Locked
  BY DEF RemoveProject, ProjectGone
<1>2. /\ invoice' \in [Key -> Link]
      /\ \A j \in Key : /\ invoice[j] = "none" <=> invoice'[j] = "none"
                        /\ invoice'[j] # "linked"
  <2>1. file \in SUBSET Rows /\ invoice \in [Key -> Link] /\ \A j \in Key : invoice[j] = "linked" => j \in file
    BY <1>0 DEF TypeOK
  <2> QED BY <1>1, <2>1, CutKeeps
<1>3. update' \in [Key -> Link] /\ \A j \in Key : update'[j] = "none"
  BY <1>1 DEF Link
<1>4. TypeOK'
  <2>1. DocRows(doc)' = {}
    BY <1>1 DEF DocRows, NoDocument
  <2> QED BY <1>0, <1>1, <1>2, <1>3, <2>1 DEF TypeOK
<1>5. MemorySane'
  BY <1>0, <1>1 DEF MemorySane
<1>6. NewIsOwn'
  <2>1. \A w \in Making : my[w].key \in Key
    BY <1>0 DEF Making, MemorySane, Sane
  <2>2. Making' = Making /\ \A w \in Workers : Held(w)' = Held(w)
    BY <1>1 DEF Making, Held
  <2> QED BY <1>0, <1>1, <1>2, <1>3, <2>1, <2>2 DEF NewIsOwn
<1>7. AttachedOnce' /\ RemovalSane'
  <2>1. \A w \in Workers : pc[w] \in Removing \cup {"attach"} => my[w].key \in Key
    BY <1>0 DEF MemorySane, Sane, Removing
  <2>2. AttachedOnce'
    BY <1>0, <1>1, <1>3, <2>1 DEF AttachedOnce, Removing
  <2>3. RemovalSane'
    BY <1>0, <1>1, <1>3, <2>1 DEF RemovalSane, Removing
  <2> QED BY <2>2, <2>3
<1>8. CutIsGone' /\ DeletedAreGone' /\ FilesHaveObjects'
  BY <1>0, <1>1, <1>3 DEF CutIsGone, DeletedAreGone, FilesHaveObjects
<1>9. LockHeld'
  BY <1>1 DEF LockHeld, Locked
<1>10. Charged'
  BY <1>0, <1>1 DEF Charged
<1>11. StorageOvershoot'
  <2>1. Uploading' \in SUBSET Uploading /\ file' \ free' = {}
    BY <1>1 DEF Uploading
  <2> QED BY <1>0, <2>1, OvershootKept
<1> QED BY <1>4, <1>5, <1>6, <1>7, <1>8, <1>9, <1>10, <1>11 DEF IInv

----------------------------------------------------------------------------

LEMMA ServeStep ==
  ASSUME IInv, NEW w \in Workers, Serve(w)
  PROVE  IInv'
<1>1. CASE \E use \in Uses : UploadCheck(w, use)
  BY <1>1, UploadCheckStep
<1>2. ASSUME NEW k \in Key,
             \/ UploadPut(w, k) \/ LogoPut(w, k) \/ VersionPut(w, k)
             \/ Restore(w, k) \/ UpdateRead(w, k)
      PROVE  IInv'
  BY <1>2, PutSteps, RestoreStep, UpdateReadStep
<1>3. CASE \E r \in Rows : RemoveRead(w, r)
  BY <1>3, RemoveReadStep
<1>4. CASE \E to \in {None, "new"} : LogoRead(w, to)
  BY <1>4, LogoReadStep
<1>5. CASE \E s \in Sig : SignRow(w, s)
  BY <1>5, SignRowStep
<1>6. CASE UploadRow(w) \/ Attach(w) \/ RemoveRow(w) \/ Sweep(w)
  BY <1>6, UploadRowStep, AttachStep, RemoveRowStep, SweepStep
<1>7. CASE UpdateObject(w) \/ UpdateRow(w) \/ UpdateFile(w) \/ LogoDelete(w) \/ LogoWrite(w)
  BY <1>7, UpdateObjectStep, UpdateRowStep, UpdateFileStep, LogoDeleteStep, LogoWriteStep
<1>8. CASE VersionRow(w) \/ SignPut(w) \/ DocRead(w) \/ DocRemove(w)
  BY <1>8, VersionRowStep, SignPutStep, DocReadStep, DocRemoveStep
<1>9. CASE PurgeRead(w) \/ PurgeRows(w) \/ Fail(w)
  BY <1>9, PurgeReadStep, PurgeRowsStep, FailStep
<1> QED BY <1>1, <1>2, <1>3, <1>4, <1>5, <1>6, <1>7, <1>8, <1>9 DEF Serve

LEMMA NextIInv == IInv /\ [Next]_vars => IInv'
<1> SUFFICES ASSUME IInv, [Next]_vars PROVE IInv'
  OBVIOUS
<1>1. CASE RemoveProject
  BY <1>1, RemoveProjectStep
<1>2. CASE \E w \in Workers : Serve(w)
  BY <1>2, ServeStep
<1>3. CASE UNCHANGED vars
  <2>1. UNCHANGED <<stored, file, free, update, invoice, doc, logo, place, waste, half, pc, my>>
    BY <1>3 DEF vars, rowVars, history
  <2>2. /\ TypeOK' = TypeOK /\ MemorySane' = MemorySane /\ NewIsOwn' = NewIsOwn
        /\ AttachedOnce' = AttachedOnce /\ CutIsGone' = CutIsGone /\ RemovalSane' = RemovalSane
    BY <2>1 DEF TypeOK, MemorySane, NewIsOwn, Making, Held, AttachedOnce, CutIsGone, RemovalSane, DocRows
  <2>3. /\ DeletedAreGone' = DeletedAreGone /\ LockHeld' = LockHeld /\ FilesHaveObjects' = FilesHaveObjects
        /\ Charged' = Charged /\ StorageOvershoot' = StorageOvershoot
    BY <2>1 DEF DeletedAreGone, LockHeld, FilesHaveObjects, Charged, StorageOvershoot, Uploading
  <2> QED BY <2>2, <2>3 DEF IInv
<1> QED BY <1>1, <1>2, <1>3 DEF Next

LEMMA IInvHolds == Spec => []IInv
  BY InitIInv, NextIInv, PTL DEF Spec

----------------------------------------------------------------------------

\* Every state is well typed, and no row refers to a File row that is gone: the
\* relations the schema declares, whatever requests overlap.
THEOREM TypeCorrect == Spec => []TypeOK
<1>1. IInv => TypeOK
  BY DEF IInv
<1> QED BY <1>1, IInvHolds, PTL

\* The object of every file can be downloaded, unless the removal of its update was
\* overtaken or died between the object and the row.
THEOREM FilesKeepTheirObjects == Spec => []FilesHaveObjects
<1>1. IInv => FilesHaveObjects
  BY DEF IInv
<1> QED BY <1>1, IInvHolds, PTL

\* No handler that runs to its end leaves an object behind that no row names, but for
\* those it is told of too late.
THEOREM NothingIsLeaked == Spec => []NothingLeaks
<1>1. IInv => NothingLeaks
  <2> SUFFICES ASSUME IInv, NEW w \in Workers, NEW o \in LeftBehind(pc[w], my[w])
               PROVE  o \in InFlight
    BY DEF IInv, Charged, NothingLeaks
  <2>1. pc[w] # "idle"
    BY DEF LeftBehind
  <2>2. o \in Held(w) \/ (pc[w] = "signRow" /\ o = SignedPdf)
    BY DEF LeftBehind, Held
  <2>3. CASE o \in Held(w)
    BY <2>1, <2>3 DEF InFlight
  <2>4. CASE pc[w] = "signRow" /\ o = SignedPdf
    BY <2>4 DEF InFlight
  <2> QED BY <2>2, <2>3, <2>4
<1> QED BY <1>1, IInvHolds, PTL

\* Requests that upload together overshoot the storage limit of the plan by less than
\* one file of the largest size each, whatever the sizes of the files are.
THEOREM StorageIsBounded == Spec => []StorageOvershoot
<1>1. IInv => StorageOvershoot
  BY DEF IInv
<1> QED BY <1>1, IInvHolds, PTL

=============================================================================
