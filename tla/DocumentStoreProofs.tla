------------------------ MODULE DocumentStoreProofs ------------------------
(***************************************************************************)
(* Proofs about DocumentStore, for every set of tasks, namespaces, keys    *)
(* and ids and without the bounds TLC needs.                               *)
(***************************************************************************)
EXTENDS DocumentStore, TLAPS

(* The table's primary key. *)
PrimaryKey == \A r, s \in memory_docs : r.document_id = s.document_id => r = s

(* The table's UNIQUE(namespace, key). *)
UniqueKey == \A r, s \in memory_docs : r.namespace = s.namespace /\ r.key = s.key => r = s

(* Two tasks past the lock write different keys. *)
LocksExclusive ==
  \A p, q \in Holding : p # q => <<arg[p].ns, arg[p].key>> # <<arg[q].ns, arg[q].key>>

IInv ==
  /\ TypeOK
  /\ PrimaryKey
  /\ UniqueKey
  /\ LocksExclusive
  /\ LockedKeyIsResolved
  /\ ChunksAddressable

(* The blank argument record is an argument record. *)
LEMMA NoArgsType == NoArgs \in Args
BY ConstantsAssumption DEF NoArgs, Args

(* The initial state, with empty tables and idle tasks, satisfies the invariant. *)
LEMMA InitInv == Init => IInv
<1> SUFFICES ASSUME Init PROVE IInv
  OBVIOUS
<1>1. TypeOK
  BY NoArgsType DEF Init, TypeOK
<1>2. PrimaryKey /\ UniqueKey /\ LocksExclusive /\ LockedKeyIsResolved /\ ChunksAddressable
  BY DEF Init, PrimaryKey, UniqueKey, LocksExclusive, LockedKeyIsResolved,
         ChunksAddressable, Holding
<1> QED
  BY <1>1, <1>2 DEF IInv

(* What the write transaction does to the table.  The row it leaves under its
   key has the id the write resolved; every other row was there before and is
   untouched; and no id leaves its namespace. *)
LEMMA CommitRows ==
  ASSUME IInv, NEW p \in Procs, Commit(p)
  PROVE  /\ memory_docs' \subseteq Document
         /\ \A r \in memory_docs' :
              \/ /\ r.namespace = arg[p].ns /\ r.key = arg[p].key
                 /\ r.document_id = arg[p].id /\ r.content = arg[p].content
              \/ /\ r \in memory_docs
                 /\ ~(r.namespace = arg[p].ns /\ r.key = arg[p].key)
                 /\ r.document_id # arg[p].id
         /\ \A s \in memory_docs : \E r \in memory_docs' :
              r.namespace = s.namespace /\ r.document_id = s.document_id
         /\ \E r \in memory_docs' :
              r.namespace = arg[p].ns /\ r.document_id = arg[p].id
<1> DEFINE ns == arg[p].ns
           id == arg[p].id
           key == arg[p].key
           content == arg[p].content
           moved == rekey_document_in_namespace(ns, id, key)
           existing == {r \in moved : r.namespace = ns /\ r.key = key}
           new == [document_id |-> id, namespace |-> ns, key |-> key, content |-> content]
<1>1. ns \in Namespaces /\ id \in Ids /\ key \in Keys /\ content \in Contents
  BY DEF IInv, TypeOK, Commit, Args
<1>2. new \in Document
  BY <1>1 DEF Document
<1>3. \A r \in memory_docs : r \in Document
  BY DEF IInv, TypeOK
<1>4. \A s \in Document : /\ [s EXCEPT !.key = key] \in Document
                          /\ [s EXCEPT !.key = key].document_id = s.document_id
                          /\ [s EXCEPT !.key = key].namespace = s.namespace
                          /\ [s EXCEPT !.key = key].key = key
  BY <1>1 DEF Document
<1>5. \A r \in moved :
        /\ r \in Document
        /\ \/ r \in memory_docs /\ ~(r.namespace = ns /\ r.document_id = id)
           \/ r.namespace = ns /\ r.document_id = id /\ r.key = key
  <2> SUFFICES ASSUME NEW r \in moved
               PROVE  /\ r \in Document
                      /\ \/ r \in memory_docs /\ ~(r.namespace = ns /\ r.document_id = id)
                         \/ r.namespace = ns /\ r.document_id = id /\ r.key = key
    OBVIOUS
  <2>1. PICK s \in memory_docs :
          r = IF s.namespace = ns /\ s.document_id = id THEN [s EXCEPT !.key = key] ELSE s
    BY Zenon DEF rekey_document_in_namespace
  <2>2. CASE s.namespace = ns /\ s.document_id = id
    <3>1. r = [s EXCEPT !.key = key]
      BY <2>1, <2>2
    <3> HIDE DEF moved
    <3> QED BY <3>1, <2>2, <1>3, <1>4, Zenon
  <2>3. CASE ~(s.namespace = ns /\ s.document_id = id)
    BY <2>1, <2>3, <1>3
  <2> QED BY <2>2, <2>3
<1>6. \A s \in memory_docs : \E r \in moved :
        r.namespace = s.namespace /\ r.document_id = s.document_id
  <2> SUFFICES ASSUME NEW s \in memory_docs
               PROVE  \E r \in moved : r.namespace = s.namespace /\ r.document_id = s.document_id
    OBVIOUS
  <2>1. CASE s.namespace = ns /\ s.document_id = id
    <3>1. [s EXCEPT !.key = key] \in moved
      BY <2>1, Zenon DEF rekey_document_in_namespace
    <3> QED BY <3>1, <1>3, <1>4
  <2>2. CASE ~(s.namespace = ns /\ s.document_id = id)
    <3>1. s \in moved
      BY <2>2, Zenon DEF rekey_document_in_namespace
    <3> QED BY <3>1
  <2> QED BY <2>1, <2>2
<1>7. \A r \in existing : r.document_id = id
  <2>1. \A r \in memory_docs : r.namespace = ns /\ r.key = key => r.document_id = id
    BY DEF IInv, LockedKeyIsResolved, Holding, RowAt, Commit
  <2> QED BY <1>5, <2>1
<1>8. \A r \in moved : r.document_id = id => r.namespace = ns /\ r.key = key
  BY DEF Commit, InsertConflict
<1>9. memory_docs' = IF existing = {} THEN moved \cup {new}
                     ELSE (moved \ existing) \cup {[r EXCEPT !.content = content] : r \in existing}
  BY Zenon DEF Commit, Upsert
<1>10. CASE existing = {}
  <2>1. memory_docs' = moved \cup {new}
    BY <1>9, <1>10
  <2>2. \A r \in moved : r \in memory_docs /\ ~(r.namespace = ns /\ r.key = key)
                           /\ r.document_id # id
    BY <1>5, <1>8, <1>10
  <2> HIDE DEF moved, existing
  <2> QED BY <1>2, <1>5, <1>6, <2>1, <2>2
<1>11. CASE existing # {}
  <2> DEFINE updated == {[r EXCEPT !.content = content] : r \in existing}
  <2>1. memory_docs' = (moved \ existing) \cup updated
    BY <1>9, <1>11
  <2>2. \A r \in moved \ existing : /\ r \in memory_docs
                                    /\ ~(r.namespace = ns /\ r.key = key)
                                    /\ r.document_id # id
    BY <1>5, <1>8
  <2>3. \A r \in existing :
          LET u == [r EXCEPT !.content = content]
          IN  u \in Document /\ u.namespace = ns /\ u.key = key /\ u.document_id = id
                /\ u.content = content
    <3>1. \A r \in existing : r \in Document /\ r.namespace = ns /\ r.key = key
      BY <1>5
    <3> HIDE DEF existing
    <3> QED BY <3>1, <1>7, <1>1 DEF Document
  <2>4. \A u \in updated : u \in Document /\ u.namespace = ns /\ u.key = key
                             /\ u.document_id = id /\ u.content = content
    BY <2>3, Zenon
  <2>5. \E u \in updated : TRUE
    BY <1>11, Zenon
  <2>6. \A s \in memory_docs : \E r \in memory_docs' :
          r.namespace = s.namespace /\ r.document_id = s.document_id
    <3> SUFFICES ASSUME NEW s \in memory_docs
                 PROVE  \E r \in memory_docs' :
                          r.namespace = s.namespace /\ r.document_id = s.document_id
      OBVIOUS
    <3>1. PICK r \in moved : r.namespace = s.namespace /\ r.document_id = s.document_id
      BY <1>6
    <3>2. CASE r \in existing
      <4>1. r.namespace = ns
        BY <3>2
      <4> HIDE DEF moved, existing, updated
      <4> QED BY <3>1, <3>2, <4>1, <1>7, <2>1, <2>4, <2>5
    <3>3. CASE r \notin existing
      <4> HIDE DEF moved, existing, updated
      <4> QED BY <3>1, <3>3, <2>1
    <3> QED BY <3>2, <3>3
  <2> HIDE DEF moved, existing, updated
  <2> QED BY <1>5, <2>1, <2>2, <2>4, <2>5, <2>6
<1> QED BY <1>10, <1>11

(* A step that adds no row, keeps every chunk it leaves addressable and lets
   no task past the lock preserves the invariant. *)
LEMMA QuietStep ==
  ASSUME IInv, TypeOK', ChunksAddressable',
         memory_docs' \subseteq memory_docs,
         Holding' \subseteq Holding,
         \A q \in Holding' : arg'[q] = arg[q]
  PROVE  IInv'
<1>1. PrimaryKey' /\ UniqueKey'
  BY DEF IInv, PrimaryKey, UniqueKey
<1>2. LocksExclusive'
  BY DEF IInv, LocksExclusive
<1>3. LockedKeyIsResolved'
  BY DEF IInv, LockedKeyIsResolved, RowAt
<1> QED
  BY <1>1, <1>2, <1>3 DEF IInv

(* A task that goes to a step outside the lock with well-typed arguments
   keeps the types and adds no lock holder. *)
LEMMA TaskStep ==
  ASSUME IInv, NEW p \in Procs, NEW s, NEW a \in Args,
         s \in {"idle", "lock", "path", "rows", "unlink", "dir"},
         s = "lock" => a.key \in Keys /\ a.content \in Contents,
         pc' = [pc EXCEPT ![p] = s],
         arg' = [arg EXCEPT ![p] = a],
         memory_docs' \subseteq memory_docs,
         vector_chunks' \subseteq vector_chunks,
         sidecar' \in [Namespaces \X Ids -> Contents \cup {None, Broken}],
         ChunksAddressable'
  PROVE  IInv'
<1>1. TypeOK'
  BY DEF IInv, TypeOK
<1>2. Holding' \subseteq Holding /\ \A q \in Holding' : arg'[q] = arg[q]
  BY DEF IInv, TypeOK, Holding
<1> QED
  BY <1>1, <1>2, QuietStep

(* Unchanged tables keep every chunk addressable. *)
LEMMA SameTables ==
  ASSUME IInv, UNCHANGED tables, torn \subseteq torn'
  PROVE  /\ ChunksAddressable'
         /\ memory_docs' \subseteq memory_docs
         /\ vector_chunks' \subseteq vector_chunks
         /\ sidecar' \in [Namespaces \X Ids -> Contents \cup {None, Broken}]
BY DEF IInv, TypeOK, ChunksAddressable, RowOf, tables

(* Removing files keeps the directory a directory. *)
LEMMA RemoveFilesType ==
  ASSUME IInv, NEW files, RemoveFiles(files)
  PROVE  sidecar' \in [Namespaces \X Ids -> Contents \cup {None, Broken}]
BY DEF IInv, TypeOK, RemoveFiles

(* Cutting files short keeps it one too. *)
LEMMA StopType ==
  ASSUME IInv, NEW ps, Stop(ps)
  PROVE  sidecar' \in [Namespaces \X Ids -> Contents \cup {None, Broken}]
<1>1. PICK cut : sidecar' = [f \in DOMAIN sidecar |-> IF f \in cut THEN Broken ELSE sidecar[f]]
  BY DEF Stop
<1> QED
  BY <1>1 DEF IInv, TypeOK

(* Beginning a write keeps the invariant. *)
LEMMA PutInv == ASSUME IInv, NEW p \in Procs, Put(p) PROVE IInv'
<1>1. PICK kind \in {"full", "light"}, ns \in Namespaces, key \in Keys, content \in Contents,
           want \in Known \cup {None} :
        Begin(p, "lock", [NoArgs EXCEPT !.kind = kind, !.ns = ns, !.key = key,
                                        !.want = want, !.content = content])
  BY Zenon DEF Put
<1> DEFINE a == [NoArgs EXCEPT !.kind = kind, !.ns = ns, !.key = key,
                               !.want = want, !.content = content]
<1>2. want \in Ids \cup {None}
  BY DEF IInv, Known, TypeOK, Document, Ids
<1>3. a \in Args /\ a.key = key /\ a.content = content
  BY <1>2, NoArgsType DEF Args
<1>4. pc' = [pc EXCEPT ![p] = "lock"] /\ arg' = [arg EXCEPT ![p] = a]
  BY <1>1 DEF Begin
<1>5. UNCHANGED tables /\ torn \subseteq torn'
  BY DEF Put
<1> HIDE DEF a
<1> QED
  BY <1>3, <1>4, <1>5, TaskStep, SameTables

(* Beginning a deletion keeps the invariant. *)
LEMMA BeginRemoveInv ==
  ASSUME IInv, NEW p \in Procs, Delete(p) \/ Forget(p) PROVE IInv'
<1>1. UNCHANGED tables /\ torn \subseteq torn'
  BY DEF Delete, Forget, history
<1>2. \E a \in Args : pc' = [pc EXCEPT ![p] = "path"] /\ arg' = [arg EXCEPT ![p] = a]
  <2>1. CASE Delete(p)
    <3>1. PICK ns \in Namespaces, id \in Known :
            Begin(p, "path", [NoArgs EXCEPT !.kind = "delete", !.ns = ns, !.id = id])
      BY <2>1, Zenon DEF Delete
    <3>2. id \in Ids
      BY DEF IInv, Known, TypeOK, Document, Ids
    <3>3. [NoArgs EXCEPT !.kind = "delete", !.ns = ns, !.id = id] \in Args
      BY <3>2, NoArgsType DEF Args
    <3> QED BY <3>1, <3>3 DEF Begin
  <2>2. CASE Forget(p)
    <3>1. PICK ns \in Namespaces, key \in Keys : \E r \in RowAt(ns, key) :
            Begin(p, "path", [NoArgs EXCEPT !.kind = "forget", !.ns = ns, !.key = key,
                                            !.id = r.document_id])
      BY <2>2, Zenon DEF Forget
    <3>2. PICK r \in RowAt(ns, key) :
            Begin(p, "path", [NoArgs EXCEPT !.kind = "forget", !.ns = ns, !.key = key,
                                            !.id = r.document_id])
      BY <3>1
    <3>3. r.document_id \in Ids
      BY DEF IInv, TypeOK, Document, RowAt
    <3>4. [NoArgs EXCEPT !.kind = "forget", !.ns = ns, !.key = key,
                         !.id = r.document_id] \in Args
      BY <3>3, NoArgsType DEF Args
    <3> QED BY <3>2, <3>4 DEF Begin
  <2> QED BY <2>1, <2>2
<1>3. PICK a \in Args : pc' = [pc EXCEPT ![p] = "path"] /\ arg' = [arg EXCEPT ![p] = a]
  BY <1>2
<1> QED
  BY <1>1, <1>3, TaskStep, SameTables

(* The steps of a deletion, of a clear and of a failure keep the invariant:
   they only take rows away, and a row only with its chunks unless the delete
   is torn. *)
LEMMA RemoveInv ==
  ASSUME IInv, NEW p \in Procs,
         \/ DeletePath(p) \/ DeleteRows(p) \/ DeleteTorn(p) \/ Unlink(p)
         \/ Clear(p) \/ RemoveDir(p) \/ CommitConflict(p) \/ Fail(p)
  PROVE  IInv'
<1>0. arg[p] \in Args /\ sidecar \in [Namespaces \X Ids -> Contents \cup {None, Broken}]
  BY DEF IInv, TypeOK
<1>1. CASE DeletePath(p)
  <2> DEFINE found == RowOf(arg[p].ns, arg[p].id) # {}
             a == [arg[p] EXCEPT !.path = found]
  <2>1. found \in BOOLEAN
    OBVIOUS
  <2> HIDE DEF found
  <2>2. a \in Args
    BY <1>0, <2>1 DEF Args
  <2>3. pc' = [pc EXCEPT ![p] = "rows"] /\ arg' = [arg EXCEPT ![p] = a]
    BY <1>1 DEF DeletePath, IInv, TypeOK, found
  <2>4. UNCHANGED tables /\ torn \subseteq torn'
    BY <1>1 DEF DeletePath, history
  <2> HIDE DEF a
  <2> QED BY <2>2, <2>3, <2>4, TaskStep, SameTables
<1>2. CASE DeleteRows(p)
  <2>1. memory_docs' \subseteq memory_docs /\ vector_chunks' \subseteq vector_chunks
          /\ sidecar' = sidecar
    BY <1>2 DEF DeleteRows
  <2>2. ChunksAddressable'
    BY <1>2 DEF DeleteRows, IInv, ChunksAddressable, RowOf
  <2>3. pc' = [pc EXCEPT ![p] = "unlink"] /\ arg' = [arg EXCEPT ![p] = arg[p]]
    BY <1>2 DEF DeleteRows, IInv, TypeOK
  <2> QED BY <1>0, <2>1, <2>2, <2>3, TaskStep
<1>3. CASE DeleteTorn(p)
  <2>1. memory_docs' \subseteq memory_docs /\ vector_chunks' \subseteq vector_chunks
          /\ sidecar' = sidecar
    BY <1>3 DEF DeleteTorn
  <2>2. ChunksAddressable'
    BY <1>3 DEF DeleteTorn, IInv, ChunksAddressable, RowOf
  <2>3. pc' = [pc EXCEPT ![p] = "idle"] /\ arg' = [arg EXCEPT ![p] = NoArgs]
    BY <1>3 DEF DeleteTorn, Return
  <2> QED BY <1>0, <2>1, <2>2, <2>3, NoArgsType, TaskStep
<1>4. CASE Unlink(p) \/ RemoveDir(p)
  <2>1. PICK files : RemoveFiles(files)
    BY <1>4 DEF Unlink, RemoveDir
  <2>2. UNCHANGED <<memory_docs, vector_chunks, torn>>
    BY <1>4 DEF Unlink, RemoveDir
  <2>3. ChunksAddressable'
    BY <2>2 DEF IInv, ChunksAddressable, RowOf
  <2>4. pc' = [pc EXCEPT ![p] = "idle"] /\ arg' = [arg EXCEPT ![p] = NoArgs]
    BY <1>4 DEF Unlink, RemoveDir, Return
  <2> QED BY <2>1, <2>2, <2>3, <2>4, NoArgsType, RemoveFilesType, TaskStep
<1>5. CASE Clear(p)
  <2>1. PICK ns \in Namespaces :
          /\ Begin(p, "dir", [NoArgs EXCEPT !.ns = ns])
          /\ memory_docs' = {r \in memory_docs : r.namespace # ns}
          /\ vector_chunks' = {c \in vector_chunks : c.namespace # ns}
    BY <1>5, Zenon DEF Clear
  <2>2. sidecar' = sidecar /\ torn' = torn
    BY <1>5 DEF Clear
  <2>3. ChunksAddressable'
    BY <2>1, <2>2 DEF IInv, ChunksAddressable, RowOf
  <2>4. [NoArgs EXCEPT !.ns = ns] \in Args
    BY NoArgsType DEF Args
  <2>5. PICK a \in Args : pc' = [pc EXCEPT ![p] = "dir"] /\ arg' = [arg EXCEPT ![p] = a]
    BY <2>1, <2>4 DEF Begin
  <2>6. memory_docs' \subseteq memory_docs /\ vector_chunks' \subseteq vector_chunks
    BY <2>1
  <2> QED BY <1>0, <2>2, <2>3, <2>5, <2>6, TaskStep
<1>6. CASE CommitConflict(p)
  <2>1. UNCHANGED tables /\ torn \subseteq torn'
    BY <1>6 DEF CommitConflict
  <2>2. pc' = [pc EXCEPT ![p] = "idle"] /\ arg' = [arg EXCEPT ![p] = NoArgs]
    BY <1>6 DEF CommitConflict, Return
  <2> QED BY <2>1, <2>2, NoArgsType, TaskStep, SameTables
<1>7. CASE Fail(p)
  <2>1. Stop({p}) /\ UNCHANGED <<memory_docs, vector_chunks, torn>>
    BY <1>7 DEF Fail
  <2>2. ChunksAddressable'
    BY <2>1 DEF IInv, ChunksAddressable, RowOf
  <2>3. pc' = [pc EXCEPT ![p] = "idle"] /\ arg' = [arg EXCEPT ![p] = NoArgs]
    BY <1>7 DEF Fail, Return
  <2> QED BY <2>1, <2>2, <2>3, NoArgsType, StopType, TaskStep
<1> QED
  BY <1>1, <1>2, <1>3, <1>4, <1>5, <1>6, <1>7

(* A crash empties the tasks and keeps the tables. *)
LEMMA CrashInv == ASSUME IInv, Crash PROVE IInv'
<1>1. Stop(Procs) /\ UNCHANGED <<memory_docs, vector_chunks, torn>>
  BY DEF Crash
<1>2. sidecar' \in [Namespaces \X Ids -> Contents \cup {None, Broken}]
  BY <1>1, StopType
<1>3. TypeOK'
  BY <1>1, <1>2, NoArgsType DEF Crash, IInv, TypeOK
<1>4. ChunksAddressable'
  BY <1>1 DEF IInv, ChunksAddressable, RowOf
<1>5. Holding' = {}
  BY DEF Crash, Holding
<1> QED
  BY <1>1, <1>3, <1>4, <1>5, QuietStep

(* Writing the sidecar keeps the invariant: the lock is held before and after. *)
LEMMA WriteSidecarInv == ASSUME IInv, NEW p \in Procs, WriteSidecar(p) PROVE IInv'
<1>1. TypeOK'
  BY DEF WriteSidecar, IInv, TypeOK
<1>2. ChunksAddressable'
  BY DEF WriteSidecar, IInv, ChunksAddressable, RowOf, history
<1>3. Holding' \subseteq Holding
  BY DEF WriteSidecar, IInv, TypeOK, Holding
<1> QED
  BY <1>1, <1>2, <1>3, QuietStep DEF WriteSidecar

(* Settling the id keeps the invariant: by UNIQUE(namespace, key) the row
   found under the key is the only one there. *)
LEMMA ResolveIdInv == ASSUME IInv, NEW p \in Procs, ResolveId(p) PROVE IInv'
<1> DEFINE found == resolve_document_identity(arg[p].ns, arg[p].key, arg[p].want)
<1>1. /\ pc[p] = "lock" /\ LockFree(p)
      /\ pc' = [pc EXCEPT ![p] = "sidecar"]
      /\ UNCHANGED <<memory_docs, vector_chunks, sidecar, torn>>
  BY DEF ResolveId, tables, history
<1>2. arg[p] \in Args /\ arg[p].key \in Keys /\ arg[p].content \in Contents
  BY <1>1 DEF IInv, TypeOK
<1>3. found \in Ids \cup {None}
  BY <1>2 DEF resolve_document_identity, RowAt, IInv, TypeOK, Document, Args
<1>4. \E id \in Ids : /\ arg' = [arg EXCEPT ![p].id = id]
                      /\ found # None => id = found
  <2>1. derive_document_id(arg[p].ns, arg[p].key) \in Ids /\ Minted \subseteq Ids
    BY <1>2 DEF derive_document_id, Ids, Args
  <2>2. \/ found # None /\ arg' = [arg EXCEPT ![p].id = found]
        \/ found = None /\ arg' = [arg EXCEPT ![p].id = derive_document_id(arg[p].ns, arg[p].key)]
        \/ found = None /\ \E m \in Minted : arg' = [arg EXCEPT ![p].id = m]
    BY Zenon DEF ResolveId, RandomIds
  <2> HIDE DEF found
  <2>3. CASE found # None
    BY <1>3, <2>2, <2>3
  <2>4. CASE found = None
    BY <2>1, <2>2, <2>4, Zenon
  <2> QED BY <2>3, <2>4
<1>5. PICK id \in Ids : /\ arg' = [arg EXCEPT ![p].id = id]
                        /\ found # None => id = found
  BY <1>4
<1>6. \A r \in RowAt(arg[p].ns, arg[p].key) : r.document_id = found /\ found # None
  <2> SUFFICES ASSUME NEW r \in RowAt(arg[p].ns, arg[p].key)
               PROVE  r.document_id = found /\ found # None
    OBVIOUS
  <2>1. found = (CHOOSE s \in RowAt(arg[p].ns, arg[p].key) : TRUE).document_id
    BY DEF resolve_document_identity
  <2>2. (CHOOSE s \in RowAt(arg[p].ns, arg[p].key) : TRUE) = r
    BY DEF RowAt, IInv, UniqueKey
  <2>3. r.document_id \in Ids
    BY DEF RowAt, IInv, TypeOK, Document
  <2> QED BY <2>1, <2>2, <2>3, ConstantsAssumption DEF Ids
<1> DEFINE a == [arg[p] EXCEPT !.id = id]
<1>7. /\ arg' = [arg EXCEPT ![p] = a]
      /\ a \in Args /\ a.id = id /\ a.ns = arg[p].ns /\ a.key = arg[p].key
      /\ a.content = arg[p].content
  BY <1>2, <1>5 DEF Args, IInv, TypeOK
<1> HIDE DEF a
<1>8. TypeOK'
  BY <1>1, <1>2, <1>7 DEF IInv, TypeOK
<1>9. /\ Holding' = Holding \cup {p} /\ p \notin Holding
      /\ \A q \in Holding : arg'[q] = arg[q] /\ q # p
      /\ arg'[p] = a
  BY <1>1, <1>7 DEF Holding, IInv, TypeOK
<1>10. LocksExclusive'
  BY <1>1, <1>7, <1>9 DEF IInv, LocksExclusive, LockFree
<1>11. LockedKeyIsResolved'
  <2> SUFFICES ASSUME NEW q \in Holding', NEW r \in memory_docs,
                      r.namespace = arg'[q].ns, r.key = arg'[q].key
               PROVE  r.document_id = arg'[q].id
    BY <1>1 DEF LockedKeyIsResolved, RowAt
  <2>1. CASE q = p
    <3>1. arg'[q] = a
      BY <2>1, <1>9
    <3>2. r \in RowAt(arg[p].ns, arg[p].key)
      BY <3>1, <1>7 DEF RowAt
    <3>3. r.document_id = found /\ found # None
      BY <3>2, <1>6
    <3> HIDE DEF found
    <3> QED BY <3>1, <3>3, <1>5, <1>7
  <2>2. CASE q # p
    <3>1. q \in Holding /\ arg'[q] = arg[q]
      BY <2>2, <1>9
    <3>2. r \in RowAt(arg[q].ns, arg[q].key)
      BY <3>1 DEF RowAt
    <3> QED BY <3>1, <3>2 DEF IInv, LockedKeyIsResolved
  <2> QED BY <2>1, <2>2
<1>12. ChunksAddressable' /\ PrimaryKey' /\ UniqueKey'
  BY <1>1 DEF IInv, ChunksAddressable, PrimaryKey, UniqueKey, RowOf
<1> QED
  BY <1>8, <1>10, <1>11, <1>12 DEF IInv

(* The write transaction keeps the invariant. *)
LEMMA CommitInv == ASSUME IInv, NEW p \in Procs, Commit(p) PROVE IInv'
<1> DEFINE ns == arg[p].ns
           id == arg[p].id
           key == arg[p].key
           content == arg[p].content
<1>1. /\ pc[p] = "commit" /\ p \in Holding
      /\ pc' = [pc EXCEPT ![p] = "idle"] /\ arg' = [arg EXCEPT ![p] = NoArgs]
      /\ sidecar' = sidecar /\ torn' = torn
  BY DEF Commit, Return, Holding
<1>2. ns \in Namespaces /\ id \in Ids /\ content \in Contents /\ key \in Keys
  BY <1>1 DEF IInv, TypeOK, Args
<1>3. vector_chunks' \subseteq vector_chunks
                         \cup {[namespace |-> ns, document_id |-> id, text |-> content]}
  BY DEF Commit, ReplaceChunks
<1>4. TypeOK'
  <2>1. memory_docs' \subseteq Document
    BY CommitRows
  <2>2. vector_chunks' \subseteq Chunk
    BY <1>2, <1>3 DEF IInv, TypeOK, Chunk
  <2> QED BY <1>1, <2>1, <2>2, NoArgsType DEF IInv, TypeOK
<1>5. Holding' = Holding \ {p} /\ \A q \in Holding' : arg'[q] = arg[q]
  BY <1>1 DEF Holding, IInv, TypeOK
<1>6. PrimaryKey' /\ UniqueKey'
  <2>1. \A r, s \in Document : /\ r.document_id = s.document_id /\ r.namespace = s.namespace
                               /\ r.key = s.key /\ r.content = s.content
                               => r = s
    BY DEF Document
  <2> QED BY <2>1, CommitRows DEF IInv, PrimaryKey, UniqueKey
<1>7. LocksExclusive'
  BY <1>5 DEF IInv, LocksExclusive
<1>8. LockedKeyIsResolved'
  <2> SUFFICES ASSUME NEW q \in Holding', NEW r \in memory_docs',
                      r.namespace = arg[q].ns, r.key = arg[q].key
               PROVE  r.document_id = arg[q].id
    BY <1>5 DEF LockedKeyIsResolved, RowAt
  <2>1. q \in Holding /\ <<arg[q].ns, arg[q].key>> # <<ns, key>>
    BY <1>1, <1>5 DEF IInv, LocksExclusive
  <2>2. r \in memory_docs
    BY <2>1, CommitRows
  <2> QED BY <2>1, <2>2 DEF IInv, LockedKeyIsResolved, RowAt
<1>9. ChunksAddressable'
  <2> SUFFICES ASSUME NEW c \in vector_chunks', <<c.namespace, c.document_id>> \notin torn
               PROVE  \E r \in memory_docs' :
                        r.namespace = c.namespace /\ r.document_id = c.document_id
    BY <1>1 DEF ChunksAddressable, RowOf
  <2>1. CASE c \in vector_chunks
    <3>1. PICK s \in memory_docs :
            s.namespace = c.namespace /\ s.document_id = c.document_id
      BY <2>1 DEF IInv, ChunksAddressable, RowOf
    <3> QED BY <3>1, CommitRows
  <2>2. CASE c = [namespace |-> ns, document_id |-> id, text |-> content]
    BY <2>2, CommitRows
  <2> QED BY <1>3, <2>1, <2>2
<1> QED
  BY <1>4, <1>6, <1>7, <1>8, <1>9 DEF IInv

(* Every step keeps the invariant. *)
LEMMA StepInv == IInv /\ [Next]_vars => IInv'
<1> SUFFICES ASSUME IInv, [Next]_vars PROVE IInv'
  OBVIOUS
<1>1. CASE Crash
  BY <1>1, CrashInv
<1>2. ASSUME NEW p \in Procs, Write(p) PROVE IInv'
  BY <1>2, PutInv, ResolveIdInv, WriteSidecarInv, CommitInv, RemoveInv DEF Write
<1>3. ASSUME NEW p \in Procs, Remove(p) \/ Fail(p) PROVE IInv'
  BY <1>3, BeginRemoveInv, RemoveInv DEF Remove
<1>4. CASE UNCHANGED vars
  BY <1>4 DEF vars, tables, history, IInv, TypeOK, PrimaryKey, UniqueKey, LocksExclusive,
              LockedKeyIsResolved, ChunksAddressable, Holding, RowAt, RowOf
<1> QED
  BY <1>1, <1>2, <1>3, <1>4 DEF Next

(* The store's types, for every number of tasks, documents and failures. *)
THEOREM TypesHold == Spec => []TypeOK
<1>1. IInv => TypeOK
  BY DEF IInv
<1> QED
  BY InitInv, StepInv, <1>1, PTL DEF Spec

(* A write that holds its key's lock always meets the row it resolved: the
   upsert and the re-key of documents.rs:264-308 hit the row the sidecar was
   written for, whatever the writers of other keys do. *)
THEOREM WritesHitTheirRow == Spec => []LockedKeyIsResolved
<1>1. IInv => LockedKeyIsResolved
  BY DEF IInv
<1> QED
  BY InitInv, StepInv, <1>1, PTL DEF Spec

(* No interleaving of writes, deletes, clears, failures and crashes orphans a
   chunk, other than a delete cut between its statements. *)
THEOREM NoOrphanChunks == Spec => []ChunksAddressable
<1>1. IInv => ChunksAddressable
  BY DEF IInv
<1> QED
  BY InitInv, StepInv, <1>1, PTL DEF Spec

(* The three facts together, the invariant the runs check. *)
THEOREM RowsCorrect == Spec => []RowsSound
BY TypesHold, WritesHitTheirRow, NoOrphanChunks, PTL DEF RowsSound
=============================================================================
