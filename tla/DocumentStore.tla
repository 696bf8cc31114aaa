--------------------------- MODULE DocumentStore ---------------------------
(***************************************************************************)
(* The namespace document store: the memory_docs and vector_chunks tables, *)
(* the markdown sidecars beside them, and the operations that write them   *)
(* (core/src/store/namespace_store/documents.rs, Memory::forget in         *)
(* store/memory_trait.rs).                                                 *)
(*                                                                         *)
(* A table is a set of records, a SQL statement a set expression over it.  *)
(* Everything the code does under one hold of the connection mutex is one  *)
(* step; everything separated by an await or by a release of that mutex is *)
(* a step of its own, so operations of several tasks interleave exactly    *)
(* where the code lets them.  A write batch (upsert_documents) is its      *)
(* documents written one after another by one task.                        *)
(*                                                                         *)
(* Data: namespaces and keys are the sanitized and canonical ones the      *)
(* write gate lets through; content stands for all the columns a write     *)
(* sets; the chunks of a document are one record that carries the content  *)
(* they were cut from.  What a delete does to the knowledge graph is in    *)
(* module KnowledgeGraph; here that call may only fail.                    *)
(***************************************************************************)
EXTENDS Naturals, FiniteSets

CONSTANTS
  Procs,        \* tasks calling the store
  Namespaces,   \* sanitized namespaces
  Keys,         \* canonical document keys
  Requested,    \* ids that only callers choose (sync providers' stable ids)
  Minted,       \* random ids of the metadata-only path, never drawn twice
  Contents,     \* document bodies
  None,         \* no id, no file
  Broken,       \* a sidecar whose write was cut short
  MaxOps,       \* bound on operations begun
  MaxFaults     \* bound on storage failures and crashes

ASSUME ConstantsAssumption ==
  /\ MaxOps \in Nat
  /\ MaxFaults \in Nat
  /\ Namespaces # {}
  /\ Broken \notin Contents \cup {None}
  /\ None \notin Contents \cup Requested \cup Minted \cup (Namespaces \X Keys)

VARIABLES
  memory_docs,    \* the table of documents: primary key document_id, UNIQUE(namespace, key)
  vector_chunks,  \* the table of chunks, by (namespace, document_id)
  sidecar,        \* namespaces/<ns>/docs/<id>.md: the body in the file, Broken or None
  pc,             \* where each task is in its operation
  arg,            \* the operation's arguments and what it has resolved
  drawn,          \* random ids drawn so far
  ops,            \* operations begun
  faults,         \* failures and crashes so far
  claimed,        \* history: ids some caller passed as document_id
  torn,           \* history: (namespace, id) whose delete stopped between its two statements
  drifted,        \* history: (namespace, id) whose sidecar a failure or a delete set apart
                  \* and no write has rewritten since
  acked           \* history: the rows acknowledged writes left, until someone names them again

tables == <<memory_docs, vector_chunks, sidecar>>
history == <<claimed, torn, drifted, acked>>
vars == <<tables, pc, arg, drawn, ops, faults, history>>

-----------------------------------------------------------------------------
(* Faulty variant: the key is left out of the digest. *)
DeriveFromNamespace(ns, key) == <<ns, CHOOSE k \in Keys : TRUE>>

(* Faulty variant: the namespace is left out of the digest. *)
DeriveFromKey(ns, key) == key

(* derive_document_id hashes (namespace, 0, key): injective, so the pair
   itself stands for the digest. *)
derive_document_id(ns, key) == <<ns, key>>

Ids == (Namespaces \X Keys) \cup Requested \cup Minted

Document == [document_id : Ids, namespace : Namespaces, key : Keys, content : Contents]
Chunk == [namespace : Namespaces, document_id : Ids, text : Contents]
Args == [kind : {"full", "light", "delete", "forget", "clear"}, ns : Namespaces,
         key : Keys \cup {None}, want : Ids \cup {None},
         content : Contents \cup {None}, id : Ids \cup {None}, path : BOOLEAN]

NoArgs == [kind |-> "clear", ns |-> CHOOSE n \in Namespaces : TRUE, key |-> None,
           want |-> None, content |-> None, id |-> None, path |-> FALSE]

RowAt(ns, key) == {r \in memory_docs : r.namespace = ns /\ r.key = key}
RowOf(ns, id) == {r \in memory_docs : r.namespace = ns /\ r.document_id = id}

(* Tasks that hold the per-key write lock: from the resolution of the id to
   the end of the write. *)
Holding == {p \in Procs : pc[p] \in {"sidecar", "commit"}}

(* Faulty variant: the metadata-only path does without the lock. *)
LightSkipsLock(p) ==
  arg[p].kind = "light"
    \/ \A q \in Holding : <<arg[q].ns, arg[q].key>> # <<arg[p].ns, arg[p].key>>

(* Faulty variant: the lock is released before the transaction. *)
LockOnlyForSidecar(p) ==
  \A q \in Procs : pc[q] = "sidecar" => <<arg[q].ns, arg[q].key>> # <<arg[p].ns, arg[p].key>>

(* document_write_lock(namespace, key) is free for p to take. *)
LockFree(p) ==
  \A q \in Holding : <<arg[q].ns, arg[q].key>> # <<arg[p].ns, arg[p].key>>

(* Faulty variant: a requested id wins over the row that has the key. *)
RequestedIdWins(ns, key, want) ==
  IF want # None /\ \A r \in memory_docs : r.document_id = want => r.namespace = ns
  THEN want
  ELSE IF RowAt(ns, key) # {} THEN (CHOOSE r \in RowAt(ns, key) : TRUE).document_id ELSE None

(* The id of the row a write addresses, None when it has to mint one: the
   row under the key wins, then a requested id that is free or held by this
   namespace. *)
resolve_document_identity(ns, key, want) ==
  IF RowAt(ns, key) # {} THEN (CHOOSE r \in RowAt(ns, key) : TRUE).document_id
  ELSE IF want # None /\ \A r \in memory_docs : r.document_id = want => r.namespace = ns
       THEN want ELSE None

(* Inside the transaction: the row of the id, moved under the written key. *)
rekey_document_in_namespace(ns, id, key) ==
  {IF r.namespace = ns /\ r.document_id = id THEN [r EXCEPT !.key = key] ELSE r
     : r \in memory_docs}

(* The UPDATE of the re-key breaks UNIQUE(namespace, key). *)
RekeyConflict(ns, id, key) ==
  /\ \E r \in RowOf(ns, id) : r.key # key
  /\ RowAt(ns, key) # {}

(* The INSERT breaks the primary key, which its ON CONFLICT clause does not cover. *)
InsertConflict(ns, id, key) ==
  \E r \in rekey_document_in_namespace(ns, id, key) :
    r.document_id = id /\ ~(r.namespace = ns /\ r.key = key)

(* INSERT .. ON CONFLICT(namespace, key) DO UPDATE: an existing row keeps its id. *)
Upsert(docs, ns, id, key, content) ==
  LET existing == {r \in docs : r.namespace = ns /\ r.key = key}
  IN  IF existing = {}
      THEN docs \cup {[document_id |-> id, namespace |-> ns, key |-> key, content |-> content]}
      ELSE (docs \ existing) \cup {[r EXCEPT !.content = content] : r \in existing}

(* DELETE FROM vector_chunks of the id, then the new chunks. *)
ReplaceChunks(ns, id, content) ==
  {c \in vector_chunks : ~(c.namespace = ns /\ c.document_id = id)}
    \cup {[namespace |-> ns, document_id |-> id, text |-> content]}

-----------------------------------------------------------------------------
Init ==
  /\ memory_docs = {}
  /\ vector_chunks = {}
  /\ sidecar = [f \in Namespaces \X Ids |-> None]
  /\ pc = [p \in Procs |-> "idle"]
  /\ arg = [p \in Procs |-> NoArgs]
  /\ drawn = {}
  /\ ops = 0
  /\ faults = 0
  /\ claimed = {}
  /\ torn = {}
  /\ drifted = {}
  /\ acked = {}

Begin(p, next, args) ==
  /\ pc[p] = "idle"
  /\ ops < MaxOps
  /\ ops' = ops + 1
  /\ pc' = [pc EXCEPT ![p] = next]
  /\ arg' = [arg EXCEPT ![p] = args]

(* The operation is over: the task forgets it. *)
Return(p) ==
  /\ pc' = [pc EXCEPT ![p] = "idle"]
  /\ arg' = [arg EXCEPT ![p] = NoArgs]

(* Ids a caller can name: its own stable ids, and those of stored documents. *)
Known == Requested \cup {r.document_id : r \in memory_docs}

(* upsert_document and upsert_document_metadata_only. *)
Put(p) ==
  \E kind \in {"full", "light"}, ns \in Namespaces, key \in Keys, content \in Contents,
     want \in Known \cup {None} :
    /\ Begin(p, "lock", [NoArgs EXCEPT !.kind = kind, !.ns = ns, !.key = key,
                                       !.want = want, !.content = content])
    /\ claimed' = claimed \cup ({want} \ {None})
    /\ UNCHANGED <<tables, drawn, faults, torn, drifted, acked>>

(* The metadata-only path's ids: a timestamp and eight random hex digits. *)
RandomIds == Minted \ drawn

(* Take the key's write lock and settle the document id: the existing or the
   requested one, else a derived id (full write) or a random one (light). *)
ResolveId(p) ==
  LET a == arg[p]
      found == resolve_document_identity(a.ns, a.key, a.want)
      Settle(id) == arg' = [arg EXCEPT ![p].id = id]
  IN  /\ pc[p] = "lock"
      /\ LockFree(p)
      /\ pc' = [pc EXCEPT ![p] = "sidecar"]
      /\ \/ found # None /\ Settle(found) /\ UNCHANGED drawn
         \/ /\ found = None /\ a.kind = "full"
            /\ Settle(derive_document_id(a.ns, a.key))
            /\ UNCHANGED drawn
         \/ /\ found = None /\ a.kind = "light"
            /\ \E m \in RandomIds : Settle(m) /\ drawn' = drawn \cup {m}
      /\ UNCHANGED <<tables, ops, faults, history>>

(* write_markdown_doc: the file is truncated and written. *)
WriteSidecar(p) ==
  /\ pc[p] = "sidecar"
  /\ sidecar' = [sidecar EXCEPT ![<<arg[p].ns, arg[p].id>>] = arg[p].content]
  /\ drifted' = drifted \ {<<arg[p].ns, arg[p].id>>}
  /\ pc' = [pc EXCEPT ![p] = "commit"]
  /\ UNCHANGED <<memory_docs, vector_chunks, arg, drawn, ops, faults, claimed, torn, acked>>

(* What an acknowledged write leaves standing of the earlier ones: not the
   row it addressed by key, nor the one it addressed by an explicit id. *)
Outlives(r, a) ==
  r.namespace = a.ns => r.key # a.key /\ ~(a.want = a.id /\ r.document_id = a.id)

(* The write transaction, and the return that releases the lock. *)
Commit(p) ==
  LET a == arg[p]
      docs == Upsert(rekey_document_in_namespace(a.ns, a.id, a.key), a.ns, a.id, a.key, a.content)
  IN  /\ pc[p] = "commit"
      /\ ~RekeyConflict(a.ns, a.id, a.key) /\ ~InsertConflict(a.ns, a.id, a.key)
      /\ memory_docs' = docs
      /\ vector_chunks' = IF a.kind = "full" THEN ReplaceChunks(a.ns, a.id, a.content)
                                             ELSE vector_chunks
      /\ acked' = {r \in acked : Outlives(r, a)}
                    \cup {r \in docs : r.namespace = a.ns /\ r.key = a.key}
      /\ Return(p)
      /\ UNCHANGED <<sidecar, drawn, ops, faults, claimed, torn, drifted>>

(* A constraint error rolls the transaction back; the sidecar is written already. *)
CommitConflict(p) ==
  LET a == arg[p]
  IN  /\ pc[p] = "commit"
      /\ RekeyConflict(a.ns, a.id, a.key) \/ InsertConflict(a.ns, a.id, a.key)
      /\ drifted' = drifted \cup {<<a.ns, a.id>>}
      /\ Return(p)
      /\ UNCHANGED <<tables, drawn, ops, faults, claimed, torn, acked>>

-----------------------------------------------------------------------------
(* delete_document(namespace, document_id). *)
Delete(p) ==
  \E ns \in Namespaces, id \in Known :
    /\ Begin(p, "path", [NoArgs EXCEPT !.kind = "delete", !.ns = ns, !.id = id])
    /\ UNCHANGED <<tables, drawn, faults, history>>

(* Memory::forget: the id is looked up by key, then delete_document runs with
   it.  With no such row nothing happens. *)
Forget(p) ==
  \E ns \in Namespaces, key \in Keys : \E r \in RowAt(ns, key) :
    /\ Begin(p, "path", [NoArgs EXCEPT !.kind = "forget", !.ns = ns, !.key = key,
                                       !.id = r.document_id])
    /\ UNCHANGED <<tables, drawn, faults, history>>

(* The lookup of the sidecar's path; the graph removal that follows touches
   none of these tables. *)
DeletePath(p) ==
  /\ pc[p] = "path"
  /\ pc' = [pc EXCEPT ![p] = "rows"]
  /\ arg' = [arg EXCEPT ![p].path = RowOf(arg[p].ns, arg[p].id) # {}]
  /\ UNCHANGED <<tables, drawn, ops, faults, history>>

(* The acknowledged rows the deletion names: by id, or by key for a forget. *)
Named(a) ==
  {r \in acked : /\ r.namespace = a.ns
                 /\ IF a.kind = "forget" THEN r.key = a.key ELSE r.document_id = a.id}

(* The two DELETEs, under one hold of the connection mutex. *)
DeleteRows(p) ==
  LET a == arg[p]
  IN  /\ pc[p] = "rows"
      /\ memory_docs' = memory_docs \ RowOf(a.ns, a.id)
      /\ vector_chunks' = {c \in vector_chunks : ~(c.namespace = a.ns /\ c.document_id = a.id)}
      /\ acked' = acked \ Named(a)
      /\ pc' = [pc EXCEPT ![p] = "unlink"]
      /\ UNCHANGED <<sidecar, arg, drawn, ops, faults, claimed, torn, drifted>>

(* Each DELETE commits by itself: the second one fails, or the process dies
   between them.  The row is gone and its chunks are left. *)
DeleteTorn(p) ==
  LET a == arg[p]
  IN  /\ pc[p] = "rows"
      /\ faults < MaxFaults
      /\ faults' = faults + 1
      /\ memory_docs' = memory_docs \ RowOf(a.ns, a.id)
      /\ torn' = torn \cup {<<a.ns, a.id>>}
      /\ acked' = acked \ Named(a)
      /\ Return(p)
      /\ UNCHANGED <<vector_chunks, sidecar, drawn, ops, claimed, drifted>>

(* Files about to be removed that a row, or a write past its sidecar, relies on. *)
InUse(files) ==
  {f \in files : \/ RowOf(f[1], f[2]) # {}
                 \/ \E q \in Procs : pc[q] = "commit" /\ <<arg[q].ns, arg[q].id>> = f}

RemoveFiles(files) ==
  /\ sidecar' = [f \in DOMAIN sidecar |-> IF f \in files THEN None ELSE sidecar[f]]
  /\ drifted' = drifted \cup InUse(files)

(* The sidecar of the path read at the start is removed. *)
Unlink(p) ==
  /\ pc[p] = "unlink"
  /\ RemoveFiles(IF arg[p].path THEN {<<arg[p].ns, arg[p].id>>} ELSE {})
  /\ Return(p)
  /\ UNCHANGED <<memory_docs, vector_chunks, drawn, ops, faults, claimed, torn, acked>>

(* clear_namespace: one transaction over the tables, ... *)
Clear(p) ==
  \E ns \in Namespaces :
    /\ Begin(p, "dir", [NoArgs EXCEPT !.ns = ns])
    /\ memory_docs' = {r \in memory_docs : r.namespace # ns}
    /\ vector_chunks' = {c \in vector_chunks : c.namespace # ns}
    /\ acked' = {r \in acked : r.namespace # ns}
    /\ UNCHANGED <<sidecar, drawn, faults, claimed, torn, drifted>>

(* ... then the namespace's docs directory. *)
RemoveDir(p) ==
  /\ pc[p] = "dir"
  /\ RemoveFiles({arg[p].ns} \X Ids)
  /\ Return(p)
  /\ UNCHANGED <<memory_docs, vector_chunks, drawn, ops, faults, claimed, torn, acked>>

-----------------------------------------------------------------------------
(* Sidecars written by the operations of ps whose rows were not. *)
Unfinished(ps) == {<<arg[p].ns, arg[p].id>> : p \in {q \in ps : pc[q] = "commit"}}

(* The tasks of ps stop: the file one of them was writing may be cut short. *)
Stop(ps) ==
  \E cut \in SUBSET {<<arg[p].ns, arg[p].id>> : p \in {q \in ps : pc[q] = "sidecar"}} :
    /\ sidecar' = [f \in DOMAIN sidecar |-> IF f \in cut THEN Broken ELSE sidecar[f]]
    /\ drifted' = drifted \cup cut \cup Unfinished(ps)

(* Any step of an operation fails (I/O, SQL, the graph removal) and the
   operation returns without it. *)
Fail(p) ==
  /\ pc[p] # "idle"
  /\ faults < MaxFaults
  /\ faults' = faults + 1
  /\ Stop({p})
  /\ Return(p)
  /\ UNCHANGED <<memory_docs, vector_chunks, drawn, ops, claimed, torn, acked>>

(* The process dies: the files and the committed rows are what is left. *)
Crash ==
  /\ faults < MaxFaults
  /\ faults' = faults + 1
  /\ Stop(Procs)
  /\ pc' = [p \in Procs |-> "idle"]
  /\ arg' = [p \in Procs |-> NoArgs]
  /\ UNCHANGED <<memory_docs, vector_chunks, drawn, ops, claimed, torn, acked>>

Write(p) == Put(p) \/ ResolveId(p) \/ WriteSidecar(p) \/ Commit(p) \/ CommitConflict(p)
Remove(p) ==
  \/ Delete(p) \/ Forget(p) \/ DeletePath(p) \/ DeleteRows(p) \/ DeleteTorn(p) \/ Unlink(p)
  \/ Clear(p) \/ RemoveDir(p)

Next == Crash \/ \E p \in Procs : Write(p) \/ Remove(p) \/ Fail(p)

Spec == Init /\ [][Next]_vars

-----------------------------------------------------------------------------
(* The tables hold rows, every task is at a step of an operation, and a task
   past the lock has an id: the shape of documents.rs' state. *)
TypeOK ==
  /\ memory_docs \subseteq Document
  /\ vector_chunks \subseteq Chunk
  /\ sidecar \in [Namespaces \X Ids -> Contents \cup {None, Broken}]
  /\ pc \in [Procs -> {"idle", "lock", "sidecar", "commit", "path", "rows", "unlink", "dir"}]
  /\ arg \in [Procs -> Args]
  /\ \A p \in Procs : pc[p] \in {"lock", "sidecar", "commit"} =>
       arg[p].key \in Keys /\ arg[p].content \in Contents
  /\ \A p \in Procs : pc[p] \in {"sidecar", "commit"} => arg[p].id \in Ids

(* While a write holds the lock of its key, any row under that key is the row
   whose id the write resolved: no other key's writer can slip a row in by
   re-keying it, and so the upsert updates the row the sidecar and the chunks
   are written for, and the re-key never meets UNIQUE(namespace, key)
   (documents.rs:43-52, 931-943). *)
LockedKeyIsResolved ==
  \A p \in Holding : \A r \in RowAt(arg[p].ns, arg[p].key) : r.document_id = arg[p].id

(* Every chunk is reachable from a row of its namespace, so deleting the
   document deletes it: concurrent first writes, re-keys, deletes and crashes
   orphan no chunk, except a delete cut between its two statements
   (documents.rs:224-238, 806-821). *)
ChunksAddressable ==
  \A c \in vector_chunks :
    <<c.namespace, c.document_id>> \notin torn => RowOf(c.namespace, c.document_id) # {}

(* An acknowledged write stays what its key reads until an operation names its
   key, its id or its namespace - as long as no caller ever chose its id
   (documents.rs:35-61: a write lands on the row it addresses). *)
AckedStays == \A r \in acked : r.document_id \notin claimed => r \in memory_docs

(* The sidecar of a settled row holds the row's content: the per-key lock
   keeps sidecar and transaction of one write together against any other
   write of the key (documents.rs:206-219), and a file that a failure, a crash
   or a late removal set apart from its row is right again after the next
   write of the document. *)
SidecarCurrent ==
  \A r \in memory_docs :
    LET f == <<r.namespace, r.document_id>>
    IN  (r.document_id \notin claimed /\ f \notin drifted \cup Unfinished(Procs))
          => sidecar[f] = r.content

\* A locked write meets the row it resolved, and no chunk loses its document.
RowsSound == TypeOK /\ LockedKeyIsResolved /\ ChunksAddressable

\* What a write acknowledged is there afterwards, row and sidecar alike.
WritesLast == AckedStays /\ SidecarCurrent
=============================================================================
