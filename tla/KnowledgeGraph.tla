--------------------------- MODULE KnowledgeGraph ---------------------------
(***************************************************************************)
(* The relations of one namespace's knowledge graph (graph_namespace) and  *)
(* the documents they are drawn from: background extraction                *)
(* (UnifiedMemory::extract_graph), the removal of a document's evidence    *)
(* that every extraction and every delete_document starts with             *)
(* (graph_remove_document_namespace), and clear_namespace.                 *)
(*                                                                         *)
(* A relation is one (subject, predicate, object); of its attributes the   *)
(* model keeps the three that say where it comes from: the document_id of  *)
(* the last extraction, the document_ids and the chunk_ids, the last as    *)
(* the set of documents the chunks belong to.  Extractions run one at a    *)
(* time (the ingestion lock); deletes take no lock.                        *)
(***************************************************************************)
EXTENDS Naturals, FiniteSets, Sequences

CONSTANTS
  Docs,       \* document ids
  Relations,  \* triples
  Deleters,   \* tasks calling delete_document
  NoRow,       \* no relation, no document
  Limit,      \* LIMIT of graph_relations_namespace, 300 in the code
  MaxOps      \* bound on puts, deletes and clears

Extractor == "extractor"
Tasks == Deleters \cup {Extractor}

Attrs == [document_id : Docs, document_ids : SUBSET Docs, chunk_ids : SUBSET Docs]

ASSUME GraphAssumption ==
  /\ Limit \in Nat /\ MaxOps \in Nat
  /\ NoRow \notin Docs \cup Attrs /\ Extractor \notin Deleters

VARIABLES
  graph,     \* each relation's attributes, NoRow when there is no such row
  recent,    \* pairs of rows, the first with an updated_at no older than the second
  stored,    \* documents with a row in memory_docs
  jobs,      \* queued extractions, oldest first
  task,      \* what the extractor and each deleter is doing
  ops,       \* operations begun
  expected,  \* history: relations each document's extraction has written
  raced,     \* history: relations written while a removal held an older copy
  late,      \* history: documents whose deletion could not see all their relations:
             \* an extraction of theirs was not over, or the read was cut at Limit
  sole       \* history: documents ever merged into each relation's present row

history == <<expected, raced, late, sole>>
kgVars == <<graph, recent, stored, jobs, task, ops, history>>

KgIdle == [at |-> "idle", doc |-> NoRow, rows |-> <<>>, todo |-> {}]

-----------------------------------------------------------------------------
Present == {r \in Relations : graph[r] # NoRow}

(* Faulty variant: a blank singular id is not filtered out. *)
KeepsBlank(a) == a.document_ids \cup {a.document_id, NoRow}

(* json_string_array(attrs, "document_ids", "document_id"): the list and the
   singular attribute together. *)
Evidence(a) == a.document_ids \cup {a.document_id}

AllFit == Cardinality(Present) <= Limit

(* graph_relations_namespace: the Limit rows with the newest updated_at, any
   of them where times are equal. *)
Newest ==
  IF AllFit THEN {Present}
  ELSE {S \in SUBSET Present : Cardinality(S) = Limit /\ S \X (Present \ S) \subseteq recent}

(* The rows of S are written now, after which there are these rows. *)
Touch(S, rows) ==
  {p \in rows \X rows : p[1] \in S \/ (p[2] \notin S /\ p \in recent)}

Touches(a, doc) == doc \in Evidence(a) \cup a.chunk_ids

(* Faulty variant: the chunk prefix does not match the document's own chunks. *)
ChunksStay(a, doc) ==
  [a EXCEPT !.document_ids = Evidence(a) \ {doc}, !.chunk_ids = a.chunk_ids]

(* The attributes a removal writes back: the lists without the document.  The
   singular document_id is left as it was. *)
Without(a, doc) ==
  [a EXCEPT !.document_ids = Evidence(a) \ {doc}, !.chunk_ids = a.chunk_ids \ {doc}]

NoEvidence(a) == a.document_ids = {} /\ a.chunk_ids = {}

(* Faulty variant: the incoming attributes replace the existing lists. *)
MergeReplaces(r, doc) == [document_id |-> doc, document_ids |-> {doc}, chunk_ids |-> {doc}]

(* merge_graph_attrs: the lists accumulate, the singular id is overwritten. *)
merge_graph_attrs(r, doc) ==
  [document_id |-> doc,
   document_ids |-> {doc} \cup IF graph[r] = NoRow THEN {} ELSE Evidence(graph[r]),
   chunk_ids |-> {doc} \cup IF graph[r] = NoRow THEN {} ELSE graph[r].chunk_ids]

(* An extraction of the document is queued or running. *)
Outstanding(doc) ==
  \/ \E i \in DOMAIN jobs : jobs[i].doc = doc
  \/ task[Extractor].doc = doc

(* t has read the rows and is about to write back r for its document. *)
HoldsCopy(t, r) ==
  /\ task[t].at = "write"
  /\ r \in DOMAIN task[t].rows /\ Touches(task[t].rows[r], task[t].doc)

-----------------------------------------------------------------------------
KgInit ==
  /\ graph = [r \in Relations |-> NoRow]
  /\ recent = {}
  /\ stored = {}
  /\ jobs = <<>>
  /\ task = [t \in Tasks |-> KgIdle]
  /\ ops = 0
  /\ expected = [d \in Docs |-> {}]
  /\ raced = {}
  /\ late = {}
  /\ sole = [r \in Relations |-> {}]

Begin == ops < MaxOps /\ ops' = ops + 1

(* put_doc: the row is stored and an extraction queued, unless the queue
   refuses the job. *)
Put(d) ==
  /\ Begin
  /\ stored' = stored \cup {d}
  /\ \/ \E rels \in SUBSET Relations \ {{}} : jobs' = Append(jobs, [doc |-> d, rels |-> rels])
     \/ UNCHANGED jobs
  /\ UNCHANGED <<graph, recent, task, history>>

(* The worker takes the ingestion lock for the oldest job. *)
TakeJob ==
  /\ task[Extractor].at = "idle"
  /\ jobs # <<>>
  /\ task' = [task EXCEPT ![Extractor] =
                [KgIdle EXCEPT !.at = "read", !.doc = Head(jobs).doc, !.todo = Head(jobs).rels]]
  /\ jobs' = Tail(jobs)
  /\ UNCHANGED <<graph, recent, stored, ops, history>>

(* delete_document of a stored document. *)
Delete(t, d) ==
  /\ Begin
  /\ task[t].at = "idle"
  /\ d \in stored
  /\ task' = [task EXCEPT ![t] = [KgIdle EXCEPT !.at = "read", !.doc = d]]
  /\ UNCHANGED <<graph, recent, stored, jobs, history>>

(* graph_remove_document_namespace reads the relations, the connection is
   released, ... *)
ReadRelations(t) ==
  /\ task[t].at = "read"
  /\ \E S \in Newest :
       task' = [task EXCEPT ![t].at = "write", ![t].rows = [r \in S |-> graph[r]]]
  /\ late' = IF t # Extractor /\ ~AllFit THEN late \cup {task[t].doc} ELSE late
  /\ UNCHANGED <<graph, recent, stored, jobs, ops, expected, raced, sole>>

(* ... and one transaction writes back, from that copy, every relation that
   touches the document, or deletes it when nothing else supports it. *)
WriteRelations(t) ==
  LET doc == task[t].doc
      rows == task[t].rows
      touched == {r \in DOMAIN rows : Touches(rows[r], doc)}
      dropped == {r \in touched : NoEvidence(Without(rows[r], doc))}
      written == (touched \ dropped) \cap Present
  IN  /\ task[t].at = "write"
      /\ graph' = [r \in Relations |-> IF r \in dropped THEN NoRow
                                       ELSE IF r \in written THEN Without(rows[r], doc)
                                       ELSE graph[r]]
      /\ recent' = Touch(written, Present \ dropped)
      /\ task' = [task EXCEPT ![t].at = IF t = Extractor THEN "upsert" ELSE "rows",
                              ![t].rows = <<>>]
      /\ expected' = [expected EXCEPT ![doc] = {}]
      /\ sole' = [r \in Relations |-> IF r \in dropped THEN {} ELSE sole[r]]
      /\ UNCHANGED <<stored, jobs, ops, raced, late>>

(* graph_upsert_namespace of one extracted relation. *)
UpsertRelation(r) ==
  LET doc == task[Extractor].doc
  IN  /\ task[Extractor].at = "upsert"
      /\ r \in task[Extractor].todo
      /\ graph' = [graph EXCEPT ![r] = merge_graph_attrs(r, doc)]
      /\ recent' = Touch({r}, Present \cup {r})
      /\ task' = [task EXCEPT ![Extractor].todo = @ \ {r}]
      /\ expected' = [expected EXCEPT ![doc] = @ \cup {r}]
      /\ sole' = [sole EXCEPT ![r] = @ \cup {doc}]
      /\ raced' = IF \E t \in Tasks : HoldsCopy(t, r) THEN raced \cup {r} ELSE raced
      /\ late' = IF \E t \in Deleters : task[t].doc = doc /\ task[t].at \in {"write", "rows"}
                 THEN late \cup {doc} ELSE late
      /\ UNCHANGED <<stored, jobs, ops>>

(* The extraction is over; the ingestion lock is released. *)
ExtractionDone ==
  /\ task[Extractor].at = "upsert" /\ task[Extractor].todo = {}
  /\ task' = [task EXCEPT ![Extractor] = KgIdle]
  /\ UNCHANGED <<graph, recent, stored, jobs, ops, history>>

(* The document's row goes, and delete_document returns. *)
DeleteRow(t) ==
  LET doc == task[t].doc
  IN  /\ task[t].at = "rows"
      /\ stored' = stored \ {doc}
      /\ late' = IF Outstanding(doc) THEN late \cup {doc} ELSE late
      /\ task' = [task EXCEPT ![t] = KgIdle]
      /\ UNCHANGED <<graph, recent, jobs, ops, expected, raced, sole>>

(* clear_namespace: documents and relations in one transaction. *)
Clear ==
  /\ Begin
  /\ graph' = [r \in Relations |-> NoRow]
  /\ recent' = {}
  /\ stored' = {}
  /\ late' = late \cup {d \in Docs : Outstanding(d)}
  /\ expected' = [d \in Docs |-> {}]
  /\ sole' = [r \in Relations |-> {}]
  /\ UNCHANGED <<jobs, task, raced>>

(* An error ends the task's operation where it is. *)
Abort(t) ==
  /\ task[t].at # "idle"
  /\ task' = [task EXCEPT ![t] = KgIdle]
  /\ UNCHANGED <<graph, recent, stored, jobs, ops, history>>

KgNext ==
  \/ \E d \in Docs : Put(d) \/ \E t \in Deleters : Delete(t, d)
  \/ TakeJob \/ ExtractionDone \/ Clear
  \/ \E t \in Tasks : ReadRelations(t) \/ WriteRelations(t) \/ Abort(t)
  \/ \E t \in Deleters : DeleteRow(t)
  \/ \E r \in Relations : UpsertRelation(r)

KgSpec == KgInit /\ [][KgNext]_kgVars

-----------------------------------------------------------------------------
(* Relations carry attributes, and recent is an order of exactly the rows there are. *)
KgTypeOK ==
  /\ graph \in [Relations -> Attrs \cup {NoRow}]
  /\ stored \subseteq Docs
  /\ \A t \in Tasks : task[t].at \in {"idle", "read", "write", "upsert", "rows"}
  /\ recent \subseteq Present \X Present
  /\ \A r, s \in Present : <<r, s>> \in recent \/ <<s, r>> \in recent
  /\ \A r, s, u \in Present : <<r, s>> \in recent /\ <<s, u>> \in recent => <<r, u>> \in recent

(* What a document's extraction wrote stays evidence for its relations until
   the document is extracted again or deleted: the removal of another
   document takes only that one's evidence away - unless the relation was
   written between the removal's read and its write (graph.rs:20-100). *)
EvidenceKept ==
  \A d \in stored : \A r \in expected[d] \ raced :
    graph[r] # NoRow /\ d \in Evidence(graph[r])

(* The document is gone, and its deletion saw every relation it had. *)
Gone(d) == d \notin stored \cup late /\ ~Outstanding(d)

(* A relation that only one document ever supported goes with that document
   (graph.rs:58-71, documents.rs:784-785) - unless a stale copy was written over
   it, which names other documents. *)
SoleRelationGoes ==
  \A d \in Docs : Gone(d) => \A r \in Present \ raced : sole[r] # {d}

(* No relation names a deleted document as its source: "Delete a single
   document plus its vector chunks, graph relations, and markdown sidecar"
   (documents.rs:784-785). *)
NothingOfDeleted ==
  \A d \in Docs : Gone(d) => \A r \in Present : d \notin Evidence(graph[r])

\* A relation lives as long as some document gives evidence for it, no longer.
GraphSound == KgTypeOK /\ EvidenceKept /\ SoleRelationGoes
=============================================================================
