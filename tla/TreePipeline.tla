---------------------------- MODULE TreePipeline ----------------------------
(***************************************************************************)
(* The pipeline that turns the chunks of one source into its summary tree: *)
(* the queue delegates the host supplies (HostQueueDelegates: extract_chunk,*)
(* append_node, seal_level, seal_document, list_stale_buffers), the        *)
(* maintenance operations that work on the same tables (reset_derived_index,*)
(* purge_all, flush_pending, retry_failed, compact) and a crash between any *)
(* two of their transactions.                                              *)
(*                                                                         *)
(* Every delegate reads, then waits for a model or another transaction,    *)
(* then writes what it read: two workers and a maintenance call interleave *)
(* at those points.  The engine crate owns the job table and applies the   *)
(* follow-ups; it is modelled from how the delegates are called.  Levels   *)
(* of the tree above the first are left out.                               *)
(***************************************************************************)
EXTENDS Naturals, FiniteSets

CONSTANTS
  Leaves,     \* chunk ids of the source
  JobWorkers, \* job workers
  SealAt,     \* items at which should_seal lets a buffer be sealed
  Bounds      \* bounds a behaviour may have: the chunks that arrive, and the resets,
              \* purges, crashes and failed jobs together

ASSUME PipelineAssumption ==
  /\ SealAt \in Nat \ {0}
  /\ \A b \in Bounds : b[1] \subseteq Leaves /\ b[2] \in Nat

VARIABLES
  bound,      \* the bounds of this behaviour
  notion,     \* the source is one whose documents get a subtree each
  leaf,       \* lifecycle_status of each chunk's row, "none" without a row
  scores,     \* chunks with score and entity rows
  tree,       \* id of the source's tree row, 0 without one
  buffers,    \* <<tree, chunk>> waiting in a level-0 buffer
  summaries,  \* <<tree, chunk>> covered by a summary
  queue,      \* rows of mem_tree_jobs
  hand,       \* what each worker is doing
  resetting,  \* reset_derived_index is between its two transactions
  spent,      \* times each fault has happened
  torn,       \* history: a crash came between the two transactions of a reset
  inflight,   \* history: chunks some worker held when a reset or a purge ran
  overtaken   \* history: chunks scoring has dropped once, and chunks whose follow-up was
              \* refused because a job of its key was running

tpVars == <<bound, notion, leaf, scores, tree, buffers, summaries, queue, hand, resetting, spent, torn, inflight, overtaken>>

Statuses == {"none", "pending_extraction", "admitted", "dropped", "buffered"}
Faults == {"reset", "purge", "crash", "failure"}
Trees == Nat
Kinds == {"extract", "append", "seal", "seal_document", "flush"}
HandAt == {"idle", "begin", "score", "push", "summarise", "document", "settle"}

(* A job; wave counts the times the table was emptied before it was added, so
   that a worker never settles the row of a later job of the same key. *)
Job(kind, of, forced) ==
  [kind |-> kind, of |-> of, forced |-> forced, wave |-> 0, status |-> "ready"]
Free == [at |-> "idle", job |-> Job("flush", 0, FALSE), tree |-> 0, items |-> {}, next |-> {}]

-----------------------------------------------------------------------------
(* Helpers *)

wave == spent["reset"] + spent["purge"]

SameKey(j, k) == j.kind = k.kind /\ j.of = k.of

(* Faulty variant: the key is not looked at. *)
EnqueueAgain(q, new) == q \cup {[j EXCEPT !.wave = wave] : j \in new}

(* enqueue and enqueue_tx: a job whose key is already ready or running is not
   added again. *)
Enqueue(q, new) ==
  q \cup {[j EXCEPT !.wave = wave] : j \in {n \in new : ~\E k \in q : SameKey(n, k) /\ k.status # "failed"}}

Running(q) == {j \in q : j.status = "running"}

(* The chunks whose job is refused because one of its key is running: it may
   already have read what the new one was to act on. *)
RefusedByRunning(q, new) ==
  {j.of : j \in {k \in new : k.of \in Leaves /\ \E r \in Running(q) : SameKey(k, r)}}

Placed(S, t) == {c \in Leaves : <<t, c>> \in S}

(* The engine's size gate. *)
should_seal(items) == Cardinality(items) >= SealAt

Row(j) == [j EXCEPT !.status = "running"]

(* Worker w goes on at point at. *)
Moves(w, next) == hand' = [hand EXCEPT ![w].at = next]

Settles(w, jobs_next) == hand' = [hand EXCEPT ![w].at = "settle", ![w].next = jobs_next]

Begins(w, kind) == hand[w].at = "begin" /\ hand[w].job.kind = kind

Spend(f) ==
  /\ spent["reset"] + spent["purge"] + spent["crash"] + spent["failure"] < bound[2]
  /\ spent' = [spent EXCEPT ![f] = @ + 1]

(* The chunks a worker has read something about. *)
HeldBy(w) ==
  IF hand[w].at = "idle" THEN {}
  ELSE hand[w].items \cup (IF hand[w].job.kind \in {"seal", "flush"} THEN {} ELSE {hand[w].job.of})

-----------------------------------------------------------------------------
TpInit ==
  /\ bound \in Bounds
  /\ notion \in BOOLEAN
  /\ leaf = [c \in Leaves |-> "none"]
  /\ scores = {}
  /\ tree = 0
  /\ buffers = {}
  /\ summaries = {}
  /\ queue = {}
  /\ hand = [w \in JobWorkers |-> Free]
  /\ resetting = FALSE
  /\ spent = [f \in Faults |-> 0]
  /\ torn = FALSE
  /\ inflight = {}
  /\ overtaken = {}

(* The tree ingest: the chunk's row and its extract job in one transaction. *)
IngestLeaf(c) ==
  /\ c \in bound[1]
  /\ leaf[c] = "none"
  /\ leaf' = [leaf EXCEPT ![c] = "pending_extraction"]
  /\ queue' = Enqueue(queue, {Job("extract", c, FALSE)})
  /\ UNCHANGED <<bound, notion, scores, tree, buffers, summaries, hand, resetting, spent, torn, inflight, overtaken>>

(* claim_next *)
Claim(w) ==
  /\ hand[w].at = "idle"
  /\ \E j \in queue :
       /\ j.status = "ready"
       /\ queue' = (queue \ {j}) \cup {Row(j)}
       /\ hand' = [hand EXCEPT ![w] = [Free EXCEPT !.at = "begin", !.job = j]]
  /\ UNCHANGED <<bound, notion, leaf, scores, tree, buffers, summaries, resetting, spent, torn, inflight, overtaken>>

(* The job's row is marked done, and what it led to is enqueued. *)
SettleJob(w) ==
  /\ hand[w].at = "settle"
  /\ queue' = Enqueue(queue \ {Row(hand[w].job)}, hand[w].next)
  /\ hand' = [hand EXCEPT ![w] = Free]
  /\ overtaken' = overtaken \cup RefusedByRunning(queue \ {Row(hand[w].job)}, hand[w].next)
  /\ UNCHANGED <<bound, notion, leaf, scores, tree, buffers, summaries, resetting, spent, torn, inflight>>

(* extract_chunk has committed its verdict and goes on to the tags of the file. *)
Tagging(w) ==
  hand[w].at = "settle" /\ hand[w].job.kind = "extract" /\ hand[w].next # {}

(* A delegate returns an error (an unreadable body, a model that does not answer),
   extract_chunk also after its commit, when the path or the entities of a chunk it
   keeps cannot be read: the row is parked as failed, and nothing follows from it. *)
JobFails(w) ==
  /\ hand[w].at \in {"begin", "score", "push", "summarise", "document"} \/ Tagging(w)
  /\ Spend("failure")
  /\ queue' = IF Row(hand[w].job) \in queue
              THEN (queue \ {Row(hand[w].job)}) \cup {[hand[w].job EXCEPT !.status = "failed"]}
              ELSE queue
  /\ hand' = [hand EXCEPT ![w] = Free]
  /\ UNCHANGED <<bound, notion, leaf, scores, tree, buffers, summaries, resetting, torn, inflight, overtaken>>

-----------------------------------------------------------------------------
(* extract_chunk: the row and the body are read, ... *)
ExtractReads(w) ==
  /\ Begins(w, "extract")
  /\ IF leaf[hand[w].job.of] = "none" THEN Settles(w, {}) ELSE Moves(w, "score")
  /\ UNCHANGED <<bound, notion, leaf, scores, tree, buffers, summaries, queue, resetting, spent, torn, inflight, overtaken>>

(* The verdict, for a row that is still there. *)
ExtractStatus(c, kept) ==
  IF leaf[c] = "none" THEN leaf ELSE [leaf EXCEPT ![c] = IF kept THEN "admitted" ELSE "dropped"]

(* uses_document_subtree: what follows for a chunk that is kept. *)
FollowUp(c) ==
  IF notion THEN Job("seal_document", c, FALSE) ELSE Job("append", c, FALSE)

(* ... the chunk is scored, and one transaction stores the score with its
   verdict: the UPDATE finds no row when the chunk went away meanwhile. *)
ExtractWrites(w) ==
  /\ hand[w].at = "score"
  /\ LET c == hand[w].job.of IN
     \E kept \in BOOLEAN :
       /\ scores' = scores \cup {c}
       /\ leaf' = ExtractStatus(c, kept)
       /\ Settles(w, IF kept THEN {FollowUp(c)} ELSE {})
       /\ overtaken' = IF kept THEN overtaken ELSE overtaken \cup {c}
  /\ UNCHANGED <<bound, notion, tree, buffers, summaries, queue, resetting, spent, torn, inflight>>

(* Faulty variant: a new tree row for every append. *)
AlwaysCreates == IF tree # 0 /\ tree < 3 THEN tree + 1 ELSE wave + 1

(* get_or_create_source_tree: a new row gets an id no earlier row had. *)
get_or_create_source_tree == IF tree # 0 THEN tree ELSE wave + 1

(* append_node: the chunk is read, the tree is found or created, ... *)
AppendReads(w) ==
  /\ Begins(w, "append")
  /\ IF leaf[hand[w].job.of] = "none" THEN Settles(w, {}) /\ UNCHANGED tree
     ELSE /\ tree' = get_or_create_source_tree
          /\ hand' = [hand EXCEPT ![w].at = "push", ![w].tree = get_or_create_source_tree]
  /\ UNCHANGED <<bound, notion, leaf, scores, buffers, summaries, queue, resetting, spent, torn, inflight, overtaken>>

(* ... and a transaction of its own adds the chunk to the level-0 buffer of
   the tree found before, unless it is there, and marks it buffered. *)
append_node(w) ==
  /\ hand[w].at = "push"
  /\ LET c == hand[w].job.of
         t == hand[w].tree
     IN  /\ buffers' = buffers \cup {<<t, c>>}
         /\ leaf' = IF leaf[c] = "none" THEN leaf ELSE [leaf EXCEPT ![c] = "buffered"]
         /\ Settles(w, IF should_seal(Placed(buffers', t)) THEN {Job("seal", t, FALSE)} ELSE {})
  /\ UNCHANGED <<bound, notion, scores, tree, summaries, queue, resetting, spent, torn, inflight, overtaken>>

(* seal_level: nothing to do for a missing tree, an empty buffer, or a gate
   that is not met when the job is not forced; else the buffer is read and
   the summary is written, which takes a model, ... *)
SealReads(w) ==
  /\ Begins(w, "seal")
  /\ LET t == hand[w].job.of
         items == Placed(buffers, t)
     IN  IF t # tree \/ items = {} \/ (~hand[w].job.forced /\ ~should_seal(items))
         THEN Settles(w, {})
         ELSE hand' = [hand EXCEPT ![w].at = "summarise", ![w].tree = t, ![w].items = items]
  /\ UNCHANGED <<bound, notion, leaf, scores, tree, buffers, summaries, queue, resetting, spent, torn, inflight, overtaken>>

(* What is left of the buffers when the items read for a summary leave them. *)
AfterSeal(t, items) == buffers \ {<<t, c>> : c \in items}

(* ... and the engine stores it and takes the items read out of the buffer. *)
SealWrites(w) ==
  /\ hand[w].at = "summarise"
  /\ summaries' = summaries \cup {<<hand[w].tree, c>> : c \in hand[w].items}
  /\ buffers' = AfterSeal(hand[w].tree, hand[w].items)
  /\ Settles(w, {})
  /\ UNCHANGED <<bound, notion, leaf, scores, tree, queue, resetting, spent, torn, inflight, overtaken>>

(* seal_document: the tree is found or created, and the document's chunks are
   summarised as a subtree of their own without passing through the buffer. *)
DocumentReads(w) ==
  /\ Begins(w, "seal_document")
  /\ tree' = get_or_create_source_tree
  /\ hand' = [hand EXCEPT ![w].at = "document", ![w].tree = get_or_create_source_tree,
                          ![w].items = {hand[w].job.of}]
  /\ UNCHANGED <<bound, notion, leaf, scores, buffers, summaries, queue, resetting, spent, torn, inflight, overtaken>>

seal_document(w) ==
  /\ hand[w].at = "document"
  /\ summaries' = summaries \cup {<<hand[w].tree, c>> : c \in hand[w].items}
  /\ Settles(w, {})
  /\ UNCHANGED <<bound, notion, leaf, scores, tree, buffers, queue, resetting, spent, torn, inflight, overtaken>>

(* flush_stale: list_stale_buffers names every buffer with an item, and each
   gets a forced seal. *)
list_stale_buffers(w) ==
  /\ Begins(w, "flush")
  /\ Settles(w, {Job("seal", b[1], TRUE) : b \in buffers})
  /\ UNCHANGED <<bound, notion, leaf, scores, tree, buffers, summaries, queue, resetting, spent, torn, inflight, overtaken>>

-----------------------------------------------------------------------------
(* Maintenance *)

(* flush_pending and consolidate: one flush job per block of hours. *)
flush_pending ==
  /\ buffers # {}
  /\ queue' = Enqueue(queue, {Job("flush", 0, FALSE)})
  /\ UNCHANGED <<bound, notion, leaf, scores, tree, buffers, summaries, hand, resetting, spent, torn, inflight, overtaken>>

(* retry_failed: every parked job is ready again, one a key. *)
retry_failed ==
  LET parked == {j \in queue : j.status = "failed"}
      active == queue \ parked
  IN  /\ parked # {}
      /\ \E S \in SUBSET parked :
           /\ \A j, k \in S : SameKey(j, k) => j = k
           /\ \A j \in parked : \E k \in S \cup active : SameKey(j, k)
           /\ \A j \in S, k \in active : ~SameKey(j, k)
           /\ queue' = active \cup {[j EXCEPT !.status = "ready"] : j \in S}
      /\ UNCHANGED <<bound, notion, leaf, scores, tree, buffers, summaries, hand, resetting, spent, torn, inflight, overtaken>>

(* compact and the start of the workers: recover_stale_locks frees the rows
   whose worker is gone. *)
recover_stale_locks ==
  LET lost == {j \in queue : /\ j.status = "running"
                             /\ ~\E w \in JobWorkers : Row(hand[w].job) = j /\ hand[w].at # "idle"}
  IN  /\ lost # {}
      /\ queue' = (queue \ lost) \cup {[j EXCEPT !.status = "ready"] : j \in lost}
      /\ UNCHANGED <<bound, notion, leaf, scores, tree, buffers, summaries, hand, resetting, spent, torn, inflight, overtaken>>

(* reset_derived_index, first transaction: summaries, buffers, jobs, entities
   and trees are deleted, ... *)
ResetClears ==
  /\ ~resetting
  /\ Spend("reset")
  /\ summaries' = {} /\ buffers' = {} /\ queue' = {} /\ tree' = 0
  /\ resetting' = TRUE
  /\ inflight' = inflight \cup UNION {HeldBy(w) : w \in JobWorkers}
  /\ UNCHANGED <<bound, notion, leaf, scores, hand, torn, overtaken>>

(* Faulty variant: only chunks that were already through are scheduled again. *)
RequeuesBuffered == {c \in Leaves : leaf[c] = "buffered"}

(* The chunks the reset schedules: every row. *)
Requeued == {c \in Leaves : leaf[c] # "none"}

(* ... second transaction: every chunk is pending again and has a job. *)
ResetRequeues ==
  /\ resetting
  /\ leaf' = [c \in Leaves |-> IF c \in Requeued THEN "pending_extraction" ELSE leaf[c]]
  /\ queue' = Enqueue(queue, {Job("extract", c, FALSE) : c \in Requeued})
  /\ resetting' = FALSE
  /\ UNCHANGED <<bound, notion, scores, tree, buffers, summaries, hand, spent, torn, inflight, overtaken>>

(* purge_all *)
purge_all ==
  /\ ~resetting
  /\ Spend("purge")
  /\ leaf' = [c \in Leaves |-> "none"]
  /\ scores' = {} /\ summaries' = {} /\ buffers' = {} /\ queue' = {} /\ tree' = 0
  /\ inflight' = inflight \cup UNION {HeldBy(w) : w \in JobWorkers}
  /\ UNCHANGED <<bound, notion, hand, resetting, torn, overtaken>>

(* The process dies: the tables stay, the workers and the caller do not. *)
TpCrash ==
  /\ Spend("crash")
  /\ hand' = [w \in JobWorkers |-> Free]
  /\ resetting' = FALSE
  /\ torn' = (torn \/ resetting)
  /\ UNCHANGED <<bound, notion, leaf, scores, tree, buffers, summaries, queue, inflight, overtaken>>

Delegates(w) ==
  \/ ExtractReads(w) \/ ExtractWrites(w)
  \/ AppendReads(w) \/ append_node(w)
  \/ SealReads(w) \/ SealWrites(w)
  \/ DocumentReads(w) \/ seal_document(w)
  \/ list_stale_buffers(w)

Maintenance ==
  \/ flush_pending \/ retry_failed \/ recover_stale_locks
  \/ ResetClears \/ ResetRequeues \/ purge_all

TpNext ==
  \/ \E c \in Leaves : IngestLeaf(c)
  \/ \E w \in JobWorkers : Claim(w) \/ SettleJob(w) \/ JobFails(w) \/ Delegates(w)
  \/ Maintenance
  \/ TpCrash

TpSpec == TpInit /\ [][TpNext]_tpVars

-----------------------------------------------------------------------------
(* Types: one job a key at a time, and no worker on a job of a later wave. *)
TpTypeOK ==
  /\ leaf \in [Leaves -> Statuses]
  /\ scores \subseteq Leaves
  /\ tree \in Trees
  /\ buffers \subseteq Trees \X Leaves /\ summaries \subseteq Trees \X Leaves
  /\ \A j \in queue : j.kind \in Kinds /\ j.status \in {"ready", "running", "failed"}
  /\ \A j, k \in queue : SameKey(j, k) /\ j.status # "failed" /\ k.status # "failed" => j = k
  /\ \A w \in JobWorkers : hand[w].at \in HandAt
  /\ resetting \in BOOLEAN /\ torn \in BOOLEAN
  /\ inflight \subseteq Leaves /\ overtaken \subseteq Leaves

Quiet == queue = {} /\ ~resetting /\ \A w \in JobWorkers : hand[w].at = "idle"

(* reset_derived_index promises that what it deletes is scheduled again: once
   the queue has run dry, a chunk that has a row and that scoring keeps stands
   in a buffer or a summary of the source's present tree, whatever the workers
   held while the tables were emptied and wherever they died.  Two exceptions:
   a crash between the two transactions of the reset, after which nothing will
   ever place the chunks, and a chunk whose append was refused because one of
   its key was still running, on what it had read before. *)
NothingStranded ==
  Quiet /\ ~torn =>
    \A c \in Leaves :
      leaf[c] = "none" \/ c \in overtaken \/ <<tree, c>> \in buffers \cup summaries

(* Derived rows without what they derive from are the work of a worker that
   held the chunk when the tables were emptied: a score of a chunk without a
   row, or a buffer or a summary of a tree without one. *)
OrphansFromInflight ==
  /\ \A c \in scores : leaf[c] # "none" \/ c \in inflight
  /\ \A p \in buffers \cup summaries : p[1] = tree \/ p[2] \in inflight

\* Work left over when the queue runs dry, and trees left over after a reset, are
\* each explained by what was in flight.
PipelineSound == TpTypeOK /\ NothingStranded /\ OrphansFromInflight
=============================================================================
