--------------------------- MODULE EmbeddingWrites --------------------------
(***************************************************************************)
(* The write side of embedding: the ladder that picks an embedder from the *)
(* settings, the re-embed chain that brings every chunk and summary into   *)
(* the active signature (reembed_batch, reembed_collect), the embedding of *)
(* a sealed summary (EmbedderBridge), the process-wide degradation flags   *)
(* and announcement latches these share, and the Ollama gate of a store    *)
(* that is opened (create_unified_memory_full).                            *)
(*                                                                         *)
(* The flags are atomics without a lock, so each store to one is a step:   *)
(* an operation that clears them interleaves with one that marks them.     *)
(***************************************************************************)
EXTENDS Naturals, FiniteSets, FiniteSetsExt

CONSTANTS
  ChunkRows,    \* chunks that may be stored
  SummaryRows,  \* summaries that may be sealed
  Embedders,       \* tasks that embed: queue workers, store openers
  BatchLimit,   \* REEMBED_BACKFILL_BATCH, 1000 in the code
  MaxTurns      \* bound on restarts, removals, daemon outages and returns, and openings together

ASSUME EmbeddingAssumption ==
  /\ BatchLimit \in Nat \ {0} /\ MaxTurns \in Nat
  /\ IsFiniteSet(ChunkRows) /\ IsFiniteSet(SummaryRows)

VARIABLES
  settings,   \* what the host configured
  daemon,     \* the local Ollama runtime answers
  embeddable,      \* chunks and summaries with a row
  vectors,    \* <<signature, row>> with an embedding
  skipped,    \* <<signature, row>> with a tombstone
  chain,      \* signature of the re-embed chain that is queued, "" without one
  doing,      \* what each task is doing; all and heard are history: the
              \* batch's rows not deleted since, and an announcement since it cleared
  recall,     \* SEMANTIC_RECALL_DEGRADED
  reason,     \* SEMANTIC_RECALL_CAUSE
  surfaced,   \* LOCAL_MODEL_USER_ERROR_SURFACED
  gate,       \* OLLAMA_HEALTH_REPORTED
  turns,      \* restarts, outages, returns, removals and openings so far
  unhealthy,  \* history: EmbeddingModelUnhealthy events since the start
  definite,   \* history: <<signature, row>> whose embedding failed for good
  unsaved,    \* history: <<signature, row>> whose tombstone could not be stored
  mixed       \* history: a clear and a mark ran into each other

flags == <<recall, reason, surfaced, gate>>
seen == <<unhealthy, definite, unsaved, mixed>>
ebVars == <<settings, daemon, embeddable, vectors, skipped, chain, doing, flags, turns, seen>>

Rungs == {"endpoint", "none", "local", "openai", "session"}
EmbedAt == {"idle", "clear", "clear_cause", "claim_free", "embed", "claim", "reason", "recall",
        "unconfigured", "degraded", "write", "sealed", "sealed_cause", "sealed_claim", "report"}
Off == [at |-> "idle", kind |-> "reembed", ids |-> {}, got |-> {}, all |-> {}, won |-> FALSE, heard |-> FALSE]

-----------------------------------------------------------------------------
(* resolve_embedder_choice: the first rung of the ladder that is configured. *)
resolve_embedder_choice(s) ==
  CASE "endpoint" \in s -> "ollama"
    [] "endpoint" \notin s /\ "none" \in s -> "opt_out"
    [] s \cap {"endpoint", "none"} = {} /\ "local" \in s -> "ollama"
    [] s \cap {"endpoint", "none", "local"} = {} /\ "openai" \in s -> "openai"
    [] s \cap {"endpoint", "none", "local", "openai"} = {} /\ "session" \in s -> "cloud"
    [] s = {} -> "no_provider"

choice == resolve_embedder_choice(settings)

(* active_embedding_signature: from what is configured, never from what
   answers; without a provider it is that of the default, the cloud. *)
signature(s) ==
  IF resolve_embedder_choice(s) = "no_provider" THEN "cloud" ELSE resolve_embedder_choice(s)

active == signature(settings)

Uncovered(R) == {r \in R \cap embeddable : <<active, r>> \notin vectors \cup skipped}

(* How many chunks a batch takes, and how many summaries it then has room for. *)
ChunkShare == Min({BatchLimit, Cardinality(Uncovered(ChunkRows))})
SummaryShare == Min({BatchLimit - ChunkShare, Cardinality(Uncovered(SummaryRows))})

(* Faulty variant: the summaries are left to a batch that never comes. *)
ChunksOnly == {<<C, {}>> : C \in kSubset(ChunkShare, Uncovered(ChunkRows))}

(* The rows of a batch: chunks first, then summaries, any of them. *)
Batches ==
  {<<C, S>> : C \in kSubset(ChunkShare, Uncovered(ChunkRows)), S \in kSubset(SummaryShare, Uncovered(SummaryRows))}

Task(t, at) == doing[t].at = at
Goes(t, at) == doing' = [doing EXCEPT ![t].at = at]
Ends(t) == doing' = [doing EXCEPT ![t] = Off]
Turn == turns < MaxTurns /\ turns' = turns + 1
Marking == {"claim", "reason", "recall", "unconfigured", "degraded"}
Clearing == {"clear_cause", "sealed_cause"}
OthersClear(t) == \E u \in Embedders \ {t} : doing[u].at \in Clearing
OthersMark(t) == \E u \in Embedders \ {t} : doing[u].at \in Marking

-----------------------------------------------------------------------------
EbInit ==
  /\ settings \in {{}, {"openai", "session"}, {"endpoint", "none"}, {"none", "local"}}
  /\ daemon \in BOOLEAN
  /\ embeddable = {} /\ vectors = {} /\ skipped = {}
  /\ chain = ""
  /\ doing = [t \in Embedders |-> Off]
  /\ recall = FALSE /\ reason = "" /\ surfaced = FALSE /\ gate = FALSE
  /\ turns = 0
  /\ unhealthy = 0
  /\ definite = {} /\ unsaved = {} /\ mixed = FALSE

(* A chunk is stored without an embedding. *)
StoreChunk(r) ==
  /\ r \in ChunkRows \ embeddable
  /\ embeddable' = embeddable \cup {r}
  /\ UNCHANGED <<settings, daemon, vectors, skipped, chain, doing, flags, turns, seen>>

(* A row and what is derived from it are deleted. *)
RemoveRow(r) ==
  /\ Turn
  /\ r \in embeddable
  /\ embeddable' = embeddable \ {r}
  /\ vectors' = {v \in vectors : v[2] # r} /\ skipped' = {v \in skipped : v[2] # r}
  /\ doing' = [t \in Embedders |-> [doing[t] EXCEPT !.all = @ \ {r}]]
  /\ UNCHANGED <<settings, daemon, chain, flags, seen>>

(* Ollama stops or comes back. *)
Daemon ==
  /\ Turn
  /\ daemon' = ~daemon
  /\ UNCHANGED <<settings, embeddable, vectors, skipped, chain, doing, flags, seen>>

(* The process starts again under other settings; the queue is on disk. *)
Restart ==
  /\ Turn
  /\ settings' \in {{}, {"session"}, {"local"}}
  /\ doing' = [t \in Embedders |-> Off]
  /\ recall' = FALSE /\ reason' = "" /\ surfaced' = FALSE /\ gate' = FALSE
  /\ unhealthy' = 0 /\ mixed' = FALSE
  /\ UNCHANGED <<daemon, embeddable, vectors, skipped, chain, definite, unsaved>>

(* ensure_reembed_backfill: a chain for the active signature, one at a time. *)
ensure_reembed_backfill ==
  /\ chain = ""
  /\ Uncovered(embeddable) # {}
  /\ chain' = active
  /\ UNCHANGED <<settings, daemon, embeddable, vectors, skipped, doing, flags, turns, seen>>

-----------------------------------------------------------------------------
(* reembed_batch *)

Reembedding == \E t \in Embedders : doing[t].at # "idle" /\ doing[t].kind = "reembed"

StaleSignature ==
  /\ chain # "" /\ chain # active /\ ~Reembedding
  /\ chain' = ""
  /\ UNCHANGED <<settings, daemon, embeddable, vectors, skipped, doing, flags, turns, seen>>

(* Nothing is left to embed: the chain ends. *)
Covered ==
  /\ chain = active /\ ~Reembedding
  /\ <<{}, {}>> \in Batches
  /\ chain' = ""
  /\ UNCHANGED <<settings, daemon, embeddable, vectors, skipped, doing, flags, turns, seen>>

(* The ids of a batch, then build_write_embedder. *)
BeginBatch(t) ==
  /\ Task(t, "idle") /\ chain = active /\ ~Reembedding
  /\ \E b \in Batches :
       /\ b # <<{}, {}>>
       /\ doing' = [doing EXCEPT ![t] =
                      [Off EXCEPT !.kind = "reembed", !.ids = b[1] \cup b[2], !.all = b[1] \cup b[2],
                                  !.at = IF choice = "no_provider" THEN "unconfigured" ELSE "clear"]]
  /\ UNCHANGED <<settings, daemon, embeddable, vectors, skipped, chain, flags, turns, seen>>

(* The embedder of a summary that is being sealed. *)
BeginSeal(t, r) ==
  /\ Task(t, "idle") /\ r \in SummaryRows \ embeddable
  /\ \A u \in Embedders : doing[u].kind = "seal" => r \notin doing[u].ids
  /\ doing' = [doing EXCEPT ![t] =
                 [Off EXCEPT !.kind = "seal", !.ids = {r},
                             !.at = IF choice = "no_provider" THEN "unconfigured" ELSE "clear"]]
  /\ UNCHANGED <<settings, daemon, embeddable, vectors, skipped, chain, flags, turns, seen>>

(* clear_semantic_recall_degraded, called with a provider by every
   build_write_embedder and after a seal embedded its summary: the flag, ... *)
ClearFlag(t) ==
  /\ doing[t].at \in {"clear", "sealed"}
  /\ recall' = FALSE
  /\ Goes(t, IF Task(t, "clear") THEN "clear_cause" ELSE "sealed_cause")
  /\ mixed' = (mixed \/ OthersMark(t))
  /\ UNCHANGED <<settings, daemon, embeddable, vectors, skipped, chain, reason, surfaced, gate, turns,
                 unhealthy, definite, unsaved>>

(* ... its cause, ... *)
ClearCause(t) ==
  /\ doing[t].at \in Clearing
  /\ reason' = ""
  /\ Goes(t, IF Task(t, "clear_cause") THEN "claim_free" ELSE "sealed_claim")
  /\ mixed' = (mixed \/ OthersMark(t))
  /\ UNCHANGED <<settings, daemon, embeddable, vectors, skipped, chain, recall, surfaced, gate, turns,
                 unhealthy, definite, unsaved>>

(* Faulty variant: the claim of the last outage is kept. *)
ClaimKept == UNCHANGED surfaced

(* The announcement claim is released. *)
ClaimReleased == surfaced' = FALSE

(* ... and the announcement claim. *)
ClearClaim(t) ==
  /\ doing[t].at \in {"claim_free", "sealed_claim"}
  /\ ClaimReleased
  /\ doing' = [doing EXCEPT ![t].heard = FALSE,
                            ![t].at = IF Task(t, "claim_free") THEN "embed" ELSE "write"]
  /\ UNCHANGED <<settings, daemon, embeddable, vectors, skipped, chain, recall, reason, gate, turns, seen>>

(* What the embedder may say of one text: Ollama does not answer while its
   daemon is down, the inert embedder always answers. *)
Outcomes ==
  IF choice = "opt_out" THEN {"vector", "unreadable"}
  ELSE IF choice = "ollama" /\ ~daemon THEN {"local_model_unavailable", "unreadable"}
  ELSE {"vector", "unreadable", "wrong_dim", "unrecoverable", "transient", "auth_missing"}

(* Faulty variant: every failure is one for good. *)
AllDefinitive == {"unreadable", "wrong_dim", "unrecoverable", "transient", "auth_missing"}

(* Outcomes after which the row is skipped under this signature. *)
Definitive == {"unreadable", "wrong_dim", "unrecoverable"}

(* Faulty variant: the row is passed over without a tombstone. *)
SkipsSilently(r) == UNCHANGED <<skipped, unsaved>>

(* try_mark_chunk_reembed_skipped and its twin for summaries: a tombstone that
   cannot be stored is logged. *)
try_mark_reembed_skipped(r) ==
  \/ skipped' = skipped \cup {<<active, r>>} /\ UNCHANGED unsaved
  \/ unsaved' = unsaved \cup {<<active, r>>} /\ UNCHANGED skipped

(* reembed_collect on one row; the batch ends at the first failure that is
   not definitive, and what was embedded is thrown away. *)
reembed_collect(t, r) ==
  /\ Task(t, "embed") /\ doing[t].kind = "reembed" /\ r \in doing[t].ids
  /\ \E out \in Outcomes :
       \/ /\ out = "vector"
          /\ doing' = [doing EXCEPT ![t].ids = @ \ {r}, ![t].got = @ \cup {r}]
          /\ UNCHANGED <<skipped, definite, unsaved>>
       \/ /\ out \in Definitive
          /\ doing' = [doing EXCEPT ![t].ids = @ \ {r}]
          /\ definite' = IF out \in {"unreadable", "wrong_dim", "unrecoverable"}
                         THEN definite \cup {<<active, r>>} ELSE definite
          /\ try_mark_reembed_skipped(r)
       \/ /\ out \in {"transient", "auth_missing"} \ Definitive
          /\ Ends(t)
          /\ UNCHANGED <<skipped, definite, unsaved>>
       \/ /\ out = "local_model_unavailable"
          /\ Goes(t, "claim")
          /\ UNCHANGED <<skipped, definite, unsaved>>
  /\ UNCHANGED <<settings, daemon, embeddable, vectors, chain, flags, turns, unhealthy, mixed>>

(* The batch's vectors are stored in one transaction under the signature read
   at its start, those of rows that are gone too. *)
WriteBatch(t) ==
  /\ Task(t, "embed") /\ doing[t].kind = "reembed" /\ doing[t].ids = {}
  /\ vectors' = vectors \cup {<<active, r>> : r \in doing[t].got}
  /\ Ends(t)
  /\ UNCHANGED <<settings, daemon, embeddable, skipped, chain, flags, turns, seen>>

(* EmbedderBridge: one text; every failure ends the seal. *)
SealEmbeds(t) ==
  /\ Task(t, "embed") /\ doing[t].kind = "seal"
  /\ \E out \in Outcomes \ {"unreadable"} :
       \/ out = "vector" /\ Goes(t, "sealed")
       \/ out = "local_model_unavailable" /\ Goes(t, "claim")
       \/ out \in {"wrong_dim", "unrecoverable", "transient", "auth_missing"} /\ Ends(t)
  /\ UNCHANGED <<settings, daemon, embeddable, vectors, skipped, chain, flags, turns, seen>>

(* The summary is stored with its vector, or without one when there is no
   provider. *)
StoreSummary(t) ==
  /\ Task(t, "write")
  /\ embeddable' = embeddable \cup doing[t].ids
  /\ vectors' = IF choice = "no_provider" THEN vectors
                ELSE vectors \cup {<<active, r>> : r \in doing[t].ids}
  /\ Ends(t)
  /\ UNCHANGED <<settings, daemon, skipped, chain, flags, turns, seen>>

-----------------------------------------------------------------------------
(* mark_local_model_unavailable_if_applicable: the announcement is claimed, *)
Claims(t) ==
  /\ Task(t, "claim")
  /\ surfaced' = TRUE
  /\ doing' = [doing EXCEPT ![t].at = "reason", ![t].won = ~surfaced]
  /\ UNCHANGED <<settings, daemon, embeddable, vectors, skipped, chain, recall, reason, gate, turns, seen>>

(* Faulty variant: the flag is published before its cause. *)
FlagFirst(t, why, next) ==
  /\ recall' = TRUE /\ Goes(t, next)
  /\ UNCHANGED reason

(* mark_semantic_recall_degraded: the cause first, ... *)
MarkCause(t, why, next) ==
  /\ reason' = why /\ Goes(t, next)
  /\ UNCHANGED recall

(* The two places that mark. *)
Marks(t) ==
  /\ \/ Task(t, "reason") /\ MarkCause(t, "local_model_unavailable", "recall")
     \/ Task(t, "unconfigured") /\ MarkCause(t, "embeddings_unconfigured", "degraded")
  /\ UNCHANGED <<settings, daemon, embeddable, vectors, skipped, chain, surfaced, gate, turns, seen>>

(* ... then the flag; who claimed the announcement publishes it, and the job
   fails.  Without a provider a chain ends and a seal goes on. *)
MarkFlag(t) ==
  LET next == IF Task(t, "degraded") /\ doing[t].kind = "seal"
              THEN [doing[t] EXCEPT !.at = "write"] ELSE Off
  IN  /\ doing[t].at \in {"recall", "degraded"}
      /\ recall' = TRUE
      /\ mixed' = (mixed \/ OthersClear(t))
      /\ doing' = [u \in Embedders |->
                     IF u = t THEN next
                     ELSE [doing[u] EXCEPT !.heard = @ \/ (doing[t].won /\ doing[u].at # "idle")]]
      /\ chain' = IF Task(t, "degraded") /\ doing[t].kind = "reembed" THEN "" ELSE chain
      /\ UNCHANGED <<settings, daemon, embeddable, vectors, skipped, reason, surfaced, gate, turns,
                     unhealthy, definite, unsaved>>

-----------------------------------------------------------------------------
(* create_unified_memory_full: a store configured for Ollama probes it; the
   clients are told each time it is down, ... *)
OpenProbes(t) ==
  /\ Turn
  /\ Task(t, "idle") /\ choice = "ollama" /\ ~daemon
  /\ doing' = [doing EXCEPT ![t] = [Off EXCEPT !.kind = "open", !.at = "report"]]
  /\ UNCHANGED <<settings, daemon, embeddable, vectors, skipped, chain, flags, seen>>

(* Faulty variant: the latch is not looked at. *)
ReportsAlways == TRUE

(* ... and the report is published by the one that sets the latch. *)
GateWon == ~gate

report_ollama_health_gate_once(t) ==
  /\ Task(t, "report")
  /\ gate' = TRUE
  /\ unhealthy' = IF GateWon THEN unhealthy + 1 ELSE unhealthy
  /\ Ends(t)
  /\ UNCHANGED <<settings, daemon, embeddable, vectors, skipped, chain, recall, reason, surfaced, turns,
                 definite, unsaved, mixed>>

TaskStep(t) ==
  \/ BeginBatch(t) \/ WriteBatch(t) \/ SealEmbeds(t) \/ StoreSummary(t)
  \/ ClearFlag(t) \/ ClearCause(t) \/ ClearClaim(t) \/ Claims(t) \/ Marks(t) \/ MarkFlag(t)
  \/ OpenProbes(t) \/ report_ollama_health_gate_once(t)
  \/ \E r \in ChunkRows \cup SummaryRows : reembed_collect(t, r) \/ BeginSeal(t, r)

EbNext ==
  \/ \E r \in ChunkRows : StoreChunk(r)
  \/ \E r \in ChunkRows \cup SummaryRows : RemoveRow(r)
  \/ Daemon \/ Restart
  \/ ensure_reembed_backfill \/ StaleSignature \/ Covered
  \/ \E t \in Embedders : TaskStep(t)

EbSpec == EbInit /\ [][EbNext]_ebVars

-----------------------------------------------------------------------------
(* Types, and that at most one opener of the process has published the Ollama
   report, however many race for it. *)
EbTypeOK ==
  /\ settings \subseteq Rungs /\ daemon \in BOOLEAN
  /\ embeddable \subseteq ChunkRows \cup SummaryRows
  /\ \A v \in vectors \cup skipped : v[2] \in ChunkRows \cup SummaryRows
  /\ \A t \in Embedders : doing[t].at \in EmbedAt
  /\ reason \in {"", "local_model_unavailable", "embeddings_unconfigured"}
  /\ unhealthy <= 1

(* The re-embed chain ends only when every row has its vector or a tombstone
   under the active signature, when the signature it was started for is no
   longer the active one, or when there is no provider; and a chain is never
   ended while a batch of it is out. *)
ChainEndsCovered ==
  [][chain # "" /\ chain' = "" /\ settings' = settings =>
       \/ chain # active
       \/ choice = "no_provider"
       \/ Uncovered(embeddable) = {} /\ ~Reembedding]_ebVars

(* Each batch that is written leaves none of its rows for the next one, so
   the chain that always asks for more ends; only a tombstone that could not
   be stored brings a row back. *)
BatchMakesProgress ==
  [][\A t \in Embedders :
       /\ doing[t].at = "embed" /\ doing[t].kind = "reembed" /\ doing[t].ids = {}
       /\ doing'[t].at = "idle" /\ turns' = turns
       => doing[t].all \cap Uncovered(embeddable)' \subseteq {r \in embeddable : <<active, r>> \in unsaved}]_ebVars

(* A row is skipped for good only under a signature whose embedder failed on
   it for good: an outage, a rate limit or a missing login never hides a row
   from the chains to come. *)
SkippedForGood == skipped \subseteq definite

(* Every operation that fails for want of the local runtime is announced after
   it built its embedder, by itself or by another that failed meanwhile: a
   client that connects during the outage hears of it with the next operation. *)
FailureAnnounced ==
  [][\A t \in Embedders :
       doing[t].at = "recall" /\ doing'[t].at = "idle" /\ turns' = turns =>
         doing[t].won \/ doing[t].heard \/ \E u \in Embedders : doing[u].won]_ebVars

(* Who sees the flag sees a cause with it, unless a clear ran into a mark. *)
DegradedNamesCause == recall => reason # "" \/ mixed

\* Only rows that can never be embedded are skipped, and the degraded flag has a
\* cause.
EmbeddingsSound == EbTypeOK /\ SkippedForGood /\ DegradedNamesCause

\* The re-embed chain works off what was pending and says so when it cannot.
ChainSound == ChainEndsCovered /\ BatchMakesProgress /\ FailureAnnounced
=============================================================================
