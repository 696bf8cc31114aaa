---------------------------- MODULE BusContract ----------------------------
(***************************************************************************)
(* What the provider contract and the two ends of the bus agree on before  *)
(* a call.  The contract (tinymemory-api/src/provider): the families, the  *)
(* methods a driver must write and the ones that have a body already, and  *)
(* what the drivers of the repository offer.  The bus: the member names    *)
(* (bus/names.rs), the capability families and the bit each one has        *)
(* (bus/capabilities.rs), and the contract's version (bus/version.rs).     *)
(***************************************************************************)
EXTENDS Integers, Sequences, FiniteSets, FiniteSetsExt, Functions

(* A family.  A method with a body of the trait is refused (Unsupported) or *)
(* quiet (Ok with nothing done) until a driver overrides it; writes change  *)
(* the store; scoped ones take the caller's source scope, tainted ones its  *)
(* taint.                                                                   *)
Trait(required, refused, quiet, writing, scoped, tainted) ==
    [required |-> required, refused |-> refused, quiet |-> quiet,
     writes |-> writing, scoped |-> scoped, tainted |-> tainted]
Plain(required, writing) == Trait(required, {}, {}, writing, {}, {})

MemoryCore == Trait({"store", "get", "forget", "list", "namespaces"}, {}, {},
                    {"store", "forget"}, {}, {"store"})
MemoryRecall == Trait({"recall"}, {}, {}, {}, {"recall"}, {})
MemoryPortability == Trait({"export_page", "import_records"}, {}, {},
                           {"import_records"}, {}, {"import_records"})
MemoryIngest == Trait({"ingest_document", "ingest_chat"}, {"ingest_email"}, {},
                      {"ingest_document", "ingest_chat", "ingest_email"}, {},
                      {"ingest_document", "ingest_chat", "ingest_email"})
MemoryDocuments ==
    Trait({"put_document", "get_document", "list_documents", "list_namespaces",
           "delete_document", "clear_namespace", "query_documents"},
          {"recall_documents"}, {}, {"put_document", "delete_document", "clear_namespace"}, {},
          {"put_document"})
TreeBrowse == {"summary_forest", "recent_leaves"}
TreeFolding == {"flush_source_tree", "summarise", "root_summaries_with_caps"}
TreeRuntime == {"runtime_buffer_write", "runtime_read_node", "runtime_read_children",
                "runtime_tree_status", "runtime_summarize", "runtime_rebuild", "flavour_profile"}
MemoryTree ==
    Trait({"append", "query_source", "drill_down", "seal", "cascade"},
          TreeBrowse \cup TreeFolding \cup TreeRuntime, {},
          {"append", "seal", "cascade", "flush_source_tree", "runtime_buffer_write",
           "runtime_summarize", "runtime_rebuild"},
          {"query_source"} \cup TreeBrowse, {})
EntityBrowse == {"top_entities", "chunk_entities", "entity_chunk_ids"}
MemoryEntities == Trait({"entities", "entity_edges", "touch_entities"},
                        EntityBrowse, {},
                        {"touch_entities"}, {}, {})
MemoryGraph == Trait({"kv_get", "kv_put", "kv_delete", "kv_list", "relations", "put_relation"},
                     {}, {"graph_view"}, {"kv_put", "kv_delete", "put_relation"}, {}, {})
MemoryDiff == Plain({"capture_snapshot", "snapshots", "diff"}, {"capture_snapshot"})
MemoryGoals == Plain({"goals", "set_goals"}, {"set_goals"})
MemoryToolMemory == Plain({"tool_rules", "put_tool_rule", "delete_tool_rule"},
                          {"put_tool_rule", "delete_tool_rule"})
MemorySourceSink == Trait({"accept_source_items", "forget_source"}, {"forget_matching"}, {},
                          {"accept_source_items", "forget_source", "forget_matching"}, {},
                          {"accept_source_items"})
QueueReports == {"store_stats", "retry_failed", "queue_stats", "latest_queue_failure",
                 "backfill_in_progress", "flush_pending"}
DerivedIndex == {"backfill_connector_trees", "reset_derived_index"}
MaintenanceRefused == {"purge_all", "diagnose", "degraded_state"}
MemoryMaintenance ==
    Trait({"reembed", "compact", "consolidate", "doctor"}, MaintenanceRefused,
          QueueReports \cup DerivedIndex,
          {"reembed", "compact", "consolidate", "purge_all", "retry_failed", "flush_pending"}
          \cup DerivedIndex, {}, {})
MemoryPeople == Plain({"list_people", "get_person", "resolve_handle", "add_handle_alias",
                       "score_person", "record_interaction", "seed_from_address_book"},
                      {"resolve_handle", "add_handle_alias", "record_interaction",
                       "seed_from_address_book"})
ChunkBrowse == {"count_chunks", "list_chunk_details", "source_totals"}
ChunkDetails == {"chunk_score", "source_ingest_status"}
MemoryChunks ==
    Trait({"list_chunks", "get_chunk", "chunk_detail", "storage_kinds", "chunk_embeddings"},
          ChunkBrowse \cup ChunkDetails, {}, {}, {"list_chunks"} \cup ChunkBrowse, {})
MemoryRetrieval ==
    Trait({"fast_retrieve", "cover_window", "retrieve_source", "retrieve_children",
           "retrieve_leaves", "recall_namespace_scored", "recall_namespace_recent",
           "search_entities"}, {}, {}, {},
          {"fast_retrieve", "cover_window", "retrieve_source", "retrieve_children",
           "retrieve_leaves"}, {})
MemoryProfile ==
    Plain({"list_active_facets", "list_all_facets", "get_facet", "facets_by_type",
           "upsert_facet", "upsert_provider_facet", "set_facet_user_state", "delete_facet",
           "delete_facet_by_id", "drop_facets_below", "workflow_identity_matches"},
          {"upsert_facet", "upsert_provider_facet", "set_facet_user_state", "delete_facet",
           "delete_facet_by_id", "drop_facets_below"})
MemoryEpisodic ==
    Trait({"insert_turn", "session_turns", "open_segment", "create_segment", "append_turn",
           "close_segment", "set_segment_summary", "insert_event", "upsert_segment_embedding"},
          {}, {"segments_pending_summary"},
          {"insert_turn", "create_segment", "append_turn", "close_segment",
           "set_segment_summary", "insert_event", "upsert_segment_embedding"}, {}, {})
SyncControl == {"run_source_sync", "bootstrap_connection", "is_toolkit_syncable"}
MemorySourceSync ==
    Trait({"run_connection_sync", "source_sync_state", "sync_audit_log",
           "estimate_sync_cost_usd", "sync_statuses", "raw_archive_coverage",
           "rebuild_from_raw_archive"}, SyncControl, {},
          {"run_connection_sync", "rebuild_from_raw_archive", "run_source_sync",
           "bootstrap_connection"}, {}, {})
MemoryCodingSessions == Plain({"coding_session_status", "ingest_coding_sessions"},
                              {"ingest_coding_sessions"})
MemoryScoring == Plain({"extract_entities", "embed_text", "embedder_slug"}, {})
MemoryDocumentIngest == Trait({"ingest_document"}, {}, {}, {"ingest_document"}, {}, {"ingest_document"})
MemoryConversationIngest ==
    Trait({"ingest_conversation"}, {}, {}, {"ingest_conversation"}, {}, {"ingest_conversation"})
MemoryLearningIngest == Plain({"ingest_learning"}, {"ingest_learning"})
MemoryEventIngest == Plain({"ingest_event"}, {"ingest_event"})
MemoryAnswer == Plain({"answer"}, {})

MANDATORY == {"core", "recall", "portability"}

Contract ==
    [core |-> MemoryCore, recall |-> MemoryRecall, portability |-> MemoryPortability,
     ingest |-> MemoryIngest, documents |-> MemoryDocuments, tree |-> MemoryTree,
     entities |-> MemoryEntities, graph |-> MemoryGraph, diff |-> MemoryDiff,
     goals |-> MemoryGoals, tool_memory |-> MemoryToolMemory, sources |-> MemorySourceSink,
     maintenance |-> MemoryMaintenance, people |-> MemoryPeople, chunks |-> MemoryChunks,
     retrieval |-> MemoryRetrieval, profile |-> MemoryProfile, episodic |-> MemoryEpisodic,
     source_sync |-> MemorySourceSync, coding_sessions |-> MemoryCodingSessions,
     scoring |-> MemoryScoring, document_ingest |-> MemoryDocumentIngest,
     conversation_ingest |-> MemoryConversationIngest, learning_ingest |-> MemoryLearningIngest,
     event_ingest |-> MemoryEventIngest, answer |-> MemoryAnswer]

ALL == DOMAIN Contract
Bodies(t) == t.refused \cup t.quiet
Methods(t) == t.required \cup Bodies(t)

----------------------------------------------------------------------------
(* Drivers: what capabilities() names, which accessors answer, and which    *)
(* bodies of the traits are left as they are.                               *)
Driver(advertised, accessors, left) ==
    [advertised |-> MANDATORY \cup advertised, accessors |-> accessors, left |-> left]

TinycortexProvider == Driver(ALL, ALL \ MANDATORY, {"graph_view"})
TinycortexDocumentProvider == Driver({"document_ingest"}, {"document_ingest"}, {})
CortexProvider ==
    LET families == {"document_ingest", "conversation_ingest", "learning_ingest",
                     "event_ingest", "answer"}
    IN Driver(families, families, {})
Mem0Provider == Driver({"conversation_ingest"}, {"conversation_ingest"}, {})

(* Wraps another driver: graph of its own, and only the five ingest and answer *)
(* accessors are passed on, while every capability is.                         *)
GraphMemoryProvider(base) ==
    Driver(base.advertised \cup {"graph"},
           {"graph"} \cup (base.accessors \cap CortexProvider.accessors), base.left \cup {"graph_view"})

(* The null driver implements the optional traits too, every method refusing, *)
(* and offers no accessor to any of them.                                     *)
NullMemoryProvider == Driver({}, {}, UNION {Bodies(Contract[f]) : f \in ALL})
MemoryTraitProvider == Driver({}, {}, {})

(* The recording driver writes these bodies anew and leaves the others.      *)
RecordingTree == TreeRuntime \cup {"summarise", "root_summaries_with_caps"}
RecordingChunks == ChunkDetails
RecordingMaintenance == {"diagnose", "degraded_state"}
RecordingDocuments == {"recall_documents"}
RecordingEpisodic == {"segments_pending_summary"}
RecordingProvider ==
    Driver(ALL, ALL \ MANDATORY,
           UNION {Bodies(Contract[f]) : f \in ALL}
           \ UNION {RecordingTree, RecordingChunks, RecordingMaintenance, RecordingDocuments,
                    RecordingEpisodic})

Drivers == [tinycortex |-> TinycortexProvider, tinycortex_documents |-> TinycortexDocumentProvider,
            cortex |-> CortexProvider, mem0 |-> Mem0Provider,
            mem0_graph |-> GraphMemoryProvider(Mem0Provider),
            cognee_graph |-> GraphMemoryProvider(MemoryTraitProvider),
            null |-> NullMemoryProvider, trait |-> MemoryTraitProvider,
            recording |-> RecordingProvider]

(* What the recording driver refuses on purpose. *)
RecordedNotFound == {"drill_down", "capture_snapshot", "diff"}

(* provides and accessor agree for a family; the mandatory ones need none. *)
Provides(driver, family) == family \in MANDATORY \cup Drivers[driver].accessors
Audited(driver) == {f \in ALL : Provides(driver, f)} = Drivers[driver].advertised

---------------------------------------------------------------------------
(* One constant per member name, in the file's groups. *)
StoreNames == {
      "driver_id", "capabilities", "health", "shutdown", "open_store", "store", "get", "forget",
      "list", "namespaces", "recall", "recall_namespace_scored", "export_page",
      "import_records", "ingest_document", "ingest_chat", "ingest_email", "ingest_learning",
      "ingest_event", "answer", "put_document", "get_document", "list_documents",
      "list_namespaces", "delete_document", "clear_namespace", "query_documents",
      "recall_documents"}
TreeNames == {
      "append", "query_source", "drill_down", "seal", "cascade", "summary_forest",
      "recent_leaves", "summarise", "root_summaries", "runtime_buffer_write",
      "runtime_read_node", "runtime_read_children", "runtime_tree_status", "runtime_summarize",
      "runtime_rebuild", "flavour_profile", "entities", "entity_edges", "touch_entities",
      "search_entities", "top_entities", "chunk_entities", "entity_chunk_ids", "relations",
      "put_relation", "kv_get", "kv_put", "kv_delete", "kv_list", "capture_snapshot",
      "snapshots", "diff", "accept_source_items", "forget_source", "forget_matching"}
RecordNames == {
      "goals", "set_goals", "tool_rules", "put_tool_rule", "delete_tool_rule", "reembed",
      "compact", "consolidate", "doctor", "retry_failed", "store_stats", "queue_stats",
      "latest_queue_failure", "backfill_in_progress", "recall_namespace_recent",
      "flush_pending", "backfill_connector_trees", "reset_derived_index", "purge_all",
      "list_people", "get_person", "resolve_handle", "add_handle_alias", "score_person",
      "record_interaction", "seed_from_address_book", "list_chunks", "get_chunk",
      "chunk_detail", "storage_kinds", "chunk_embeddings", "count_chunks", "list_chunk_details",
      "source_totals", "chunk_score", "source_ingest_status", "fast_retrieve", "cover_window",
      "retrieve_source", "retrieve_children", "retrieve_leaves"}
SessionNames == {
      "list_active_facets", "list_all_facets", "get_facet", "facets_by_type", "upsert_facet",
      "upsert_provider_facet", "set_facet_user_state", "delete_facet", "delete_facet_by_id",
      "drop_facets_below", "workflow_identity_matches", "insert_turn", "session_turns",
      "open_segment", "create_segment", "append_turn", "close_segment", "set_segment_summary",
      "segments_pending_summary", "upsert_segment_embedding", "insert_event",
      "flush_source_tree", "diagnose", "override_scheduler_gate", "degraded_state",
      "run_connection_sync", "run_source_sync", "bootstrap_connection", "is_toolkit_syncable",
      "source_sync_state", "sync_audit_log", "estimate_sync_cost_usd", "sync_statuses",
      "raw_archive_coverage", "rebuild_from_raw_archive", "coding_session_status",
      "ingest_coding_sessions", "extract_entities", "embed_text", "embedder_slug"}
MemberNames == StoreNames \cup TreeNames \cup RecordNames \cup SessionNames

(* The members in the order the module declares them. *)
METHODS == <<
      "driver_id", "capabilities", "health", "shutdown", "open_store", "store", "get", "forget",
      "list", "namespaces", "recall", "export_page", "import_records", "ingest_document",
      "ingest_chat", "ingest_email", "put_document", "get_document", "list_documents",
      "list_namespaces", "delete_document", "clear_namespace", "query_documents",
      "recall_documents", "append", "query_source", "drill_down", "seal", "cascade", "entities",
      "entity_edges", "touch_entities", "kv_get", "kv_put", "kv_delete", "kv_list", "relations",
      "put_relation", "capture_snapshot", "snapshots", "diff", "goals", "set_goals",
      "tool_rules", "put_tool_rule", "delete_tool_rule", "accept_source_items", "forget_source",
      "reembed", "compact", "consolidate", "doctor", "retry_failed", "store_stats",
      "queue_stats", "latest_queue_failure", "backfill_in_progress", "flush_pending",
      "reset_derived_index", "recall_namespace_recent", "list_people", "get_person",
      "resolve_handle", "add_handle_alias", "score_person", "record_interaction",
      "seed_from_address_book", "list_chunks", "get_chunk", "chunk_detail", "storage_kinds",
      "chunk_embeddings", "fast_retrieve", "cover_window", "list_active_facets",
      "list_all_facets", "get_facet", "facets_by_type", "insert_turn", "session_turns",
      "open_segment", "create_segment", "append_turn", "close_segment", "set_segment_summary",
      "upsert_segment_embedding", "insert_event", "upsert_facet", "upsert_provider_facet",
      "set_facet_user_state", "delete_facet", "delete_facet_by_id", "drop_facets_below",
      "workflow_identity_matches", "retrieve_source", "retrieve_children", "retrieve_leaves",
      "recall_namespace_scored", "search_entities", "count_chunks", "top_entities",
      "chunk_entities", "entity_chunk_ids", "summary_forest", "recent_leaves",
      "list_chunk_details", "source_totals", "forget_matching", "purge_all",
      "flush_source_tree", "diagnose", "run_connection_sync", "run_source_sync",
      "bootstrap_connection", "is_toolkit_syncable", "source_sync_state", "sync_audit_log",
      "estimate_sync_cost_usd", "sync_statuses", "raw_archive_coverage",
      "rebuild_from_raw_archive", "coding_session_status", "ingest_coding_sessions",
      "extract_entities", "embed_text", "embedder_slug", "summarise", "root_summaries",
      "degraded_state", "chunk_score", "source_ingest_status", "runtime_buffer_write",
      "runtime_read_node", "runtime_read_children", "runtime_tree_status", "runtime_summarize",
      "runtime_rebuild", "flavour_profile", "ingest_learning", "ingest_event", "answer",
      "override_scheduler_gate", "backfill_connector_trees", "segments_pending_summary">>

(* The members the service answers itself, without a family of the driver. *)
OwnMembers == {"driver_id", "capabilities", "health", "shutdown", "open_store", "override_scheduler_gate"}

---------------------------------------------------------------------------
(* Declaration order is bit order: families are appended, never inserted. *)
Declared == <<"core", "recall", "ingest", "documents", "tree", "entities", "graph", "diff", "goals",
              "tool_memory", "sources", "maintenance", "portability", "people", "chunks", "retrieval",
              "profile", "episodic", "source_sync", "coding_sessions", "scoring", "document_ingest",
              "conversation_ingest", "learning_ingest", "event_ingest", "answer">>

(* Faulty variant: two families share a bit. *)
SharesBit(family) == IF family = "answer" THEN 24 ELSE (CHOOSE i \in DOMAIN Declared : Declared[i] = family) - 1

index(family) == (CHOOSE i \in DOMAIN Declared : Declared[i] = family) - 1

bit(family) == 2^index(family)
contains(bits, family) == (bits \div bit(family)) % 2 = 1
insert(bits, family) == IF contains(bits, family) THEN bits ELSE bits + bit(family)
remove(bits, family) == IF contains(bits, family) THEN bits - bit(family) ELSE bits
from_iter(families) == FoldSet(LAMBDA f, bits : insert(bits, f), 0, families)
iter(bits) == {f \in ALL : contains(bits, f)}

(* On the wire a set is the list of its names; a reader drops the names it does not know. *)
serialize(bits) == iter(bits)
deserialize(names) == from_iter({n \in names : n \in ALL})

missing_mandatory(bits) == {f \in MANDATORY : ~contains(bits, f)}
validate(bits) == missing_mandatory(bits) = {}

CONTRACT_VERSION == <<4, 1>>
is_compatible(remote) == remote[1] = CONTRACT_VERSION[1]

---------------------------------------------------------------------------
(* Both lists of members hold every name once, and no family's bit stands for
   another: a set of families survives the bitset and the wire, whatever an
   end with more families adds to it, and losing a family loses no other. *)
NamesAgree == Range(METHODS) = MemberNames /\ Cardinality(MemberNames) = Len(METHODS)

FamilySets == {Drivers[d].advertised \cup MANDATORY : d \in DOMAIN Drivers} \cup {{f} : f \in ALL}

FamiliesSurvive ==
    /\ Range(Declared) = ALL
    /\ \A f, g \in ALL : bit(f) = bit(g) => f = g
    /\ \A set \in FamilySets :
         \E bits \in {from_iter(set)} :
           /\ iter(bits) = set
           /\ deserialize(serialize(bits) \cup {"future"}) = bits
           /\ iter(remove(bits, "answer")) = set \ {"answer"}
           /\ validate(bits) <=> MANDATORY \subseteq set
=============================================================================
