--------------------------- MODULE ServiceRoutes ---------------------------
(***************************************************************************)
(* One request to a memory object of the module service: the handler finds *)
(* the family, calls the driver, measures the answer, and the answer or    *)
(* the error crosses the bus to the caller.  The routes are those of the   *)
(* interface block (service/mod.rs:345-2283), grouped as the file has them.*)
(***************************************************************************)
EXTENDS BusContract

VARIABLES
    served,    \* the driver behind the object
    route,     \* the route asked for
    ask,       \* the caller's scope and taint
    stage,     \* "rest", "asked", "called", "measured" or "answered"
    done,      \* what the driver carried out, in part or whole: the calls, as it saw them
    driverAnswer,     \* what the driver's own method answered, or Unasked
    result,    \* what the handler holds: <<"ok">> or <<"error", class>>
    reply      \* what the caller makes of the answer

rtVars == <<served, route, ask, stage, done, driverAnswer, result, reply>>

(* A route: a bus method, the accessor it needs and the method it calls;    *)
(* fits when the answer is measured before it is sent.                      *)
Direct(family, methods, fits) ==
    {[bus |-> m, family |-> family, method |-> m, fits |-> m \in fits] : m \in methods}
Renamed(bus, family, method, fits) ==
    {[bus |-> bus, family |-> family, method |-> method, fits |-> fits]}

MandatoryRoutes ==
    Direct("core", {"store", "get", "forget", "list", "namespaces"}, {"list"})
    \cup Direct("recall", {"recall"}, {"recall"})
    \cup Direct("portability", {"export_page", "import_records"}, {})
IngestRoutes ==
    Direct("document_ingest", {"ingest_document"}, {})
    \cup Renamed("ingest_chat", "conversation_ingest", "ingest_conversation", FALSE)
    \cup Direct("ingest", {"ingest_email"}, {})
DocumentRoutes ==
    Direct("documents", {"put_document", "get_document", "list_documents", "list_namespaces",
                         "delete_document", "clear_namespace", "query_documents",
                         "recall_documents"}, {"query_documents", "recall_documents"})
TreeRoutes == Direct("tree", {"append", "query_source", "drill_down", "seal", "cascade"}, {"query_source"})
EntityRoutes == Direct("entities", {"entities", "entity_edges", "touch_entities"}, {"entities"})

(* Faulty variant: the answer to a write is measured too. *)
MeasuresPut ==
    Direct("graph", {"kv_get", "kv_put", "kv_delete", "kv_list", "relations", "put_relation"},
           {"kv_put", "kv_list", "relations"})

GraphRoutes ==
    Direct("graph", {"kv_get", "kv_put", "kv_delete", "kv_list", "relations", "put_relation"},
           {"kv_list", "relations"})
RecordRoutes ==
    Direct("diff", {"capture_snapshot", "snapshots", "diff"}, {})
    \cup Direct("goals", {"goals", "set_goals"}, {})
    \cup Direct("tool_memory", {"tool_rules", "put_tool_rule", "delete_tool_rule"}, {})
    \cup Direct("sources", {"accept_source_items", "forget_source"}, {})
MaintenanceRoutes ==
    Direct("maintenance", {"reembed", "compact", "consolidate", "doctor", "retry_failed",
                           "store_stats", "queue_stats", "latest_queue_failure",
                           "backfill_in_progress", "flush_pending", "reset_derived_index"}, {})
PeopleRoutes ==
    Direct("people", {"list_people", "get_person", "resolve_handle", "add_handle_alias",
                      "score_person", "record_interaction", "seed_from_address_book"},
           {"list_people"})
ChunkRoutes ==
    Direct("chunks", {"list_chunks", "get_chunk", "chunk_detail", "storage_kinds",
                      "chunk_embeddings"},
           {"list_chunks", "get_chunk", "chunk_detail", "chunk_embeddings"})
EpisodicRoutes ==
    Direct("episodic", {"insert_turn", "session_turns", "open_segment", "create_segment",
                        "append_turn", "close_segment", "set_segment_summary",
                        "upsert_segment_embedding", "insert_event"}, {"session_turns"})
ProfileReads ==
    Direct("profile", {"list_active_facets", "list_all_facets", "get_facet", "facets_by_type"},
           {"list_active_facets", "list_all_facets", "facets_by_type"})
ProfileWrites ==
    Direct("profile", {"upsert_facet", "upsert_provider_facet", "set_facet_user_state",
                       "delete_facet", "delete_facet_by_id", "drop_facets_below",
                       "workflow_identity_matches"}, {})
RetrievalRoutes ==
    LET m == {"retrieve_source", "retrieve_children", "retrieve_leaves",
              "recall_namespace_scored", "search_entities"}
    IN Direct("retrieval", m, m)
FastRoutes ==
    LET m == {"recall_namespace_recent", "fast_retrieve", "cover_window"} IN Direct("retrieval", m, m)
BrowseRoutes ==
    Direct("chunks", {"count_chunks", "list_chunk_details", "source_totals"},
           {"list_chunk_details", "source_totals"})
    \cup Direct("entities", {"top_entities", "chunk_entities", "entity_chunk_ids"},
                {"top_entities", "chunk_entities", "entity_chunk_ids"})
    \cup Direct("tree", {"summary_forest", "recent_leaves"}, {"summary_forest", "recent_leaves"})
AdminRoutes ==
    Direct("sources", {"forget_matching"}, {}) \cup Direct("maintenance", {"purge_all", "diagnose"}, {})
    \cup Direct("tree", {"flush_source_tree"}, {})
SyncRoutes ==
    Direct("source_sync", {"run_connection_sync", "run_source_sync", "bootstrap_connection",
                           "is_toolkit_syncable", "source_sync_state", "sync_audit_log",
                           "estimate_sync_cost_usd", "sync_statuses", "raw_archive_coverage",
                           "rebuild_from_raw_archive"}, {"sync_audit_log"})
SessionRoutes ==
    Direct("coding_sessions", {"coding_session_status", "ingest_coding_sessions"}, {})
    \cup Direct("scoring", {"extract_entities", "embed_text", "embedder_slug"}, {})
SummaryRoutes ==
    Direct("tree", {"summarise"}, {})
    \cup Renamed("root_summaries", "tree", "root_summaries_with_caps", TRUE)
    \cup Direct("maintenance", {"degraded_state"}, {})
    \cup Direct("chunks", {"chunk_score", "source_ingest_status"}, {"source_ingest_status"})
RuntimeRoutes ==
    Direct("tree", {"runtime_buffer_write", "runtime_read_node", "runtime_read_children",
                    "runtime_tree_status", "runtime_summarize", "runtime_rebuild",
                    "flavour_profile"},
           {"runtime_read_node", "runtime_read_children", "runtime_summarize"})
OperationRoutes ==
    Direct("learning_ingest", {"ingest_learning"}, {}) \cup Direct("event_ingest", {"ingest_event"}, {})
    \cup Direct("answer", {"answer"}, {}) \cup Direct("maintenance", {"backfill_connector_trees"}, {})
    \cup Direct("episodic", {"segments_pending_summary"}, {})

Routes == UNION {MandatoryRoutes, IngestRoutes, DocumentRoutes, TreeRoutes, EntityRoutes, GraphRoutes,
                 RecordRoutes, MaintenanceRoutes, PeopleRoutes, ChunkRoutes, EpisodicRoutes,
                 ProfileReads, ProfileWrites, RetrievalRoutes, FastRoutes, BrowseRoutes, AdminRoutes,
                 SyncRoutes, SessionRoutes, SummaryRoutes, RuntimeRoutes, OperationRoutes}

----------------------------------------------------------------------------
(* Errors, by class. *)
Classes == {"NotFound", "Invalid", "BudgetExceeded", "PathEscape", "Io", "Serde", "Unsupported",
            "Unauthorized", "Unreachable", "Timeout", "Unavailable", "Backend", "Other"}

(* A failure of the bus itself, which has no name on the wire. *)
Protocol == <<"error", "Protocol">>

wire_name(class) == class

(* Faulty variant: a refusal is read as any other failure. *)
ReadsRefusalAsOther(name) == IF name \in {"Io", "Serde", "Unsupported"} THEN "Other" ELSE name

from_wire(name) == IF name \in {"Io", "Serde"} THEN "Other" ELSE name

Ok == <<"ok">>
Unasked == <<"unasked">>
Err(class) == <<"error", class>>

RtInit ==
    /\ served \in DOMAIN Drivers /\ route \in Routes
    /\ ask \in [scope : {"none", "one source"}, taint : {"internal", "external"}]
    /\ stage = "asked" /\ done = {} /\ driverAnswer = Unasked /\ result = Ok /\ reply = Ok

Body(m) == m \in Drivers[served].left
Family == Contract[route.family]

(* The call as the driver sees it: scope and taint where the method takes them. *)
AsSeen == [method |-> route.method,
         scope |-> IF route.method \in Family.scoped THEN ask.scope ELSE "none",
         taint |-> IF route.method \in Family.tainted THEN ask.taint ELSE "internal"]

(* require_family: an accessor that answers nothing is Unsupported, but for *)
(* the one route that takes it for "no match".                              *)
require_family ==
    /\ stage = "asked" /\ ~Provides(served, route.family)
    /\ result' = IF route.bus = "workflow_identity_matches" THEN Ok ELSE Err("Unsupported")
    /\ stage' = "measured"
    /\ UNCHANGED <<served, route, ask, done, driverAnswer, reply>>

(* A body of the trait answers. *)
DefaultBody ==
    /\ stage = "asked" /\ Provides(served, route.family) /\ Body(route.method)
    /\ result' = IF route.method \in Family.refused THEN Err("Unsupported") ELSE Ok
    /\ stage' = "called"
    /\ UNCHANGED <<served, route, ask, done, driverAnswer, reply>>

(* The driver's own method runs; the recording driver fails in three, the   *)
(* null driver never, the others in any way: a budget may run out in the    *)
(* middle (records.rs:187, sync.rs:84), a backend may want paying (402).    *)
Outcomes ==
    CASE served = "recording" -> {IF route.method \in RecordedNotFound THEN Err("NotFound") ELSE Ok}
      [] served = "null" -> {Ok}
      [] OTHER -> {Ok} \cup {Err(c) : c \in Classes}

(* An error says nothing of how far the driver had come. *)
DriverCall ==
    /\ stage = "asked" /\ Provides(served, route.family) /\ ~Body(route.method)
    /\ \E r \in Outcomes :
         /\ result' = r /\ driverAnswer' = r
         /\ done' \in IF r = Ok THEN {{AsSeen}} ELSE {{}, {AsSeen}}
    /\ stage' = "called"
    /\ UNCHANGED <<served, route, ask, reply>>

(* Only an answer is measured; one over the ceiling is refused by name, one  *)
(* that cannot be written out fails on the bus.                              *)
ensure_response_fits ==
    /\ stage = "called"
    /\ result' \in IF route.fits /\ result = Ok THEN {Ok, Err("BudgetExceeded"), Protocol} ELSE {result}
    /\ stage' = "measured"
    /\ UNCHANGED <<served, route, ask, done, driverAnswer, reply>>

into_bus_error ==
    /\ stage = "measured"
    /\ reply' = IF result \in {Ok, Protocol} THEN result ELSE Err(from_wire(wire_name(result[2])))
    /\ stage' = "answered"
    /\ UNCHANGED <<served, route, ask, done, driverAnswer, result>>

RtNext == require_family \/ DefaultBody \/ DriverCall \/ ensure_response_fits \/ into_bus_error

----------------------------------------------------------------------------
Answers == {Ok, Protocol} \cup {Err(c) : c \in Classes}

RtTypeOK ==
    /\ stage \in {"rest", "asked", "called", "measured", "answered"} /\ Cardinality(done) <= 1
    /\ driverAnswer \in Answers \cup {Unasked} /\ result \in Answers /\ reply \in Answers

Answered == stage = "answered"
IsWrite == route.method \in Family.writes

(* What the service refuses on its own account was not carried out: a caller  *)
(* may ask somewhere else, or ask for less, without writing twice.  An error  *)
(* of the driver's own says nothing of the kind.  One route writes and then   *)
(* measures (service/mod.rs:2166): a runtime summary too large to send has    *)
(* been folded in all the same.                                               *)
RefusedDidNothing ==
    Answered /\ IsWrite /\ reply # Ok /\ driverAnswer \in {Unasked, Ok} =>
        done = {} \/ route.bus = "runtime_summarize"

(* An acknowledged write was carried out by the driver, with the caller's     *)
(* taint and scope, unless the driver left one of the quiet bodies of         *)
(* MemoryMaintenance in place, which report nothing done.                     *)
AckedWasDone ==
    Answered /\ reply = Ok /\ IsWrite =>
        \/ \E c \in done : c.method = route.method
        \/ Body(route.method) /\ route.family = "maintenance"
ScopeReachesDriver ==
    \A c \in done : /\ c.method \in Family.scoped => c.scope = ask.scope
                    /\ IsWrite /\ c.method \in Family.tainted => c.taint = ask.taint

(* The caller can tell a missing family from a failing one: a family the      *)
(* driver advertises is never refused but for a method it left unwritten or   *)
(* refuses itself; and what the driver answered arrives as itself, but for    *)
(* the two classes that cannot cross and for an answer that was measured.     *)
RefusalIsTruthful ==
    Answered /\ reply = Err("Unsupported") =>
        \/ route.family \notin Drivers[served].advertised \/ Body(route.method)
        \/ driverAnswer = reply
ClassArrives ==
    Answered /\ driverAnswer \notin {Unasked, Err("Io"), Err("Serde")} =>
        reply = driverAnswer \/ (driverAnswer = Ok /\ route.fits /\ reply \in {Err("BudgetExceeded"), Protocol})

(* What is advertised is what is served (assert_capability_audit), and every  *)
(* method of the contract can be reached over the bus but for the three the   *)
(* interface leaves to others; the bus serves the members it names and no     *)
(* others.                                                                    *)
MembersServed == NamesAgree /\ {r.bus : r \in Routes} \cup OwnMembers = MemberNames
Unrouted == {<<"ingest", "ingest_document">>, <<"ingest", "ingest_chat">>, <<"graph", "graph_view">>}
EveryMethodRouted ==
    /\ Audited(served)
    /\ \A f \in ALL : \A m \in Methods(Contract[f]) :
         (\E r \in Routes : r.family = f /\ r.method = m) <=> <<f, m>> \notin Unrouted
    /\ MembersServed

RoutesSound ==
    /\ RtTypeOK /\ RefusedDidNothing /\ AckedWasDone /\ ScopeReachesDriver
    /\ RefusalIsTruthful /\ ClassArrives
    /\ stage = "asked" => EveryMethodRouted
=============================================================================
