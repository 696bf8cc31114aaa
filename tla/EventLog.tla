------------------------------ MODULE EventLog ------------------------------
(***************************************************************************)
(* The event log of the namespace store (store/namespace_store/events.rs): *)
(* the table event_log, the external-content FTS index over it, and the    *)
(* per-model vectors.                                                      *)
(*                                                                          *)
(* event_insert is INSERT OR REPLACE.  SQLite resolves the conflict by      *)
(* deleting the old row, which cascades to event_embeddings (the bundled   *)
(* build enforces foreign keys) but does not fire the delete trigger, since *)
(* recursive_triggers is never switched on: the terms of the old row stay  *)
(* in event_fts under its rowid.                                           *)
(***************************************************************************)
EXTENDS Naturals, FiniteSets, FiniteSetsExt

CONSTANTS
  EventIds,    \* event_id values
  Namespaces,  \* namespaces events are filed under
  Terms,       \* words an event or a query is made of
  ModelSigs,   \* embedding model signatures
  Absent,      \* no row
  MaxRowid     \* bound: rowids ever given out

VARIABLES
  event_log,        \* event_id -> row, or Absent
  event_fts,        \* the FTS index: what each rowid was indexed under
  event_embeddings  \* rows (event_id, model_signature); stored = the rowid embedded

evVars == <<event_log, event_fts, event_embeddings>>

EventRecord == [rowid : 1 .. MaxRowid, namespace : Namespaces, content : SUBSET Terms]

ASSUME EventAssumption == MaxRowid \in Nat /\ Absent \notin EventRecord

Rows == {event_log[e] : e \in EventIds} \ {Absent}

\* Mutants: a rowid that starts at zero; a rowid that may be given out again.
RowidFromZero == Max({r.rowid : r \in Rows} \cup {0})
RowidByCount  == 1 + Cardinality(Rows)

\* The rowid of an insert without one: one more than the greatest in the table.
\* It is drawn before the conflicting row is deleted.
NextRowid == 1 + Max({r.rowid : r \in Rows} \cup {0})

\* Faulty variant: foreign keys are not enforced.
NoCascade(e) == event_embeddings

\* What ON DELETE CASCADE leaves of event_embeddings when the row of e is replaced.
CascadeReplace(e) == {v \in event_embeddings : v.event # e}

\* event_insert, with the trigger event_ai and the cascade of the REPLACE.
EventInsert(e, ns, content) ==
  /\ NextRowid <= MaxRowid
  /\ event_log' = [event_log EXCEPT ![e] =
       [rowid |-> NextRowid, namespace |-> ns, content |-> content]]
  /\ event_fts' = event_fts \cup {[rowid |-> NextRowid, content |-> content]}
  /\ event_embeddings' = CascadeReplace(e)

\* event_embedding_upsert: one row per event and model; a missing event
\* violates the foreign key.
EventEmbeddingUpsert(e, m) ==
  /\ event_log[e] # Absent
  /\ event_embeddings' =
       {v \in event_embeddings : ~(v.event = e /\ v.model = m)}
         \cup {[event |-> e, model |-> m, stored |-> event_log[e].rowid]}
  /\ UNCHANGED <<event_log, event_fts>>

\* event_search_fts: an empty query, or one with no token left after
\* sanitize_fts_query, answers nothing; else the index is matched and joined with
\* the table on the rowid.
EventSearchFts(ns, query) ==
  IF query = {} THEN {}
  ELSE {e \in EventIds :
          /\ event_log[e] # Absent
          /\ event_log[e].namespace = ns
          /\ \E f \in event_fts :
               f.rowid = event_log[e].rowid /\ query \subseteq f.content}

EvInit ==
  /\ event_log = [e \in EventIds |-> Absent]
  /\ event_fts = {}
  /\ event_embeddings = {}

EvNext ==
  \E e \in EventIds :
    \/ \E ns \in Namespaces, c \in SUBSET Terms : EventInsert(e, ns, c)
    \/ \E m \in ModelSigs : EventEmbeddingUpsert(e, m)

EvSpec == EvInit /\ [][EvNext]_evVars

(***************************************************************************)
(* Properties.                                                             *)
(***************************************************************************)

\* Every table holds rows of its schema (EVENTS_INIT_SQL).
EvTypeOK ==
  /\ event_log \in [EventIds -> EventRecord \cup {Absent}]
  /\ event_fts \subseteq [rowid : 1 .. MaxRowid, content : SUBSET Terms]
  /\ event_embeddings \subseteq
       [event : EventIds, model : ModelSigs, stored : 1 .. MaxRowid]

\* A search answers exactly the events whose present text has the words asked
\* for, although a re-inserted event leaves its old text in the index: the rowid
\* of a replaced row is never given out again, so the join drops what is stale.
SearchFaithful ==
  \A ns \in Namespaces, q \in (SUBSET Terms) \ {{}} :
    EventSearchFts(ns, q) =
      {e \in EventIds : event_log[e] # Absent /\ event_log[e].namespace = ns
                        /\ q \subseteq event_log[e].content}

\* A stored vector belongs to the row the event has now: the vectors of a
\* replaced event go with its old row.
EmbeddingsFollowRow ==
  \A v \in event_embeddings :
    event_log[v.event] # Absent /\ v.stored = event_log[v.event].rowid

\* What is searched and what is embedded is what the rows say now.
EventsSound == EvTypeOK /\ SearchFaithful /\ EmbeddingsFollowRow
=============================================================================
