-------------------------- MODULE ReferenceDrivers --------------------------
(***************************************************************************)
(* The drivers the repository ships as references: the in-memory one and   *)
(* the null one, with the mandatory families only, and the recording one   *)
(* (reference/full.rs), with every family.  A store is the record of their *)
(* maps; an operation is an operator on it.  Rows, documents and records   *)
(* are sets with one member per key.                                       *)
(***************************************************************************)
EXTENDS Integers, FiniteSets

CONSTANTS
    SpaceOrder,   \* the namespaces in the order of row ids, a sequence
    KeyOrder,     \* the keys in that order
    MaxPage       \* the most rows a page of an export holds (MAX_PAGE)

ASSUME ReferenceAssumption == MaxPage \in Nat \ {0}

Kinds == {"memory", "null", "full"}

(* The families behind an accessor; the mandatory three are part of the trait. *)
Accessors(driver) == IF driver = "full" THEN {"documents", "graph", "retrieval"} ELSE {}
Advertised(driver) == Accessors(driver) \cup {"core", "recall", "portability"}

NewStore == [rows |-> {}, docs |-> {}, kv |-> {}]

Entry(ns, key, content, category, session, taint) ==
    [ns |-> ns, key |-> key, content |-> content, category |-> category,
     session |-> session, taint |-> taint]

(* An empty filter matches everything. *)
Fits(want, have) == want = "" \/ want = have
UnderKey(set, ns, key) == {r \in set : r.ns = ns /\ r.key = key}

(* Faulty variant: a second write of a key is a second row. *)
UpsertAppends(set, r) == set \cup {r}

Upsert(set, r) == (set \ UnderKey(set, r.ns, r.key)) \cup {r}

(* Queries match by substring; one word is enough to tell rows apart. *)
Needles == {"needle1", "needle2", "needle3", "shared needle", "scoped needle"}

----------------------------------------------------------------------------
(* Core and recall. *)

store(st, r) == [st EXCEPT !.rows = Upsert(@, r)]

get_entry(st, ns, key) == UnderKey(st.rows, ns, key)

forget(st, ns, key) == [st EXCEPT !.rows = @ \ UnderKey(@, ns, key)]

list(st, ns, category, session) ==
    {r \in st.rows : Fits(ns, r.ns) /\ Fits(category, r.category) /\ Fits(session, r.session)}

namespaces(st) ==
    {[ns |-> n, count |-> Cardinality(list(st, n, "", ""))] : n \in {r.ns : r \in st.rows}}

(* A scope that allows no source leaves nothing; the limit cuts the sorted   *)
(* hits, and which rows survive is not told apart here.                      *)
recall(st, ns, limit, scope) ==
    LET hits == {r \in list(st, ns, "", "") : r.content \in Needles}
    IN IF scope = "nothing" THEN {}
       ELSE IF Cardinality(hits) <= limit THEN hits
       ELSE CHOOSE h \in SUBSET hits : Cardinality(h) = limit

----------------------------------------------------------------------------
(* Portability.  The cursor is the offset into the rows in the order of     *)
(* their ids; one that is no number is Invalid.                             *)

PlaceOf(order, x) == CHOOSE i \in DOMAIN order : order[i] = x
Before(a, b) ==
    \/ PlaceOf(SpaceOrder, a.ns) < PlaceOf(SpaceOrder, b.ns)
    \/ a.ns = b.ns /\ PlaceOf(KeyOrder, a.key) < PlaceOf(KeyOrder, b.key)

(* Faulty variant: the next page starts one row late. *)
NextPastOne(st, offset, limit) ==
    LET page == {r \in st.rows : LET p == Cardinality({x \in st.rows : Before(x, r)})
                                 IN offset <= p /\ p < offset + limit}
        consumed == offset + Cardinality(page) + 1
    IN [records |-> page, next |-> IF consumed < Cardinality(st.rows) THEN consumed ELSE 0]

export_page(st, offset, limit) ==
    LET take == IF limit > MaxPage THEN MaxPage ELSE limit
        place(r) == Cardinality({x \in st.rows : Before(x, r)})
        page == {r \in st.rows : offset <= place(r) /\ place(r) < offset + take}
        consumed == offset + Cardinality(page)
    IN [records |-> page,
        next |-> IF consumed < Cardinality(st.rows) THEN consumed ELSE 0]

(* A record without namespace or key is counted as failed; the rest are stored *)
(* with the taint they carry.                                                  *)
decodes(r) == r.ns # "" /\ r.key # ""

import_records(st, records) ==
    LET sound == {r \in records : decodes(r)}
    IN [st EXCEPT !.rows = {q \in @ : \A r \in sound : r.ns # q.ns \/ r.key # q.key} \cup sound]
import_outcome(records) ==
    [imported |-> Cardinality({r \in records : decodes(r)}),
     failed |-> Cardinality({r \in records : ~decodes(r)})]

----------------------------------------------------------------------------
(* The optional families of the recording driver that the suite reaches.    *)

(* A caller that names no id gets the id "doc", whatever the key. *)
put_document(st, d) == [st EXCEPT !.docs = Upsert(@, d)]

get_document(st, ns, key) == UnderKey(st.docs, ns, key)

list_documents(st, ns) == {d \in st.docs : Fits(ns, d.ns)}

(* One document of the namespace with the id goes, whichever the map finds first. *)
delete_document(st, ns, id) ==
    LET victims == {d \in list_documents(st, ns) : d.id = id}
    IN [st EXCEPT !.docs = @ \ (IF victims = {} THEN {} ELSE {CHOOSE d \in victims : TRUE})]

clear_namespace(st, ns) == [st EXCEPT !.docs = {d \in @ : d.ns # ns}]

recall_documents(st, ns, limit) ==
    LET docs == list_documents(st, ns)
    IN IF Cardinality(docs) <= limit THEN docs
       ELSE CHOOSE h \in SUBSET docs : Cardinality(h) = limit

kv_put(st, ns, key, value) == [st EXCEPT !.kv = Upsert(@, [ns |-> ns, key |-> key, value |-> value])]
kv_get(st, ns, key) == UnderKey(st.kv, ns, key)
kv_delete(st, ns, key) == [st EXCEPT !.kv = @ \ UnderKey(@, ns, key)]
(* The suite lists under a prefix that is the whole key. *)
kv_list(st, ns, prefix) == {r \in st.kv : r.ns = ns /\ Fits(prefix, r.key)}

(* A kind outside the vocabulary is Invalid, not an empty answer. *)
search_entities(entityKind) == IF entityKind = "unknown" THEN <<"error", "Invalid">> ELSE <<"rows", {}>>

----------------------------------------------------------------------------
(* Answers carry what they are. *)
Done == <<"word", "ok">>
Invalid == <<"error", "Invalid">>
Entries(set) == <<"rows", set>>
Flag(b) == <<"flag", b>>

(* The null driver: accepts and drops, reads empty, issues no cursor, and   *)
(* counts what it is given to import as skipped.                            *)
NullAnswer(c) ==
    CASE c.op = "store" -> Done
      [] c.op = "forget" -> Flag(FALSE)
      [] c.op = "export_page" ->
           IF c.cursor # 0 THEN Invalid ELSE <<"page", [records |-> {}, next |-> 0]>>
      [] c.op = "import_records" -> <<"outcome", [imported |-> 0, failed |-> 0]>>
      [] OTHER -> Entries({})

(* The store after a call, and the answer to it. *)
After(driver, st, c) ==
    IF driver = "null" THEN st ELSE
    CASE c.op = "store" -> store(st, c.row)
      [] c.op = "forget" -> forget(st, c.ns, c.key)
      [] c.op = "import_records" -> import_records(st, c.records)
      [] c.op = "put_document" -> put_document(st, c.doc)
      [] c.op = "delete_document" -> delete_document(st, c.ns, c.id)
      [] c.op = "clear_namespace" -> clear_namespace(st, c.ns)
      [] c.op = "kv_put" -> kv_put(st, c.ns, c.key, c.value)
      [] c.op = "kv_delete" -> kv_delete(st, c.ns, c.key)
      [] OTHER -> st

Answer(driver, st, c) ==
    IF driver = "null" THEN NullAnswer(c) ELSE
    CASE c.op \in {"store", "put_document", "clear_namespace", "kv_put"} -> Done
      [] c.op = "get" -> Entries(get_entry(st, c.ns, c.key))
      [] c.op = "forget" -> Flag(get_entry(st, c.ns, c.key) # {})
      [] c.op = "list" -> Entries(list(st, c.ns, c.category, c.session))
      [] c.op = "namespaces" -> Entries(namespaces(st))
      [] c.op = "recall" -> Entries(recall(st, c.ns, c.limit, c.scope))
      [] c.op = "export_page" ->
           IF c.cursor = -1 THEN Invalid ELSE <<"page", export_page(st, c.cursor, c.limit)>>
      [] c.op = "import_records" -> <<"outcome", import_outcome(c.records)>>
      [] c.op = "get_document" -> Entries(get_document(st, c.ns, c.key))
      [] c.op = "list_documents" -> Entries(list_documents(st, c.ns))
      [] c.op = "delete_document" -> Flag(\E d \in list_documents(st, c.ns) : d.id = c.id)
      [] c.op = "recall_documents" -> Entries(recall_documents(st, c.ns, c.limit))
      [] c.op = "kv_get" -> Entries(kv_get(st, c.ns, c.key))
      [] c.op = "kv_delete" -> Flag(kv_get(st, c.ns, c.key) # {})
      [] c.op = "kv_list" -> Entries(kv_list(st, c.ns, c.key))
      [] c.op = "search_entities" -> search_entities(c.kind)
=============================================================================
