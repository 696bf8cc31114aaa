-------------------------- MODULE ConformanceSuite --------------------------
(***************************************************************************)
(* The conformance suite (tinymemory-conformance/src/suite/mod.rs) run     *)
(* against a driver, one driver call per step: the reference drivers, and  *)
(* drivers that break the contract in one place.  A run may die between    *)
(* two calls and be started again on what it left; other data is in the    *)
(* store, and its owner may remove it meanwhile ("a shared live service",  *)
(* suite/mod.rs:20).  A check is a sequence of calls, each with what the   *)
(* answer must be.                                                         *)
(***************************************************************************)
EXTENDS ReferenceDrivers, Sequences

CONSTANTS
    ExportLimit,   \* rows a page of the suite's export asks for (32)
    ExportPages,   \* pages it reads at most (64)
    Others,       \* namespaces of other data in the store, with one row each
    MaxAborts      \* bound: runs that die

ASSUME SuiteAssumption == {ExportLimit, ExportPages} \subseteq Nat \ {0} /\ MaxAborts \in Nat

VARIABLES
    kind,      \* the driver under test
    defect,    \* how it departs from the contract, "none" when it conforms
    data,      \* what it holds
    check,     \* the check under way, a position in Needs
    at,        \* the next call of that check
    heard,     \* the answer to its first call that is asked about later
    mine,      \* the suite's own records among the pages exported so far
    cursor,    \* the cursor of the next page
    pages,     \* pages read
    verdict,   \* "running", "passed", "skipped" (retains nothing) or "failed"
    aborts,    \* runs that died
    overtaken  \* other data was removed while an export was under way

cfVars == <<kind, defect, data, check, at, heard, mine, cursor, pages, verdict, aborts, overtaken>>

----------------------------------------------------------------------------
(* Calls. *)
StoreCall(ns, key, content, category, session, taint) ==
    [op |-> "store", row |-> Entry(ns, key, content, category, session, taint)]
Keep(ns, key, content) == StoreCall(ns, key, content, "core", "", "internal")
GetCall(ns, key) == [op |-> "get", ns |-> ns, key |-> key]
ForgetCall(ns, key) == [op |-> "forget", ns |-> ns, key |-> key]
List(ns, category, session) == [op |-> "list", ns |-> ns, category |-> category, session |-> session]
NamespacesCall == [op |-> "namespaces"]
Recall(ns, limit, scope) == [op |-> "recall", ns |-> ns, limit |-> limit, scope |-> scope]
ExportPage(from, limit) == [op |-> "export_page", cursor |-> from, limit |-> limit]
Doc(content) == [ns |-> "documents", key |-> "round-trip", id |-> "doc", content |-> content,
                 taint |-> "external"]
OnDoc(op) == [op |-> op, ns |-> "documents", key |-> "round-trip", id |-> "doc", limit |-> 10,
              doc |-> Doc("first")]
OnKv(op, key, value) == [op |-> op, ns |-> "kv", key |-> key, value |-> value]

(* What an answer must be. *)
Says(answer) == [is |-> "says", v |-> answer]
Nothing == Says(Entries({}))
One(has) == [is |-> "one", has |-> has]             \* one row with these fields
OneIfAny(has) == [is |-> "one if any", has |-> has]
Many(n, has) == [is |-> "many", n |-> n, has |-> has]
Holds(has) == [is |-> "holds", has |-> has]         \* some row with these fields
Told == [is |-> "told"]                             \* anything; a later step asks for it
Ignored == [is |-> "ignored"]
Stored == [is |-> "stored"]
StoredOrInvalid == [is |-> "stored or invalid"]
NoneOrInvalid == [is |-> "none or invalid"]
FirstPage == [is |-> "first page"]
Imported == [is |-> "imported"]

Has(r, has) == \A f \in DOMAIN has : r[f] = has[f]

Step(call, want) == [call |-> call, want |-> want, asks |-> <<"nothing", "">>]
StepIf(answer, call, want) == [call |-> call, want |-> want, asks |-> answer]

(* Faulty variant: only the first key is removed. *)
CleansFirst(ns, keys) == << Step(ForgetCall(ns, keys[1]), Ignored) >>

(* cleanup ignores what forget says. *)
cleanup(ns, keys) == [i \in DOMAIN keys |-> Step(ForgetCall(ns, keys[i]), Ignored)]

----------------------------------------------------------------------------
(* The checks, in the order assert_provider runs them. *)

assert_forget_is_idempotent ==
    << Step(Keep("forget", "k", "v"), Says(Done)),
       Step(ForgetCall("forget", "k"), Told),
       Step(ForgetCall("forget", "k"), Says(Flag(FALSE))),
       StepIf(Flag(TRUE), GetCall("forget", "k"), Nothing) >>

assert_namespaces_are_isolated ==
    << Step(Keep("iso-a", "k", "v"), Says(Done)),
       Step(List("iso-b", "", ""), Nothing),
       Step(GetCall("iso-b", "k"), Nothing) >> \o cleanup("iso-a", <<"k">>)

assert_export_cursor_terminates ==
    << Step(ExportPage(0, 8), FirstPage),
       Step(ExportPage(-1, 8), Says(Invalid)) >>

assert_search_entities_rejects_unknown_kind ==
    << Step([op |-> "search_entities", kind |-> "unknown"], Says(Invalid)) >>

(* The answer to the get decides whether the rest runs. *)
retains_writes ==
    << Step(Keep("probe", "probe", "probe"), Says(Done)),
       Step(GetCall("probe", "probe"), Told) >> \o cleanup("probe", <<"probe">>)

assert_store_get_round_trip ==
    << Step(StoreCall("round-trip", "k1", "fox", "core", "session-1", "internal"), Says(Done)),
       Step(GetCall("round-trip", "k1"),
            One([ns |-> "round-trip", key |-> "k1", content |-> "fox", category |-> "core",
                 session |-> "session-1"])),
       Step(GetCall("round-trip", "never-stored"), Nothing) >> \o cleanup("round-trip", <<"k1">>)

assert_upsert_replaces_rather_than_duplicates ==
    << Step(Keep("upsert", "same-key", "first"), Says(Done)),
       Step(Keep("upsert", "same-key", "second"), Says(Done)),
       Step(List("upsert", "", ""), One([content |-> "second"])) >> \o cleanup("upsert", <<"same-key">>)

(* Faulty variant: a filter is asked for the number of rows only. *)
FiltersCounted ==
    << Step(StoreCall("filters", "core-a", "x", "core", "s1", "internal"), Says(Done)),
       Step(StoreCall("filters", "daily-b", "y", "daily", "s2", "internal"), Says(Done)),
       Step(List("filters", "", ""), Many(2, <<>>)) >>
    \o cleanup("filters", <<"core-a", "daily-b">>)

assert_list_filters_narrow ==
    << Step(StoreCall("filters", "core-a", "x", "core", "s1", "internal"), Says(Done)),
       Step(StoreCall("filters", "daily-b", "y", "daily", "s2", "internal"), Says(Done)),
       Step(List("filters", "", ""), Many(2, <<>>)),
       Step(List("filters", "core", ""), One([key |-> "core-a"])),
       Step(List("filters", "", "s2"), One([key |-> "daily-b"])),
       Step(NamespacesCall, Holds([ns |-> "filters", count |-> 2])) >>
    \o cleanup("filters", <<"core-a", "daily-b">>)

assert_taint_is_preserved ==
    << Step(StoreCall("taint", "internal", "v", "core", "", "internal"), Says(Done)),
       Step(GetCall("taint", "internal"), OneIfAny([taint |-> "internal"])),
       Step(StoreCall("taint", "external", "v", "core", "", "external"), Says(Done)),
       Step(GetCall("taint", "external"), OneIfAny([taint |-> "external"])) >>
    \o cleanup("taint", <<"internal", "external">>)

assert_recall_respects_limit_and_namespace ==
    << Step(Keep("recall-a", "r1", "needle1"), Says(Done)),
       Step(Keep("recall-a", "r2", "needle2"), Says(Done)),
       Step(Keep("recall-a", "r3", "needle3"), Says(Done)),
       Step(Keep("recall-b", "other", "shared needle"), Says(Done)),
       Step(Recall("recall-a", 2, "all"), Many(2, [ns |-> "recall-a"])) >>
    \o cleanup("recall-a", <<"r1", "r2", "r3">>) \o cleanup("recall-b", <<"other">>)

assert_namespaces_preserve_their_section ==
    << Step(Keep("conversation:thread", "k", "v"), Says(Done)),
       Step(NamespacesCall, Holds([ns |-> "conversation:thread"])) >> \o cleanup("conversation:thread", <<"k">>)

assert_recall_respects_source_scope ==
    << Step(StoreCall("recall-scope", "scoped", "scoped needle", "core", "", "external"), Says(Done)),
       Step(Recall("recall-scope", 8, "nothing"), NoneOrInvalid) >>
    \o cleanup("recall-scope", <<"scoped">>)

(* The export loop is the second step; it stays there until the last page. *)
assert_export_import_round_trip ==
    << Step(StoreCall("portability", "p1", "portable", "core", "", "external"), Says(Done)),
       Step([op |-> "export loop"], Holds([taint |-> "external"])),
       Step(ForgetCall("portability", "p1"), Says(Flag(TRUE))),
       Step(GetCall("portability", "p1"), Nothing),
       Step([op |-> "import mine"], Imported),
       Step(GetCall("portability", "p1"), One([taint |-> "external"])) >>
    \o cleanup("portability", <<"p1">>)

(* A shape the driver refuses as Invalid is passed over, except plain text. *)
AwkwardLeg(key, content) ==
    << Step(Keep("awkward", key, content), IF key = "unicode" THEN Stored ELSE StoredOrInvalid),
       StepIf(Done, GetCall("awkward", key), OneIfAny([content |-> content])) >>
assert_awkward_content_round_trips ==
    AwkwardLeg("unicode", "utf8") \o AwkwardLeg("empty", "") \o AwkwardLeg("large", "64k")
    \o AwkwardLeg("newlines", "controls")
    \o cleanup("awkward", <<"unicode", "empty", "large", "newlines">>)

KvLeg(key, value) ==
    << Step(OnKv("kv_put", key, value), Says(Done)),
       Step(OnKv("kv_get", key, value), One([value |-> value])),
       Step(OnKv("kv_list", key, value), Holds([value |-> value])),
       Step(OnKv("kv_delete", key, value), Says(Flag(TRUE))),
       Step(OnKv("kv_get", key, value), Nothing) >>
assert_kv_round_trip == KvLeg("plain", "1") \o KvLeg("rewritten", "2")

(* A driver may have no recency recall; the deletes go by the id put returned. *)
assert_documents_round_trip ==
    << Step([OnDoc("put_document") EXCEPT !.doc = Doc("first")], Says(Done)),
       Step(OnDoc("get_document"), One([content |-> "first", ns |-> "documents",
                                         key |-> "round-trip", taint |-> "external"])),
       Step([OnDoc("put_document") EXCEPT !.doc = Doc("second")], Says(Done)),
       Step(OnDoc("get_document"), One([content |-> "second"])),
       Step(OnDoc("list_documents"), One([key |-> "round-trip", ns |-> "documents"])),
       Step(OnDoc("recall_documents"), Holds([key |-> "round-trip"])),
       Step(OnDoc("delete_document"), Says(Flag(TRUE))),
       Step(OnDoc("delete_document"), Says(Flag(FALSE))),
       Step(OnDoc("clear_namespace"), Says(Done)),
       Step(OnDoc("get_document"), Nothing) >>

(* The family each check needs, and its calls. *)
Needs ==
    << "core", "core", "portability", "retrieval", "core", "core", "core", "core", "core", "recall",
       "core", "recall", "portability", "core", "graph", "documents" >>

Suite(i) ==
    CASE i = 1 -> assert_forget_is_idempotent
      [] i = 2 -> assert_namespaces_are_isolated
      [] i = 3 -> assert_export_cursor_terminates
      [] i = 4 -> assert_search_entities_rejects_unknown_kind
      [] i = 5 -> retains_writes
      [] i = 6 -> assert_store_get_round_trip
      [] i = 7 -> assert_upsert_replaces_rather_than_duplicates
      [] i = 8 -> assert_list_filters_narrow
      [] i = 9 -> assert_taint_is_preserved
      [] i = 10 -> assert_recall_respects_limit_and_namespace
      [] i = 11 -> assert_namespaces_preserve_their_section
      [] i = 12 -> assert_recall_respects_source_scope
      [] i = 13 -> assert_export_import_round_trip
      [] i = 14 -> assert_awkward_content_round_trips
      [] i = 15 -> assert_kv_round_trip
      [] i = 16 -> assert_documents_round_trip

Probe == 5          \* retains_writes, the gate of the storage checks
Export == 13        \* the check with the export loop

----------------------------------------------------------------------------
(* Drivers that break the contract in one place: they understand a call     *)
(* wrongly, do not do what they were told, or answer wrongly.               *)

Misread(c) ==
    CASE defect = "restamps stores" /\ c.op = "store" -> [c EXCEPT !.row.taint = "internal"]
      [] defect = "drops sessions" /\ c.op = "store" -> [c EXCEPT !.row.session = ""]
      [] defect = "mangles text" /\ c.op = "store" ->
           [c EXCEPT !.row.content = IF @ = "utf8" THEN "mangled" ELSE @]
      [] defect = "drops sections" /\ c.op = "store" ->
           [c EXCEPT !.row.ns = IF @ = "conversation:thread" THEN "thread" ELSE @]
      [] defect = "restamps imports" /\ c.op = "import_records" ->
           [c EXCEPT !.records = {[r EXCEPT !.taint = "internal"] : r \in @}]
      [] defect = "imports lose the text" /\ c.op = "import_records" ->
           [c EXCEPT !.records = {[r EXCEPT !.content = ""] : r \in @}]
      [] defect = "lists every namespace" /\ c.op = "list" -> [c EXCEPT !.ns = ""]
      [] defect = "ignores categories" /\ c.op = "list" -> [c EXCEPT !.category = ""]
      [] defect = "ignores sessions" /\ c.op = "list" -> [c EXCEPT !.session = ""]
      [] defect = "recalls every namespace" /\ c.op = "recall" -> [c EXCEPT !.ns = ""]
      [] defect = "recalls past the limit" /\ c.op = "recall" -> [c EXCEPT !.limit = 9]
      [] defect = "ignores the scope" /\ c.op = "recall" -> [c EXCEPT !.scope = "all"]
      [] defect = "takes any cursor" /\ c.op = "export_page" ->
           [c EXCEPT !.cursor = IF @ = -1 THEN 0 ELSE @]
      [] defect = "skips a range" /\ c.op = "export_page" /\ c.cursor > 0 -> [c EXCEPT !.cursor = @ - 1]
      [] defect = "documents lose taint" /\ c.op = "put_document" -> [c EXCEPT !.doc.taint = "internal"]
      [] defect = "renames keys on write" /\ c.op = "kv_put" ->
           [c EXCEPT !.key = IF @ = "rewritten" THEN "hashed" ELSE @]
      [] OTHER -> c

(* Calls the driver acknowledges and does not carry out. *)
Undone == {<<"keeps forgotten rows", "forget">>, <<"keeps cleared documents", "delete_document">>,
           <<"keeps deleted records", "kv_delete">>, <<"drops imports", "import_records">>}

Misanswered(c, answer) ==
    CASE defect = "always forgot" /\ c.op = "forget" -> Flag(TRUE)
      [] defect = "recalls nothing" /\ c.op = "recall" -> Entries({})
      [] defect = "miscounts" /\ c.op = "namespaces" -> Entries({[s EXCEPT !.count = 1] : s \in answer[2]})
      [] defect = "refuses text" /\ c.op = "store" /\ c.row.content = "utf8" -> Invalid
      [] defect = "fails on missing" /\ c.op = "get" /\ answer = Entries({}) -> <<"error", "NotFound">>
      [] defect = "fails scoped recall" /\ c.op = "recall" /\ c.scope = "nothing" -> <<"error", "Backend">>
      [] defect = "matches no kind" /\ c.op = "search_entities" -> Entries({})
      [] defect = "skips a range" /\ c.op = "export_page" /\ c.cursor = 0 /\ data.rows # {} ->
           <<"page", [records |-> {}, next |-> 1]>>
      [] defect = "skips a range" /\ c.op = "export_page" /\ c.cursor > 0 ->
           <<"page", [answer[2] EXCEPT !.next = IF @ = 0 THEN 0 ELSE @ + 1]>>
      [] defect = "always deleted" /\ c.op = "delete_document" -> Flag(TRUE)
      [] OTHER -> answer

Seen == {"restamps stores", "drops sessions", "mangles text", "drops sections", "restamps imports",
         "lists every namespace", "ignores categories", "ignores sessions",
         "recalls past the limit", "ignores the scope", "takes any cursor", "documents lose taint",
         "renames keys on write", "keeps forgotten rows", "keeps cleared documents",
         "keeps deleted records", "drops imports", "always forgot", "recalls nothing", "miscounts",
         "refuses text", "fails on missing", "fails scoped recall", "matches no kind",
         "always deleted", "duplicates", "advertises more"}
(* The get after the import asks for the taint only, and a recall that leaves *)
(* the namespace is cut at the limit before a foreign row need show.          *)
Unseen == {"imports lose the text", "recalls every namespace"}

(* "a driver may legitimately return an empty page while skipping a range" *)
(* (api/src/provider/mandatory.rs:144).                                     *)
Permitted == {"none", "skips a range"}

Carried(c) ==
    CASE <<defect, c.op>> \in Undone -> data
      [] defect = "duplicates" /\ c.op = "store" -> [data EXCEPT !.rows = @ \cup {c.row}]
      [] OTHER -> After(kind, data, Misread(c))

AnswerTo(c) == Misanswered(c, Answer(kind, data, Misread(c)))

Meets(want, answer) ==
    CASE want.is \in {"told", "ignored"} -> TRUE
      [] want.is = "says" -> answer = want.v
      [] want.is = "stored" -> answer = Done
      [] want.is = "stored or invalid" -> answer \in {Done, Invalid}
      [] want.is = "none or invalid" -> answer \in {Entries({}), Invalid}
      [] want.is = "first page" -> answer[2].records = {} => answer[2].next = 0
      [] want.is = "imported" -> answer[2] = [imported |-> Cardinality(mine), failed |-> 0]
      [] OTHER ->
           /\ answer[1] = "rows"
           /\ CASE want.is = "one" -> \E r \in answer[2] : answer[2] = {r} /\ Has(r, want.has)
                [] want.is = "one if any" -> \A r \in answer[2] : Has(r, want.has)
                [] want.is = "many" ->
                     Cardinality(answer[2]) = want.n /\ \A r \in answer[2] : Has(r, want.has)
                [] want.is = "holds" -> \E r \in answer[2] : Has(r, want.has)

----------------------------------------------------------------------------
CfInit ==
    /\ kind \in Kinds
    /\ defect \in {"none"} \cup (IF kind = "full" THEN Seen \cup Unseen \cup Permitted ELSE {})
    /\ \E others \in SUBSET Others :
         data = [NewStore EXCEPT !.rows = IF kind = "null" THEN {}
                                          ELSE {Entry(n, "f", "shared needle", "core", "", "internal") : n \in others}]
    /\ check = 0 /\ at = 1 /\ heard = Done
    /\ mine = {} /\ cursor = 0 /\ pages = 0
    /\ verdict = "running" /\ aborts = 0 /\ overtaken = FALSE

(* The first check needs no call: what is advertised is what the accessors  *)
(* give, and the mandatory families are among it.                           *)
audit_provider(advertised) == advertised = Accessors(kind) \cup {"core", "recall", "portability"}

assert_capability_audit ==
    /\ verdict = "running" /\ check = 0
    /\ LET advertised == Advertised(kind) \cup (IF defect = "advertises more" THEN {"tree"} ELSE {})
       IN IF audit_provider(advertised) THEN check' = 1 /\ verdict' = "running"
          ELSE check' = 0 /\ verdict' = "failed"
    /\ UNCHANGED <<kind, defect, data, at, heard, mine, cursor, pages, aborts, overtaken>>

(* The call that is due, and whether it is the last of its check. *)
This == LET steps == Suite(check) IN [step |-> steps[at], last |-> at = Len(steps)]

Running == verdict = "running" /\ check \in DOMAIN Needs
Reachable == Needs[check] \in Accessors(kind) \cup {"core", "recall", "portability"}

(* A family without an accessor is passed over; a panic ends the run; after *)
(* the probe a driver that kept nothing is done.                            *)
assert_provider(ok, last) ==
    CASE ~ok -> verdict' = "failed" /\ UNCHANGED <<check, at>>
      [] ok /\ ~last -> at' = at + 1 /\ UNCHANGED <<check, verdict>>
      [] ok /\ last /\ check = Probe /\ heard' = Entries({}) ->
           verdict' = "skipped" /\ UNCHANGED <<check, at>>
      [] OTHER -> /\ check' = check + 1 /\ at' = 1
                  /\ verdict' = IF check = Len(Needs) THEN "passed" ELSE "running"

Pass ==
    /\ Running /\ ~Reachable
    /\ check' = check + 1 /\ at' = 1
    /\ verdict' = IF check = Len(Needs) THEN "passed" ELSE "running"
    /\ UNCHANGED <<kind, defect, data, heard, mine, cursor, pages, aborts, overtaken>>

(* One call of a check, or a step passed over for what was heard before. *)
Call ==
    /\ Running /\ Reachable
    /\ LET this == This
           s == this.step
           c == IF s.call.op = "import mine" THEN [op |-> "import_records", records |-> mine] ELSE s.call
           answer == AnswerTo(c)
           called == s.asks \in {<<"nothing", "">>, heard}
       IN /\ s.call.op # "export loop"
          /\ data' = IF called THEN Carried(c) ELSE data
          /\ heard' = IF s.want.is \in {"told", "stored", "stored or invalid"} THEN answer ELSE heard
          /\ assert_provider(called => Meets(s.want, answer), this.last)
    /\ UNCHANGED <<kind, defect, mine, cursor, pages, aborts, overtaken>>

(* One page of the export. *)
ExportStep ==
    /\ Running /\ check = Export /\ at = 2
    /\ LET page == AnswerTo(ExportPage(cursor, ExportLimit))[2]
           found == mine \cup {r \in page.records : r.ns = "portability"}
           more == page.next # 0 /\ pages + 1 < ExportPages
       IN /\ mine' = found
          /\ cursor' = IF more THEN page.next ELSE 0
          /\ pages' = IF more THEN pages + 1 ELSE 0
          /\ IF more THEN UNCHANGED <<check, at, verdict>>
             ELSE assert_provider(Meets(This.step.want, Entries(found)), FALSE)
    /\ UNCHANGED <<kind, defect, data, heard, aborts, overtaken>>

(* The process dies and the suite is started again on what it left. *)
Abort ==
    /\ verdict = "running" /\ defect = "none" /\ aborts < MaxAborts
    /\ check' = 0 /\ at' = 1 /\ heard' = Done /\ mine' = {} /\ cursor' = 0 /\ pages' = 0
    /\ aborts' = aborts + 1
    /\ UNCHANGED <<kind, defect, data, verdict, overtaken>>

(* The owner of other data removes a row. *)
OtherForgets ==
    /\ verdict = "running" /\ defect = "none" /\ aborts = 0
    /\ \E r \in data.rows :
         /\ r.ns \in Others
         /\ data' = forget(data, r.ns, r.key)
    /\ overtaken' = (overtaken \/ cursor # 0)
    /\ UNCHANGED <<kind, defect, check, at, heard, mine, cursor, pages, verdict, aborts>>

CfNext == assert_capability_audit \/ Pass \/ Call \/ ExportStep \/ Abort \/ OtherForgets

----------------------------------------------------------------------------
CfTypeOK ==
    /\ verdict \in {"running", "passed", "skipped", "failed"}
    /\ check \in 0..(Len(Needs) + 1) /\ at \in 1..16 /\ pages \in 0..ExportPages

(* "the suite can run against a driver that already holds data and against a *)
(* shared live service" (suite/mod.rs:19), "without needing a teardown it    *)
(* might not get" (suite/mod.rs:1193): a driver that keeps the contract      *)
(* passes, also on what a run that died left behind.  Two exceptions: a row  *)
(* removed by somebody else while the suite pages by offset hides its own    *)
(* record, and an empty first page with a cursor, which the contract         *)
(* permits, is refused.                                                      *)
ConformingPass ==
    verdict = "failed" /\ defect \in Permitted => overtaken \/ defect = "skips a range"

(* A driver that breaks the contract in a place the suite looks at does not  *)
(* pass, whatever else is in the store.                                      *)
DefectsCaught == verdict \in {"passed", "skipped"} => defect \notin Seen

(* A run that ends well leaves only other people's data. *)
LeavesNothing ==
    verdict = "passed" => data.docs = {} /\ data.kv = {} /\ \A r \in data.rows : r.ns \in Others

SuiteSound == CfTypeOK /\ ConformingPass /\ DefectsCaught /\ LeavesNothing
=============================================================================
