----------------------------- MODULE TreeReads ------------------------------
(***************************************************************************)
(* What the embedded driver reads of the memory tree: the summary forest,  *)
(* recent leaves, chunk pages and details, entities (engine/mod.rs over    *)
(* store/entities.rs) and the status of sources (sources/status.rs).       *)
(* A read that is one statement, or several under one lock, is an operator *)
(* over the tables; one that takes the lock again is a process, beside the *)
(* engine that writes the tables.                                          *)
(***************************************************************************)
EXTENDS Integers, Sequences, FiniteSets

LOCAL INSTANCE SequencesExt
LOCAL INSTANCE FiniteSetsExt

CONSTANTS
    TreeScope,     \* the source each tree belongs to; trees are numbers, in the order of their ids
    Leaf,          \* the chunks there may be: source id, whether it is attributed, time
    Allowed,       \* the sources a scope may list
    Registered,    \* the sources of the registry: id, connector, toolkit, connection
    Mentions,      \* the rows of the entity index there may be: entity, kind, node,
                   \* node_kind, tree (0 when NULL), at, and the queries it is LIKE
    KnownKinds,    \* EntityKind
    Lookups,       \* queries for entities: none, or the one text
    Touchers,      \* callers of touch_entities
    TouchLists,    \* the lists they pass, each id with the namespace
    NodeWindow,    \* MAX_NODE_BATCH
    MaxForest,     \* MAX_FOREST_SUMMARIES
    ReadLimit,     \* the caller's limit
    CounterMax,    \* u32::MAX
    MaxTreeEdits,  \* bound on writes by the engine
    MaxTouches     \* bound on calls of touch_entities

ASSUME TreeReadsAssumption ==
    /\ ReadLimit \in Nat \ {0} /\ NodeWindow \in Nat \ {0} /\ MaxForest \in Nat \ {0}
    /\ CounterMax \in Nat \ {0} /\ MaxTreeEdits \in Nat /\ MaxTouches \in Nat

Chunks == DOMAIN Leaf
Trees == DOMAIN TreeScope
Nothing == 0            \* a NULL, or a row that is not there
AnyKind == {"any"}        \* the caller passes no filter at all
Invalid == [refused |-> TRUE]

VARIABLES
    chunkRows,    \* mem_tree_chunks: the chunks that have a row
    dropped,      \* those whose lifecycle_status is 'dropped'
    vectors,      \* mem_tree_chunk_embeddings
    skips,        \* mem_tree_chunk_reembed_skipped
    leafParent,   \* parent_summary_id of each chunk
    forest,       \* mem_tree_summaries: tree, level, sealed_at, deleted
    mentioned,    \* mem_tree_entity_index
    heat,         \* the hotness counters
    reading,      \* the read in progress
    reply,        \* what the last read returned
    seen,         \* ghost: what each chunk was since the read began
    touching,     \* each toucher: what is left of its list and what it read
    touches,      \* ghost: touches of each entity
    overlapped,   \* ghost: entities two callers were at together
    treeEdits     \* writes by the engine

TrTables == <<chunkRows, dropped, vectors, skips, leafParent, forest, mentioned>>
TouchVars == <<heat, touching, touches, overlapped>>
trVars == <<TrTables, TouchVars, reading, reply, seen, treeEdits>>

AllEntities == {m.entity : m \in Mentions}
HotKeys == Trees \X AllEntities     \* namespace and entity, joined by a colon in the code
Nodes == {m.node : m \in Mentions}
ReadScopes == {[given |-> FALSE, allow |-> {}]} \cup [given : {TRUE}, allow : SUBSET Allowed]

(* The members in the order of Before, a strict order in which some may be level. *)
Sorted(S, Before(_, _)) ==
    FoldSet(LAMBDA x, s : InsertAt(s, 1 + Cardinality({i \in DOMAIN s : ~Before(x, s[i])}), x), <<>>, S)

Cut(s, limit) == SubSeq(s, 1, Min({limit, Len(s)}))

---------------------------------------------------------------------------
(* ReadScopes.                                                                 *)
allows_source_id(scope, id) ==
    \E a \in scope.allow : id = a \/ IsPrefix(<<"mem_src">> \o a \o <<":">>, id)

---------------------------------------------------------------------------
(* The forest: tree by tree, one row over the limit to see whether it is cut. *)
ForestBefore(a, b) ==
    \/ a.tree < b.tree
    \/ a.tree = b.tree /\ a.level < b.level
    \/ a.tree = b.tree /\ a.level = b.level /\ a.at < b.at

Clamped(limit) == Max({1, Min({limit, MaxForest})})

(* No scope is no restriction.  The trees are matched by the published rule. *)
AllowedTrees(scope) == {t \in Trees : ~scope.given \/ allows_source_id(scope, TreeScope[t])}

EmptyForest == [summaries |-> <<>>, truncated |-> FALSE]

(* Faulty variant: the rows are counted before the scope is applied. *)
CutsThenFilters(scope, limit) ==
    LET live == {s \in forest : ~s.deleted}
        rows == Cut(Sorted(live, ForestBefore), Clamped(limit))
    IN  [summaries |-> SelectSeq(rows, LAMBDA s : s.tree \in AllowedTrees(scope)),
         truncated |-> Cardinality(live) > Clamped(limit)]

(* The scope picks the trees before the limit counts rows; a scope that
   matches no tree is answered without a row query. *)
summary_forest(scope, limit) ==
    LET n == Clamped(limit)
        rows == Sorted({s \in forest : ~s.deleted /\ s.tree \in AllowedTrees(scope)}, ForestBefore)
        probed == Cut(rows, n + 1)
    IN  IF scope.given /\ AllowedTrees(scope) = {} THEN EmptyForest
        ELSE [summaries |-> Cut(probed, n), truncated |-> Len(probed) > n]

---------------------------------------------------------------------------
(* Chunks.  The driver turns a query and a scope into the engine's query in *)
(* one place; the engine's statement is external to the repository.         *)
chunk_query_to_engine(query, scope) ==
    [sources |-> query.sources, limit |-> query.limit, offset |-> query.offset,
     exclude_dropped |-> query.exclude_dropped, scope |-> scope]

(* A chunk without a source is not the scope's business; an empty list of
   sources is no filter, an empty scope denies. *)
Selected(q) ==
    {c \in chunkRows :
       /\ q.sources = {} \/ Leaf[c].source \in q.sources
       /\ q.exclude_dropped => c \notin dropped
       /\ ~q.scope.given \/ ~Leaf[c].attributed \/ allows_source_id(q.scope, Leaf[c].source)}
EngineRows(q) ==
    LET newest == Sorted(Selected(q), LAMBDA c, d : Leaf[c].at > Leaf[d].at)
    IN  SubSeq(newest, q.offset + 1, Min({q.offset + q.limit, Len(newest)}))

list_chunks(query, scope) == EngineRows(chunk_query_to_engine(query, scope))

(* The bounds of the page travel and are ignored. *)
count_chunks(query, scope) == Cardinality(Selected(chunk_query_to_engine(query, scope)))

Unfiltered == [sources |-> {}, limit |-> ReadLimit, offset |-> 0, exclude_dropped |-> FALSE]

---------------------------------------------------------------------------
(* Status of a source: the chunks whose source id is LIKE a pattern.       *)
(* A character of a pattern: escaped, or as it stands.  Of the characters LIKE
   gives a meaning, a source id has the underscore only. *)
Literal(x) == [char |-> x, literal |-> TRUE]
Wild(x) == [char |-> x, literal |-> x # "_"]

like_prefix_pattern(prefix) == [i \in DOMAIN prefix |-> Literal(prefix[i])] \o <<Wild("%")>>

(* How the ingest paths key the chunks of a source. *)
KeyPrefix(source) ==
    IF source.connector
    THEN IF source.toolkit = <<>> THEN <<"__no_toolkit__", ":">>
         ELSE IF source.connection = <<>> THEN source.toolkit \o <<":">>
         ELSE source.toolkit \o <<":">> \o source.connection \o <<":">>
    ELSE <<"mem_src">> \o source.id \o <<":">>

(* The pattern of a registered source is not escaped. *)
source_id_prefix(source) ==
    LET text == KeyPrefix(source) IN [i \in DOMAIN text |-> Wild(text[i])] \o <<Wild("%")>>

Like(pattern, text) ==
    LET n == Len(pattern) - 1
    IN  /\ Len(text) >= n
        /\ \A i \in 1..n : (pattern[i].literal => pattern[i].char = text[i])

(* A chunk is resolved by a vector, by being dropped or by being skipped. *)
Resolved(c) == c \in vectors \/ c \in dropped \/ c \in skips

(* Faulty variant: a chunk without a vector is pending, whatever became of it. *)
CountsUnembedded(pattern) ==
    LET rows == {c \in chunkRows : Like(pattern, Leaf[c].source)}
    IN  [synced |-> Cardinality(rows), pending |-> Cardinality(rows \ vectors),
         last |-> Max({Leaf[c].at : c \in rows} \cup {Nothing})]

ingest_counts_on_connection(pattern) ==
    LET rows == {c \in chunkRows : Like(pattern, Leaf[c].source)}
    IN  [synced |-> Cardinality(rows), pending |-> Cardinality({c \in rows : ~Resolved(c)}),
         last |-> Max({Leaf[c].at : c \in rows} \cup {Nothing})]

ingest_counts_for_patterns(patterns) == [i \in DOMAIN patterns |-> ingest_counts_on_connection(patterns[i])]

(* A row per query, in their order, under the id the caller gave. *)
source_ingest_status(queries) ==
    LET counts == ingest_counts_for_patterns([i \in DOMAIN queries |-> like_prefix_pattern(queries[i].prefix)])
    IN  [i \in DOMAIN queries |-> [id |-> queries[i].id, counts |-> counts[i]]]

ZeroCounts == [synced |-> 0, pending |-> 0, last |-> Nothing]

(* One statement per source; a source whose statement fails is listed empty. *)
status_list(failing) ==
    [i \in DOMAIN Registered |->
       [id |-> Registered[i].id,
        counts |-> IF i \in failing THEN ZeroCounts
                   ELSE Head(ingest_counts_for_patterns(<<source_id_prefix(Registered[i])>>))]]

---------------------------------------------------------------------------
(* The entity index.  Its key is entity and node.                          *)
Grouped(rows) ==
    {[entity |-> g[1], kind |-> g[2],
      mentions |-> Cardinality({m \in rows : m.entity = g[1] /\ m.kind = g[2]}),
      last |-> Max({m.at : m \in {x \in rows : x.entity = g[1] /\ x.kind = g[2]}})] :
        g \in {<<m.entity, m.kind>> : m \in rows}}
MostMentioned(rows, limit) ==
    Cut(Sorted(Grouped(rows),
          LAMBDA a, b : a.mentions > b.mentions \/ (a.mentions = b.mentions /\ a.last > b.last)), limit)

namespace_entities(t, query, limit) ==
    MostMentioned({m \in mentioned : m.tree = t /\ query \subseteq m.like}, limit)

(* The entities beside this one on a node of the tree, with the number of nodes. *)
namespace_entity_edges(t, entity, limit) ==
    LET mine == {m \in mentioned : m.tree = t /\ m.entity = entity}
        beside == {m \in mentioned : m.tree = t /\ m.entity # entity /\ \E a \in mine : a.node = m.node}
        edges == {[object |-> e, weight |-> Cardinality({m \in beside : m.entity = e})] :
                    e \in {m.entity : m \in beside}}
    IN  Cut(Sorted(edges, LAMBDA a, b : a.weight > b.weight), limit)

entity_edges(t, entity, limit) ==
    LET near == namespace_entity_edges(t, entity, limit)
    IN  [i \in DOMAIN near |-> [subject |-> entity, object |-> near[i].object, evidence |-> near[i].weight]]

(* A kind nobody writes is refused: it would match no row. *)
Unknown(kinds) == ~(kinds \subseteq KnownKinds)

top_entity_rows(kind, limit) ==
    MostMentioned({m \in mentioned : kind = AnyKind \/ {m.kind} = kind}, limit)
top_entities(kind, limit) ==
    IF kind # AnyKind /\ Unknown(kind) THEN Invalid ELSE top_entity_rows(kind, limit)

NodeRows(ids, kinds) ==
    Sorted({m \in mentioned : m.node \in Range(ids) /\ (kinds = {} \/ m.kind \in kinds)},
                 LAMBDA a, b : a.node < b.node)

(* Faulty variant: the last window is not read. *)
DropsLastWindow(ids, kinds) ==
    FlattenSeq([i \in 1..(Len(ids) \div NodeWindow) |->
      NodeRows(SubSeq(ids, (i - 1) * NodeWindow + 1, i * NodeWindow), kinds)])

(* Window by window, under one lock.  No kinds is no filter here. *)
node_entity_rows(ids, kinds) ==
    FlattenSeq([i \in 1..((Len(ids) + NodeWindow - 1) \div NodeWindow) |->
      NodeRows(SubSeq(ids, (i - 1) * NodeWindow + 1, Min({i * NodeWindow, Len(ids)})), kinds)])

(* A filter that admits no kind is answered here: the store would take the
   same empty list for no filter. *)
chunk_entities(ids, filter) ==
    IF filter = AnyKind THEN node_entity_rows(ids, {})
    ELSE IF filter = {} THEN <<>>
    ELSE IF Unknown(filter) THEN Invalid
    ELSE node_entity_rows(ids, filter)

entity_leaf_node_ids(entity, limit) ==
    LET rows == {m \in mentioned : m.entity = entity /\ m.node_kind = "leaf"}
        at(n) == Max({m.at : m \in {x \in rows : x.node = n}})
    IN  Cut(Sorted({m.node : m \in rows}, LAMBDA a, b : at(a) > at(b)), limit)
entity_chunk_ids(entity, limit) == entity_leaf_node_ids(entity, limit)

---------------------------------------------------------------------------
NoRead == [op |-> "none"]
Shape(c) == [row |-> c \in chunkRows, dropped |-> c \in dropped, vector |-> c \in vectors,
             parent |-> leafParent[c]]

TrInit ==
    /\ chunkRows = Chunks /\ dropped = {} /\ vectors = {} /\ skips = {}
    /\ leafParent = [c \in Chunks |-> Nothing]
    /\ forest = {} /\ mentioned = {} /\ heat = [e \in HotKeys |-> 0]
    /\ reading = NoRead /\ reply = NoRead /\ seen = [c \in Chunks |-> {}]
    /\ touching = [p \in Touchers |-> [left |-> <<>>, read |-> 0 - 1]]
    /\ touches = [e \in HotKeys |-> 0] /\ overlapped = {} /\ treeEdits = 0

(* The engine: what it does to the tables the reads see. *)
Engine ==
    /\ treeEdits < MaxTreeEdits /\ treeEdits' = treeEdits + 1
    /\ seen' = IF reading = NoRead THEN seen ELSE [c \in Chunks |-> seen[c] \cup {Shape(c)'}]
    /\ UNCHANGED <<TouchVars, reading, reply>>

SettleLeaf ==
    \E c \in chunkRows :
      /\ \/ c \notin vectors /\ vectors' = vectors \cup {c} /\ UNCHANGED <<skips, dropped>>
         \/ c \notin skips /\ skips' = skips \cup {c} /\ UNCHANGED <<vectors, dropped>>
         \/ c \notin dropped /\ dropped' = dropped \cup {c} /\ UNCHANGED <<vectors, skips>>
      /\ UNCHANGED <<chunkRows, leafParent, forest, mentioned>> /\ Engine

(* The waiting chunks of a tree go under a summary. *)
SealLeaves ==
    \E t \in Trees :
      LET waiting == {c \in chunkRows \ dropped : /\ leafParent[c] = Nothing
                        /\ allows_source_id([allow |-> {TreeScope[t]}], Leaf[c].source)}
          summary == [tree |-> t, level |-> 1, at |-> Cardinality(forest) + 1, deleted |-> FALSE]
      IN  /\ waiting # {}
          /\ forest' = forest \cup {summary}
          /\ leafParent' = [c \in Chunks |-> IF c \in waiting THEN summary.at ELSE leafParent[c]]
          /\ UNCHANGED <<chunkRows, dropped, vectors, skips, mentioned>> /\ Engine

DropSummary ==
    \E s \in forest :
      /\ ~s.deleted /\ forest' = (forest \ {s}) \cup {[s EXCEPT !.deleted = TRUE]}
      /\ UNCHANGED <<chunkRows, dropped, vectors, skips, leafParent, mentioned>> /\ Engine

DeleteLeaf ==
    \E c \in chunkRows :
      /\ chunkRows' = chunkRows \ {c} /\ dropped' = dropped \ {c}
      /\ vectors' = vectors \ {c} /\ skips' = skips \ {c}
      /\ leafParent' = [leafParent EXCEPT ![c] = Nothing]
      /\ UNCHANGED <<forest, mentioned>> /\ Engine

index_entities(n) ==
    /\ mentioned' = mentioned \cup {m \in Mentions : m.node = n} /\ mentioned' # mentioned
    /\ UNCHANGED <<chunkRows, dropped, vectors, skips, leafParent, forest>> /\ Engine

clear_entity_index_for_node(n) ==
    /\ mentioned' = {m \in mentioned : m.node # n} /\ mentioned' # mentioned
    /\ UNCHANGED <<chunkRows, dropped, vectors, skips, leafParent, forest>> /\ Engine

(* A read of several statements: what it sees from its first to its last. *)
BeginRead(r) ==
    /\ reading = NoRead /\ reply = NoRead
    /\ reading' = r /\ seen' = [c \in Chunks |-> {Shape(c)}]
    /\ UNCHANGED <<TrTables, TouchVars, reply, treeEdits>>

Continue(r) == reading' = r /\ UNCHANGED <<TrTables, TouchVars, reply, seen, treeEdits>>

EndRead(answer) ==
    /\ reply' = answer /\ reading' = NoRead
    /\ UNCHANGED <<TrTables, TouchVars, seen, treeEdits>>

(* recent_leaves: the chunks first, then their parents. *)
ListLeaves ==
    \E scope \in ReadScopes :
      BeginRead([op |-> "leaves", scope |-> scope,
                 ids |-> EngineRows(chunk_query_to_engine([Unfiltered EXCEPT !.exclude_dropped = TRUE], scope))])

(* A chunk whose row has gone has no parent; no chunks, no second read. *)
ReadParents ==
    /\ reading.op = "leaves"
    /\ EndRead([op |-> "leaves", scope |-> reading.scope, ids |-> reading.ids,
                parent |-> [c \in Range(reading.ids) |-> leafParent[c]]])

(* chunk_detail: the row, then its vector, then its lifecycle. *)
DetailRow == \E c \in chunkRows : BeginRead([op |-> "row", chunk |-> c])

DetailVector ==
    /\ reading.op = "row"
    /\ Continue([op |-> "vector", chunk |-> reading.chunk, has |-> reading.chunk \in vectors])

DetailStatus ==
    /\ reading.op = "vector"
    /\ EndRead([op |-> "detail", chunk |-> reading.chunk, has |-> reading.has,
                row |-> reading.chunk \in chunkRows, dropped |-> reading.chunk \in dropped])

(* A caller pages through the chunks that it counted first. *)
CountPages ==
    \E scope \in ReadScopes :
      BeginRead([op |-> "pages", scope |-> scope, count |-> count_chunks(Unfiltered, scope), got |-> <<>>,
                 since |-> treeEdits])

(* list_chunks or list_chunk_details, which select alike. *)
NextPage ==
    /\ reading.op = "pages"
    /\ LET page == list_chunks([Unfiltered EXCEPT !.offset = Len(reading.got)], reading.scope)
       IN  IF page = <<>> THEN EndRead([reading EXCEPT !.op = "paged"])
                          ELSE Continue([reading EXCEPT !.got = @ \o page])

(* entities: the rows first, then their counters. *)
ListEntities ==
    \E t \in Trees, query \in Lookups :
      BeginRead([op |-> "entities", tree |-> t, rows |-> namespace_entities(t, query, ReadLimit), floor |-> heat])

AttachHotness ==
    /\ reading.op = "entities"
    /\ EndRead([op |-> "hits", tree |-> reading.tree, rows |-> reading.rows, floor |-> reading.floor,
                hotness |-> [i \in DOMAIN reading.rows |-> heat[<<reading.tree, reading.rows[i].entity>>]]])

(* touch_entities reads each counter and writes it back one higher. *)
At(p) == IF touching[p].left = <<>> THEN {} ELSE {Head(touching[p].left)}

TouchesSoFar == FoldFunctionOnSet(+, 0, touches, HotKeys)

Touch(p) ==
    \E list \in TouchLists :
      /\ touching[p].left = <<>> /\ TouchesSoFar < MaxTouches
      /\ touching' = [touching EXCEPT ![p] = [left |-> list, read |-> 0 - 1]]
      /\ UNCHANGED <<TrTables, heat, touches, overlapped, reading, reply, seen, treeEdits>>

ReadCounter(p) ==
    /\ touching[p].left # <<>> /\ touching[p].read < 0
    /\ touching' = [touching EXCEPT ![p].read = heat[Head(touching[p].left)]]
    /\ overlapped' = overlapped \cup {e \in At(p) : \E q \in Touchers \ {p} : e \in At(q) /\ touching[q].read >= 0}
    /\ UNCHANGED <<TrTables, heat, touches, reading, reply, seen, treeEdits>>

(* Faulty variant: the counter starts again. *)
WritesFresh(p) == heat' = [heat EXCEPT ![Head(touching[p].left)] = 1]

(* saturating_add *)
WritesHigher(p) == heat' = [heat EXCEPT ![Head(touching[p].left)] = Min({touching[p].read + 1, CounterMax})]

WriteCounter(p) ==
    /\ touching[p].left # <<>> /\ touching[p].read >= 0
    /\ WritesHigher(p)
    /\ touches' = [touches EXCEPT ![Head(touching[p].left)] = @ + 1]
    /\ touching' = [touching EXCEPT ![p] = [left |-> Tail(@.left), read |-> 0 - 1]]
    /\ UNCHANGED <<TrTables, overlapped, reading, reply, seen, treeEdits>>

TrWrite == SettleLeaf \/ SealLeaves \/ DropSummary \/ DeleteLeaf

TrRead ==
    \/ TrWrite
    \/ ListLeaves \/ ReadParents \/ DetailRow \/ DetailVector \/ DetailStatus
    \/ CountPages \/ NextPage

TrTouch ==
    \/ \E n \in Nodes : index_entities(n) \/ clear_entity_index_for_node(n)
    \/ ListEntities \/ AttachHotness
    \/ \E p \in Touchers : Touch(p) \/ ReadCounter(p) \/ WriteCounter(p)

---------------------------------------------------------------------------
TrTypeOK ==
    /\ dropped \cup vectors \cup skips \subseteq chunkRows /\ chunkRows \subseteq Chunks
    /\ mentioned \subseteq Mentions /\ heat \in [HotKeys -> 0..CounterMax]
    /\ \A s \in forest : s.tree \in Trees

(* The forest shows live summaries of trees in scope only, an empty scope none;
   it says it is cut exactly when one in scope is missing, what is missing is a
   tail (every tree before the last one shown is whole), and a limit out of
   range is brought into it. *)
ForestHonest ==
    \A scope \in ReadScopes, limit \in 0..MaxForest + 1 :
      LET answer == summary_forest(scope, limit)
          shown == Range(answer.summaries)
          mine == {s \in forest : ~s.deleted /\ (scope.given => allows_source_id(scope, TreeScope[s.tree]))}
      IN  /\ shown \subseteq mine
          /\ scope.given /\ scope.allow = {} => answer = EmptyForest
          /\ answer.truncated <=> shown # mine
          /\ mine # {} => shown # {}
          /\ Cardinality(shown) <= MaxForest
          /\ \A s \in mine \ shown, x \in shown : x.tree <= s.tree

Admits(scope, c) == ~scope.given \/ ~Leaf[c].attributed \/ allows_source_id(scope, Leaf[c].source)

(* A leaf is listed under a parent it had while the call ran, and under none
   it never had; leaves outside the scope and dropped ones stay away, and the
   limit is not used up by what may not be shown. *)
LeavesTrue ==
    reply.op = "leaves" =>
      /\ \A c \in Range(reply.ids) :
           /\ \E s \in seen[c] : s.parent = reply.parent[c]
           /\ Admits(reply.scope, c) /\ \E s \in seen[c] : s.row /\ ~s.dropped
      /\ Len(reply.ids) < ReadLimit =>
           \A c \in Chunks : (Admits(reply.scope, c) /\ \A s \in seen[c] : s.row /\ ~s.dropped)
                               => c \in Range(reply.ids)

(* What a detail says of the vector and of the lifecycle was each so while the
   call ran, and both at once when the chunk did not change. *)
DetailTrue ==
    reply.op = "detail" =>
      /\ \E s \in seen[reply.chunk] : s.vector = reply.has
      /\ \E s \in seen[reply.chunk] : s.row = reply.row /\ s.dropped = reply.dropped
      /\ \A s \in seen[reply.chunk] : seen[reply.chunk] = {s} =>
           s.vector = reply.has /\ s.dropped = reply.dropped

(* While nothing is written, the pages hold every counted chunk once. *)
PagesReachTotal ==
    reply.op = "paged" =>
      (reply.since = treeEdits => /\ Len(reply.got) = reply.count
                                  /\ IsInjective(reply.got))

(* An escaped prefix counts exactly the chunks it is a prefix of, an unescaped
   one at least those; nothing is pending that has been settled, and a source
   whose count fails takes no other source's row with it. *)
StatusExact ==
    LET asked == [i \in DOMAIN Registered |-> [id |-> Registered[i].id, prefix |-> KeyPrefix(Registered[i])]]
        exact == source_ingest_status(asked)
        loose == status_list({})
    IN  \A i \in DOMAIN Registered :
          LET mine == {c \in chunkRows : IsPrefix(KeyPrefix(Registered[i]), Leaf[c].source)}
          IN  /\ exact[i].id = Registered[i].id
              /\ exact[i].counts.synced = Cardinality(mine)
              /\ exact[i].counts.pending = Cardinality(mine \ (vectors \cup dropped \cup skips))
              /\ loose[i].counts.synced >= exact[i].counts.synced
              /\ loose[i].counts.pending >= exact[i].counts.pending
              /\ \A j \in DOMAIN Registered : j # i => status_list({i})[j] = loose[j]

(* Edges go both ways with one weight, never more than either end is mentioned
   in the tree, and the trees together mention no entity more often than the
   store does; windows lose and repeat nothing; a filter that admits no kind
   returns nothing and one of an unknown kind is refused; the nodes of an
   entity are leaves. *)
EntitiesConsistent ==
    LET most == Cardinality(Mentions)
        weight(t, e, f) == LET w == {x \in Range(entity_edges(t, e, most)) : x.object = f}
                           IN  IF w = {} THEN 0 ELSE (CHOOSE x \in w : TRUE).evidence
        count(rows, e) == FoldFunctionOnSet(+, 0, [r \in Range(rows) |-> IF r.entity = e THEN r.mentions ELSE 0],
                                            Range(rows))
        inTree == [t \in Trees |-> namespace_entities(t, {}, most)]
    IN  /\ \A t \in Trees, e, f \in AllEntities :
             /\ weight(t, e, f) = weight(t, f, e)
             /\ weight(t, e, f) <= count(inTree[t], e)
        /\ \A e \in AllEntities :
             /\ FoldFunctionOnSet(+, 0, [t \in Trees |-> count(inTree[t], e)], Trees)
                  <= count(top_entities(AnyKind, most), e)
             /\ Range(entity_chunk_ids(e, most)) \subseteq {m.node : m \in mentioned} \cap Chunks
        /\ \A ids \in {SetToSeq(S) : S \in SUBSET Nodes}, filter \in {{}, AnyKind, {"person"}} :
             LET rows == chunk_entities(ids, filter)
             IN  /\ IsInjective(rows)
                 /\ Range(rows) = {m \in mentioned : /\ m.node \in Range(ids)
                                                     /\ filter = AnyKind \/ m.kind \in filter}
        /\ chunk_entities(<<>>, {"nonsense"}) = Invalid /\ top_entities({"nonsense"}, most) = Invalid

(* A counter counts every touch, up to its width, unless two callers were at it
   together; then it still counts one, and never more than there were.  What an
   entity is said to be worth lies between what it was before and is after. *)
HeatCounts ==
    /\ \A e \in HotKeys :
         /\ heat[e] <= touches[e] /\ (touches[e] > 0 => heat[e] > 0)
         /\ e \notin overlapped => heat[e] = Min({touches[e], CounterMax})
    /\ reply.op = "hits" => \A i \in DOMAIN reply.rows :
         LET e == <<reply.tree, reply.rows[i].entity>>
         IN  e \notin overlapped => reply.floor[e] <= reply.hotness[i] /\ reply.hotness[i] <= heat[e]

(* Every state of the tables occurs with no read under way. *)
ReadsTrue ==
    /\ TrTypeOK /\ LeavesTrue /\ DetailTrue /\ PagesReachTotal /\ HeatCounts
    /\ reading = NoRead /\ reply = NoRead => ForestHonest /\ StatusExact /\ EntitiesConsistent
=============================================================================
