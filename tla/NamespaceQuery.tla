--------------------------- MODULE NamespaceQuery ---------------------------
(***************************************************************************)
(* Hybrid retrieval over the namespace store (namespace_store/query.rs).   *)
(* A query reads the documents, the key-value rows, the relations, the     *)
(* chunks, the episodic log and the events one after the other, each under *)
(* a lock of its own, and awaits the embedder in between, while writers    *)
(* go on.  It plans which relations to follow, scores what it read and     *)
(* keeps the best.  A text is the set of its words; relevances are in      *)
(* hundredths and scores in ten-thousandths, rounded down.                 *)
(***************************************************************************)
EXTENDS Integers, Sequences, FiniteSets

LOCAL INSTANCE SequencesExt
LOCAL INSTANCE FiniteSetsExt

CONSTANTS
    DocIds,        \* document ids
    Bodies,        \* what a document may hold: its text, the session that wrote it, how near
                   \* its vector is and whose model made it, what marks its priority
    Relations,     \* the relations there may be
    KvRows,        \* key-value rows: words, priority marks, whether it is fresh
    Turns,         \* turns of the episodic log: words, whether it is fresh
    Happenings,    \* events, likewise
    Queries,       \* the texts asked for, sequences of different words
    MaxHits,       \* the caller's limit
    MaxRelations,  \* bound on the relations there are at once; no more than a hit cites
    MaxEdits,      \* bound on writes while a query runs
    MaxLosses      \* bound on reads that fail during a query

ASSUME QueryAssumption ==
    MaxHits \in Nat \ {0} /\ MaxRelations \in 0..3 /\ MaxEdits \in Nat /\ MaxLosses \in Nat

VARIABLES
    docTable,   \* the documents there are: id to body
    relTable,   \* the relations there are
    asking,     \* the query in progress: what it asks and what it has read
    outcome,    \* what the last query returned, and what it was chosen from
    unmoved,    \* ghost: documents that were there, as they are, since the query began
    edits,      \* writes so far
    losses      \* failed reads so far

nqVars == <<docTable, relTable, asking, outcome, unmoved, edits, losses>>

Unit == 100     \* a relevance of one

---------------------------------------------------------------------------
(* The plan of a query.                                                    *)
Terms(q) == Range(q)

infer_temporal_operator(q) ==
    LET said(words) == Terms(q) \cap words # {}
    IN  IF said({"before"}) THEN "before"
        ELSE IF said({"after"}) THEN "after"
        ELSE IF said({"history", "timeline", "all"}) THEN "all"
        ELSE IF said({"first", "earliest", "initial"}) THEN "earliest"
        ELSE "latest"

(* The predicates that words ask for, in the order of their names. *)
PredicateOrder == <<"EAST_OF", "LOCATED_IN", "NORTH_OF", "OWNS", "RESIDES_AT", "SOUTH_OF",
                    "TRAVELS_TO", "USES", "WEST_OF", "WORKS_FOR">>

Transfers == {"give", "gave", "sent", "handed", "passed"}

AskedBy ==
    {<<{"where", "location", "located", "place"}, {"LOCATED_IN", "RESIDES_AT", "TRAVELS_TO"}>>,
     <<{"owner", "owns", "owned", "has", "holding"}, {"OWNS", "USES"}>>,
     <<{"works", "employer", "company", "organization"}, {"WORKS_FOR"}>>,
     <<{"north"}, {"NORTH_OF"}>>, <<{"south"}, {"SOUTH_OF"}>>,
     <<{"east"}, {"EAST_OF"}>>, <<{"west"}, {"WEST_OF"}>>,
     <<Transfers \cup {"received", "receive"}, {"USES"}>>}

infer_relation_types(q) ==
    LET asked == UNION {row[2] : row \in {r \in AskedBy : r[1] \cap Terms(q) # {}}}
    IN  SelectSeq(PredicateOrder, LAMBDA p : p \in asked)

infer_relation_chains(q, types) ==
    IF "where" \in Terms(q)
      THEN <<<<"OWNS", "TRAVELS_TO">>, <<"USES", "TRAVELS_TO">>,
             <<"OWNS", "LOCATED_IN">>, <<"USES", "LOCATED_IN">>>>
    ELSE IF Terms(q) \cap Transfers # {} THEN <<<<"USES">>>>
    ELSE IF types # <<>> THEN <<types>> ELSE <<>>

(* An entity of a relation, or the title of a document, that the query names. *)
match_query_entities(q, docs, rels) ==
    Terms(q) \cap ({r.subject : r \in rels} \cup {r.object : r \in rels}
                     \cup {docs[d].title : d \in DOMAIN docs})

(* The entity named last. *)
resolve_anchor_entity(q, entities) ==
    LET at == {i \in DOMAIN q : q[i] \in entities}
    IN  IF at = {} THEN "none" ELSE q[Max(at)]

build_retrieval_plan(q, docs, rels) ==
    LET temporal == infer_temporal_operator(q)
        types == infer_relation_types(q)
        entities == match_query_entities(q, docs, rels)
        anchor == IF temporal \in {"before", "after"} THEN resolve_anchor_entity(q, entities) ELSE "none"
    IN  [terms |-> q, seeds |-> entities \ {anchor}, types |-> Range(types),
         chains |-> infer_relation_chains(q, types), temporal |-> temporal, anchor |-> anchor]

---------------------------------------------------------------------------
(* The relations a plan selects.                                           *)
relation_order_value(r) == r.order
Touching(r, entities) == r.subject \in entities \/ r.object \in entities
Match(r, hop) == [rel |-> r, hop |-> hop]

predicate_matches_query(r, q) == r.words \cap Terms(q) # {}

relation_matches_terms(r, q) ==
    {r.subject, r.object} \cap Terms(q) # {} \/ predicate_matches_query(r, q)

direct_relation_matches(plan, rels) ==
    {Match(r, 1) : r \in {r \in rels :
        /\ plan.seeds = {} \/ Touching(r, plan.seeds)
        /\ plan.types = {} \/ r.predicate \in plan.types \/ predicate_matches_query(r, plan.terms)
        /\ plan.seeds = {} \/ relation_matches_terms(r, plan.terms)}}

(* Faulty variant: the chain goes on from the seeds, whatever the last hop reached. *)
JumpsOn(rels, walk, predicate) ==
    LET fresh == {r \in rels : r.predicate = predicate} \ {m.rel : m \in walk.path}
    IN  IF walk.dead \/ fresh = {} THEN [walk EXCEPT !.dead = TRUE, !.path = {}]
        ELSE [walk EXCEPT !.path = walk.path \cup {Match(r, walk.step + 2) : r \in fresh},
                          !.step = walk.step + 1]

(* One step of a chain: the relations of that predicate at the frontier, and
   the entities at their other ends.  A step without any ends the chain. *)
Hop(rels, walk, predicate) ==
    LET candidates == {r \in rels : r.predicate = predicate /\ Touching(r, walk.frontier)}
        fresh == candidates \ {m.rel : m \in walk.path}
    IN  IF walk.dead \/ candidates = {} THEN [walk EXCEPT !.dead = TRUE, !.path = {}]
        ELSE [frontier |-> {r.object : r \in {x \in fresh : x.subject \in walk.frontier}}
                             \cup {r.subject : r \in {x \in fresh : x.object \in walk.frontier}},
              path |-> walk.path \cup {Match(r, walk.step + 2) : r \in fresh},
              step |-> walk.step + 1, dead |-> FALSE]

Walk(rels, seeds, chain) ==
    FoldLeft(LAMBDA walk, predicate : Hop(rels, walk, predicate),
             [frontier |-> seeds, path |-> {}, step |-> 0, dead |-> FALSE], chain).path

Furthest(path) == Max({relation_order_value(m.rel) : m \in path})

(* Several chains give one answer: the one that reaches the latest relation, or the earliest. *)
multi_hop_relation_matches(plan, rels) ==
    LET paths == SelectSeq([i \in DOMAIN plan.chains |-> Walk(rels, plan.seeds, plan.chains[i])],
                           LAMBDA p : p # {})
        ahead(i, j) == IF plan.temporal \in {"latest", "before"}
                         THEN Furthest(paths[i]) >= Furthest(paths[j])
                         ELSE Furthest(paths[i]) <= Furthest(paths[j])
        best == {i \in DOMAIN paths : \A j \in DOMAIN paths : ahead(i, j)}
    IN  IF plan.seeds = {} \/ paths = <<>> THEN {}
        ELSE IF plan.temporal = "all" THEN UNION Range(paths)
        ELSE paths[Max(best)]

(* A relation matched directly is not taken again at a later hop; one that
   several chains reach counts for the first of them. *)
Merged(plan, rels) ==
    LET direct == direct_relation_matches(plan, rels)
        chained == {m \in multi_hop_relation_matches(plan, rels) : \A x \in direct : x.rel # m.rel}
    IN  direct \cup {m \in chained : \A x \in chained : x.rel = m.rel => m.hop <= x.hop}

resolve_anchor_order(plan, rels) ==
    LET orders == {relation_order_value(r) : r \in {x \in rels : Touching(x, {plan.anchor})}}
    IN  IF orders = {} THEN {} ELSE {IF plan.temporal = "after" THEN Min(orders) ELSE Max(orders)}

InWindow(plan, anchor, r) ==
    /\ plan.temporal = "before" => \A a \in anchor : relation_order_value(r) < a
    /\ plan.temporal = "after"  => \A a \in anchor : relation_order_value(r) > a

Pivot(plan, r) == IF r.subject \notin plan.seeds /\ r.object \in plan.seeds THEN r.object ELSE r.subject
Group(plan, m) == <<Pivot(plan, m.rel), m.rel.predicate>>

(* Faulty variant: a question about what came after is answered with the last. *)
TakesLastAfter(plan, m, x) ==
    IF plan.temporal = "earliest"
      THEN relation_order_value(m.rel) <= relation_order_value(x.rel)
      ELSE relation_order_value(m.rel) >= relation_order_value(x.rel)

Prefers(plan, m, x) ==
    IF plan.temporal \in {"earliest", "after"}
      THEN relation_order_value(m.rel) <= relation_order_value(x.rel)
      ELSE relation_order_value(m.rel) >= relation_order_value(x.rel)

(* One relation of each group is kept; between equals the order of the rows decides. *)
apply_temporal_filter(plan, anchor, matches) ==
    LET inside == {m \in matches : InWindow(plan, anchor, m.rel)}
        group(g) == {m \in inside : Group(plan, m) = g}
        best(g) == {m \in group(g) : \A x \in group(g) : Prefers(plan, m, x)}
        groups == {Group(plan, m) : m \in inside}
    IN  IF plan.temporal = "all" THEN {matches}
        ELSE {Range(pick) : pick \in {f \in [groups -> inside] : \A g \in groups : f[g] \in best(g)}}

collect_relation_matches(plan, rels) ==
    apply_temporal_filter(plan, resolve_anchor_order(plan, rels), Merged(plan, rels))

---------------------------------------------------------------------------
(* Scores.                                                                 *)
Names(body, r) == {r.subject, r.object} \cap body.words # {}

(* What a match adds to a document: its rows name the document or a chunk of
   it, or the document's text names one of its ends. *)
Support(docs, chunks, d, m) ==
    LET base == (60 * m.rel.evidence) \div m.hop
    IN  (IF d \in m.rel.docs THEN 100 * base ELSE 0)
        + (IF m.rel.chunk = d /\ d \in chunks THEN 90 * base ELSE 0)
        + (IF d \in DOMAIN docs /\ Names(docs[d], m.rel) THEN 35 * base ELSE 0)

(* The largest is one.  Documents the query does not show count, too. *)
compute_graph_document_scores(docs, chunks, matches) ==
    LET raw == [d \in DocIds |-> FoldSet(LAMBDA m, sum : sum + Support(docs, chunks, d, m), 0, matches)]
        most == Max({raw[d] : d \in DocIds} \cup {0})
    IN  [d \in DocIds |-> IF most = 0 THEN 0 ELSE (raw[d] * Unit) \div most]

(* Faulty variant: only relations extracted from the document are cited. *)
CitesOwn(d, body, matches) == {m.rel : m \in {x \in matches : d \in x.rel.docs}}

(* The three with most evidence are cited; there are no more than MaxRelations. *)
supporting_relations_for_document(d, body, matches) ==
    {m.rel : m \in {x \in matches : d \in x.rel.docs \/ x.rel.chunk = d \/ Names(body, x.rel)}}

keyword_score_for_text(q, words) ==
    IF q = <<>> THEN 0 ELSE (Unit * Cardinality(Terms(q) \cap words)) \div Cardinality(Terms(q))

(* The best chunk of the document.  A vector another model made is passed over;
   one without a signature is not, if it has the length. *)
query_vector_scores_from_chunks(chunks, embedded, d) ==
    IF embedded /\ d \in DOMAIN chunks /\ chunks[d].model # "other" THEN chunks[d].near ELSE 0

compose_query_score(keyword, vector, graph) == 55 * graph + 30 * vector + 15 * keyword
compose_fallback_query_score(keyword, vector) == 65 * vector + 35 * keyword

(* Faulty variant: only the documents with a vector are weighted anew. *)
ReweighsEmbeddedOnly(hit) ==
    IF hit.vector = 0 THEN hit
    ELSE [hit EXCEPT !.score = 45 * hit.graph + 25 * hit.vector + 10 * hit.keyword]

(* With turns of the episodic log among the hits the documents weigh less. *)
Reweighted(hit) == [hit EXCEPT !.score = 45 * hit.graph + 25 * hit.vector + 10 * hit.keyword]

Hit(kind, id, keyword, vector, graph, score, backed) ==
    [kind |-> kind, id |-> id, keyword |-> keyword, vector |-> vector, graph |-> graph,
     score |-> score, backed |-> backed]

Freshness(row) == IF row.fresh THEN Unit ELSE 0

DocumentHits(q, docs, chunks, embedded, matches) ==
    LET graphs == compute_graph_document_scores(docs, DOMAIN chunks, matches)
        linked == \E d \in DocIds : graphs[d] > 0
        hit(d) ==
          LET keyword == keyword_score_for_text(q, docs[d].words \cup {docs[d].title})
              vector == query_vector_scores_from_chunks(chunks, embedded, d)
          IN  Hit("document", d, keyword, vector, graphs[d],
                  IF linked THEN compose_query_score(keyword, vector, graphs[d])
                  ELSE compose_fallback_query_score(keyword, vector),
                  supporting_relations_for_document(d, docs[d], matches))
    IN  {h \in {hit(d) : d \in DOMAIN docs} : h.score > 0}

KvHits(q, rows) ==
    {h \in {Hit("kv", r.id, keyword_score_for_text(q, r.words), 0, 0,
                80 * keyword_score_for_text(q, r.words) + 20 * Freshness(r), {}) : r \in rows} : h.keyword > 0}

(* A search of the full-text index returns its rows best first. *)
Searches(q, rows) ==
    {SubSeq(order, 1, Min({MaxHits, Len(order)})) :
       order \in SetToSeqs({r \in rows : r.words \cap Terms(q) # {}})}
Relevance(order, i) == Unit - ((i - 1) * Unit) \div Len(order)

EpisodicHits(order) ==
    {Hit("episodic", order[i].id, 0, 0, 0,
         ((70 * Relevance(order, i) + 30 * Freshness(order[i])) * 20) \div 100, {}) : i \in DOMAIN order}

EventHits(order) ==
    {Hit("event", order[i].id, Relevance(order, i), 0, 0,
         60 * Relevance(order, i) + 40 * Freshness(order[i]), {}) : i \in DOMAIN order}

(* Faulty variant: the hits are cut before they are sorted. *)
CutsUnsorted(hits) == {s \in SUBSET hits : Cardinality(s) = Min({MaxHits, Cardinality(hits)})}

(* The best hits, up to the limit; between equals the order of the reads decides. *)
Ranked(hits) ==
    {s \in SUBSET hits : /\ Cardinality(s) = Min({MaxHits, Cardinality(hits)})
                         /\ \A in \in s, out \in hits \ s : in.score >= out.score}

---------------------------------------------------------------------------
(* Recall without a query.                                                 *)
document_priority_signal(body) ==
    Min({Unit, 25 + (IF body.core THEN 25 ELSE 0) + (IF body.urgent THEN 20 ELSE 0)
                  + (IF body.tagged THEN 20 ELSE 0) + (IF body.kind THEN 10 ELSE 0)})

kv_priority_signal(row) ==
    Min({Unit, 30 + (IF row.setting THEN 35 ELSE 0) + (IF row.nested THEN 15 ELSE 0)})

(* A relation counts in full when it names the document, less when the text names an end. *)
document_recall_graph_signal(d, body, rels) ==
    LET weight(r) == IF d \in r.docs THEN 100 * r.evidence
                     ELSE IF Names(body, r) THEN 35 * r.evidence ELSE 0
    IN  Min({10 * Unit, FoldSet(LAMBDA r, sum : sum + weight(r), 0, rels)}) \div 10

RecallHits(docs, rows, rels) ==
    LET linked(d) == document_recall_graph_signal(d, docs[d], rels)
    IN  {Hit("document", d, document_priority_signal(docs[d]), 0, linked(d),
             45 * document_priority_signal(docs[d]) + 30 * linked(d) + 25 * Freshness(docs[d]),
             supporting_relations_for_document(d, docs[d], {Match(r, 1) : r \in rels})) : d \in DOMAIN docs}
        \cup {Hit("kv", r.id, kv_priority_signal(r), 0, 0,
                 45 * kv_priority_signal(r) + 55 * Freshness(r), {}) : r \in rows}

---------------------------------------------------------------------------
(* The steps of a query, and the writers.                                  *)
NoQuery == [at |-> "idle"]
NoOutcome == [op |-> "none"]

Only(f, S) == [x \in DOMAIN f \cap S |-> f[x]]

NqInit ==
    /\ docTable \in UNION {[D -> Bodies] : D \in SUBSET DocIds}
    /\ relTable \in {R \in SUBSET Relations : Cardinality(R) <= MaxRelations}
    /\ asking = NoQuery /\ outcome = NoOutcome
    /\ unmoved = {} /\ edits = 0 /\ losses = 0

(* query_namespace_hits_excluding_session, recall_namespace_memories *)
Ask(op, q, exclude, global) ==
    /\ asking' = [at |-> "docs", op |-> op, q |-> q, exclude |-> exclude, global |-> global,
                  docs |-> <<>>, kvs |-> {}, rels |-> {}, chunks |-> <<>>, embedded |-> FALSE,
                  turns |-> {}, events |-> {}]
    /\ unmoved' = DOMAIN docTable
    /\ UNCHANGED <<docTable, relTable, outcome, edits, losses>>

(* Faulty variant: the exclusion is not applied. *)
ReadsAll == asking' = [asking EXCEPT !.at = "kvs", !.docs = docTable]

ReadDocuments ==
    asking' = [asking EXCEPT !.at = "kvs",
                 !.docs = Only(docTable, {d \in DOMAIN docTable :
                                 asking.exclude = "none" \/ docTable[d].session # asking.exclude})]

ReadKvs == asking' = [asking EXCEPT !.at = "relations", !.kvs = KvRows]

AfterRelations == IF asking.op = "recall" THEN "answer" ELSE "chunks"
ReadRelations == asking' = [asking EXCEPT !.at = AfterRelations, !.rels = relTable]

(* Only the chunks of the documents there are now: a delete takes them along. *)
ReadChunks == asking' = [asking EXCEPT !.at = "embed", !.chunks = docTable]

AfterEmbed == IF asking.global THEN "turns" ELSE "events"
Embeds == asking' = [asking EXCEPT !.at = AfterEmbed, !.embedded = TRUE]

ReadTurns == asking' = [asking EXCEPT !.at = "events", !.turns = Turns]

ReadEvents == asking' = [asking EXCEPT !.at = "answer", !.events = Happenings]

Step ==
    /\ \/ asking.at = "docs" /\ ReadDocuments
       \/ asking.at = "kvs" /\ ReadKvs
       \/ asking.at = "relations" /\ ReadRelations
       \/ asking.at = "chunks" /\ ReadChunks
       \/ asking.at = "embed" /\ Embeds
       \/ asking.at = "turns" /\ ReadTurns
       \/ asking.at = "events" /\ ReadEvents
    /\ UNCHANGED <<docTable, relTable, outcome, unmoved, edits, losses>>

(* The relations, the embedding, the log and the events may fail: the query goes on without. *)
StepFails ==
    /\ losses < MaxLosses /\ losses' = losses + 1
    /\ \/ asking.at = "relations" /\ asking' = [asking EXCEPT !.at = AfterRelations]
       \/ asking.at = "embed" /\ asking' = [asking EXCEPT !.at = AfterEmbed]
       \/ asking.at = "turns" /\ asking' = [asking EXCEPT !.at = "events"]
       \/ asking.at = "events" /\ asking' = [asking EXCEPT !.at = "answer"]
    /\ UNCHANGED <<docTable, relTable, outcome, unmoved, edits>>

(* The documents, the rows or the chunks cannot be read: the query fails. *)
AskFails ==
    /\ asking.at \in {"docs", "kvs", "chunks"} /\ losses < MaxLosses
    /\ losses' = losses + 1 /\ asking' = NoQuery /\ unmoved' = {}
    /\ UNCHANGED <<docTable, relTable, outcome, edits>>

Outcome(plan, matches, hits, shown) ==
    [op |-> asking.op, q |-> asking.q, exclude |-> asking.exclude, docs |-> asking.docs,
     rels |-> asking.rels, plan |-> plan, matches |-> matches, hits |-> hits, shown |-> shown]

AnswerQuery ==
    LET q == asking.q
        plan == build_retrieval_plan(q, asking.docs, asking.rels)
    IN  \E matches \in collect_relation_matches(plan, asking.rels),
           turns \in Searches(q, asking.turns), events \in Searches(q, asking.events) :
          LET plain == DocumentHits(q, asking.docs, asking.chunks, asking.embedded, matches)
              docHits == IF turns = <<>> THEN plain ELSE {Reweighted(h) : h \in plain}
              hits == docHits \cup KvHits(q, asking.kvs) \cup EpisodicHits(turns) \cup EventHits(events)
          IN  \E shown \in Ranked(hits) : outcome' = Outcome(plan, matches, hits, shown)

AnswerRecall ==
    LET hits == RecallHits(asking.docs, asking.kvs, asking.rels)
    IN  \E shown \in Ranked(hits) : outcome' = Outcome(NoQuery, {}, hits, shown)

Answer ==
    /\ asking.at = "answer"
    /\ IF asking.op = "recall" THEN AnswerRecall ELSE AnswerQuery
    /\ asking' = NoQuery
    /\ UNCHANGED <<docTable, relTable, unmoved, edits, losses>>

(* A document is written with its chunks, or deleted; a relation is written or pruned. *)
Edited ==
    /\ asking # NoQuery /\ edits < MaxEdits
    /\ edits' = edits + 1
    /\ UNCHANGED <<asking, outcome, losses>>

WriteDocument ==
    \E d \in DocIds, body \in Bodies :
      /\ Edited
      /\ docTable' = [x \in DOMAIN docTable \cup {d} |-> IF x = d THEN body ELSE docTable[x]]
      /\ unmoved' = unmoved \ {d} /\ UNCHANGED relTable

DeleteDocument ==
    \E d \in DOMAIN docTable :
      /\ Edited
      /\ docTable' = Only(docTable, DocIds \ {d})
      /\ unmoved' = unmoved \ {d} /\ UNCHANGED relTable

WriteRelation ==
    \E r \in Relations :
      /\ Edited
      /\ relTable' = IF r \in relTable THEN relTable \ {r} ELSE relTable \cup {r}
      /\ Cardinality(relTable') <= MaxRelations
      /\ UNCHANGED <<docTable, unmoved>>

AskAny ==
    /\ asking = NoQuery /\ outcome = NoOutcome
    /\ \/ \E q \in Queries, exclude \in {b.session : b \in Bodies}, global \in BOOLEAN :
            Ask("query", q, exclude, global)
       \/ Ask("recall", <<>>, "none", FALSE)

NqNext ==
    \/ AskAny
    \/ Step \/ StepFails \/ AskFails \/ Answer
    \/ WriteDocument \/ DeleteDocument \/ WriteRelation

---------------------------------------------------------------------------
NqTypeOK ==
    /\ DOMAIN docTable \subseteq DocIds /\ relTable \subseteq Relations
    /\ unmoved \subseteq DOMAIN docTable
    /\ edits \in 0..MaxEdits /\ losses \in 0..MaxLosses

Answered == outcome # NoOutcome
Shown(d) == \E h \in outcome.shown : h.kind = "document" /\ h.id = d

(* The session that asks is not shown its own documents, and what it is shown
   was in the store under that id when the documents were read. *)
NoEcho ==
    Answered => \A h \in outcome.shown :
      h.kind = "document" =>
        /\ h.id \in DOMAIN outcome.docs
        /\ outcome.exclude # "none" => outcome.docs[h.id].session # outcome.exclude

(* A document that stays as it is while the query runs, and holds a word of the
   query, is shown unless the answer is full of hits that score at least what
   that word alone is worth: a failed read of relations, vectors or the log
   takes a signal away, never a document.  A recall shows every such document. *)
StableIsShown ==
    Answered => \A d \in unmoved :
      LET words == docTable[d].words \cup {docTable[d].title}
          keyword == IF outcome.op = "recall" THEN Unit ELSE keyword_score_for_text(outcome.q, words)
      IN  (keyword > 0 /\ (outcome.exclude = "none" \/ docTable[d].session # outcome.exclude)) =>
            \/ Shown(d)
            \/ /\ Cardinality(outcome.shown) = MaxHits
               /\ \A h \in outcome.shown : outcome.op = "recall" \/ h.score >= 10 * keyword

(* Of two documents, one that is no worse in every signal scores no less. *)
ScoresFollowSignals ==
    Answered => \A g, h \in {x \in outcome.hits : x.kind = "document"} :
      (outcome.op = "query" /\ g.keyword >= h.keyword /\ g.vector >= h.vector /\ g.graph >= h.graph)
        => g.score >= h.score

(* A document with graph relevance cites a relation that was followed. *)
GraphIsCited ==
    Answered => \A h \in outcome.hits : h.graph > 0 => h.backed # {}

(* What a question about before, after, first or last selects: one relation of
   each entity and predicate, on the right side of the anchor, and no other
   that matched is nearer to what was asked. *)
TemporalExact ==
    (Answered /\ outcome.op = "query") =>
      LET plan == outcome.plan
          order(m) == m.rel.order
          anchors == {r.order : r \in {x \in outcome.rels : plan.anchor \in {x.subject, x.object}}}
          inWindow(m) == /\ plan.temporal = "before" /\ anchors # {} => order(m) < Max(anchors)
                         /\ plan.temporal = "after" /\ anchors # {} => order(m) > Min(anchors)
      IN  /\ \A m, x \in outcome.matches : m.rel = x.rel => m = x
          /\ \A m \in outcome.matches : m.rel \in outcome.rels /\ inWindow(m)
          /\ plan.temporal # "all" =>
               \A m \in outcome.matches, x \in Merged(plan, outcome.rels) :
                 (Group(plan, m) = Group(plan, x) /\ inWindow(x)) =>
                    /\ plan.temporal \in {"latest", "before"} => order(m) >= order(x)
                    /\ plan.temporal \in {"earliest", "after"} => order(m) <= order(x)
                    /\ x \in outcome.matches => x = m

(* Every relation of a later hop hangs on one of an earlier hop or on an entity
   of the query: chains do not jump. *)
ChainsConnect ==
    (Answered /\ outcome.op = "query" /\ outcome.plan.temporal = "all") =>
      \A m \in outcome.matches :
        m.hop > 1 => \/ {m.rel.subject, m.rel.object} \cap outcome.plan.seeds # {}
                     \/ \E x \in outcome.matches :
                          /\ x.rel # m.rel
                          /\ {x.rel.subject, x.rel.object} \cap {m.rel.subject, m.rel.object} # {}

(* What a query over a namespace may return, however its reads interleave with
   writes and whichever of them fail. *)
QuerySound ==
    /\ NqTypeOK /\ NoEcho /\ StableIsShown /\ ScoresFollowSignals
    /\ GraphIsCited /\ TemporalExact /\ ChainsConnect
=============================================================================
