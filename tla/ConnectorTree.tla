---------------------------- MODULE ConnectorTree ----------------------------
(***************************************************************************)
(* The way of a connector item into the memory tree (the provider's        *)
(* MemorySourceSink, core engine/sync.rs and backfill.rs).  The namespace  *)
(* document is the source of truth; the chunk in the tree is a secondary   *)
(* index keyed {toolkit}:{connection}:{item}, written in a later step.     *)
(* Three parties interleave between those steps: a sync batch              *)
(* (accept_source_items), the removal of a source (forget_source) and a    *)
(* backfill pass that files what the tree is missing.                      *)
(*                                                                         *)
(* The connections are those of one toolkit.  The document store appears   *)
(* as what list_documents answers, newest first; the ingest pipeline and   *)
(* its transactional gate are external.                                    *)
(***************************************************************************)
EXTENDS Naturals, Sequences, FiniteSets, SequencesExt

CONSTANTS
  Connections,  \* composio sources "toolkit:connection"
  Registered,   \* the connections the source registry has
  Plain,        \* a source of another kind, whose items the tree does not get
  Legacy,       \* the namespace skill-{toolkit} of before the migration
  Items,        \* item ids
  Poison,       \* items whose ingest into the tree fails every time
  Limit,        \* documents one backfill pass may charge
  MaxBatch,     \* bound: items of a batch
  MaxEvents     \* bound: batches, removals, store errors and deaths, taken together

ASSUME ConnectorAssumption ==
  /\ Registered \subseteq Connections /\ Poison \subseteq Items
  /\ Limit \in Nat \ {0} /\ MaxBatch \in Nat /\ IsFiniteSet(Registered)
  /\ {Plain, Legacy} \cap Connections = {}

Spaces == Connections \cup {Plain, Legacy}
NoProc == [pc |-> "idle"]

VARIABLES
  docs,       \* per namespace: the stored items, newest first
  tree,       \* the items the tree holds, as <<connection, item>>
  sink,       \* the batch in flight
  forgetter,  \* the removal in flight
  filler,     \* the backfill pass in flight
  report,     \* what that pass has counted
  used,       \* bound: events so far
  removals,   \* history: removals so far
  late,       \* history: what entered the tree after its document was gone
  left        \* history: what a removal that was cut short left in the tree

ctVars == <<docs, tree, sink, forgetter, filler, report, used, removals, late, left>>

NoReport == [done |-> FALSE, dry |-> FALSE, listed |-> 0, scanned |-> 0, ingested |-> 0,
             already |-> 0, skipped |-> 0, more_pending |-> FALSE]

Stored(c, i) == \E ns \in {c, Legacy} : i \in Range(docs[ns])

\* Faulty variant: a second row for an item that is stored already.
PutTwice(list, i) == <<i>> \o list

\* Where an item is in a listing, or the place after its last.
Place(list, i) ==
  IF i \in Range(list) THEN CHOOSE n \in DOMAIN list : list[n] = i ELSE Len(list) + 1

\* A document write moves the item to the front of the listing.
PutFirst(list, i) ==
  LET n == Place(list, i)
  IN  [k \in 1 .. (IF n > Len(list) THEN n ELSE Len(list)) |->
         IF k = 1 THEN i ELSE IF k <= n THEN list[k - 1] ELSE list[k]]

(***************************************************************************)
(* The funnel: ingest_connector_item_into_tree and the policy around it.   *)
(***************************************************************************)

\* ingest_connector_item_into_tree on an item that is not Poison; the gate makes
\* an item the tree already holds a no-op.
IngestIntoTree(c, i) ==
  /\ tree' = tree \cup {<<c, i>>}
  /\ late' = IF Stored(c, i) \/ <<c, i>> \in tree THEN late ELSE late \cup {<<c, i>>}

\* connector_item_already_treed: the gate's read, by the identity of the funnel.
AlreadyTreed(c, i) == <<c, i>> \in tree

\* escalate_or_count: an ordinary failure is counted, corruption aborts the run.
Event == used < MaxEvents /\ used' = used + 1

(***************************************************************************)
(* accept_source_items.                                                    *)
(***************************************************************************)

\* The items are converted first; an invalid one ends the conversion and the ones
\* before it go on.
AcceptBegin(s) ==
  /\ sink = NoProc /\ s # Legacy
  /\ Event
  /\ \E batch \in SeqOf(Items, MaxBatch), rejected \in BOOLEAN :
       /\ batch # <<>> \/ rejected
       /\ IsInjective(batch)
       /\ sink' = [pc |-> "put", src |-> s, batch |-> batch, todo |-> batch, written |-> <<>>,
                   end |-> IF rejected THEN "rejected" ELSE "ok", counted |-> 0]
  /\ UNCHANGED <<docs, tree, forgetter, filler, report, late, left, removals>>

\* put_docs: in order; a write that fails is the last result.
AcceptPut ==
  /\ sink.pc = "put"
  /\ IF sink.todo = <<>>
     THEN sink' = [sink EXCEPT !.pc = "tree"] /\ UNCHANGED <<docs, used>>
     ELSE \/ /\ docs' = [docs EXCEPT ![sink.src] = PutFirst(@, Head(sink.todo))]
             /\ sink' = [sink EXCEPT !.todo = Tail(@), !.written = Append(@, Head(sink.todo))]
             /\ UNCHANGED used
          \/ /\ Event
             /\ sink' = [sink EXCEPT !.pc = "tree", !.todo = <<>>, !.end = "write_failed"]
             /\ UNCHANGED docs
  /\ UNCHANGED <<tree, forgetter, filler, report, late, left, removals>>

\* Faulty variant: no source has a tree scope.
NoTreeScope(s) == FALSE

\* connector_tree_scope: only a composio source of the form toolkit:connection.
TreeScope(s) == s \in Connections

\* ingest_connector_item_tolerated, item by item.
AcceptTree ==
  /\ sink.pc = "tree" /\ sink.written # <<>>
  /\ LET i == Head(sink.written)
         rest == [sink EXCEPT !.written = Tail(@)]
     IN  \/ /\ ~TreeScope(sink.src)
            /\ sink' = rest /\ UNCHANGED <<tree, late, used>>
         \/ /\ TreeScope(sink.src) /\ i \notin Poison
            /\ IngestIntoTree(sink.src, i)
            /\ sink' = rest /\ UNCHANGED <<used>>
         \/ /\ TreeScope(sink.src)
            /\ (i \in Poison /\ UNCHANGED used) \/ (i \notin Poison /\ Event)
            /\ sink' = [rest EXCEPT !.counted = @ + 1]
            /\ UNCHANGED <<tree, late>>
         \/ /\ TreeScope(sink.src) /\ Event
            /\ sink' = [rest EXCEPT !.written = <<>>, !.end = "corrupt"]
            /\ UNCHANGED <<tree, late>>
  /\ UNCHANGED <<docs, forgetter, filler, report, removals, left>>

AcceptEnd ==
  /\ sink.pc = "tree" /\ sink.written = <<>>
  /\ sink' = NoProc
  /\ UNCHANGED <<docs, tree, forgetter, filler, report, used, late, left, removals>>

(***************************************************************************)
(* forget_source and forget_matching.                                      *)
(***************************************************************************)

\* The listing only decides whether there is something to clear.
ForgetList(s) ==
  /\ forgetter = NoProc /\ s # Legacy
  /\ Event
  /\ forgetter' = [pc |-> IF docs[s] = <<>> THEN "chunks" ELSE "clear", src |-> s]
  /\ removals' = removals + 1
  /\ UNCHANGED <<docs, tree, sink, filler, report, late, left>>

Cleared(s) == [docs EXCEPT ![s] = <<>>]

ForgetClear ==
  /\ forgetter.pc = "clear"
  /\ docs' = Cleared(forgetter.src)
  /\ forgetter' = [forgetter EXCEPT !.pc = "chunks"]
  /\ UNCHANGED <<tree, sink, filler, report, used, late, left, removals>>

\* Faulty variant: only the chunk keyed by the source id itself goes, and connector items
\* are keyed one level below it.
KeepItemChunks(s) == tree

\* The chunks of a source: the one keyed by its id and those keyed below it.
WithoutSource(s) == {t \in tree : t[1] # s}

\* What the tree holds of a source.
ChunksOf(s) == {t \in tree : t[1] = s}

\* The deletes by the source's id, which no connector item has, and by its prefix.
ForgetChunks ==
  /\ forgetter.pc = "chunks"
  /\ tree' = WithoutSource(forgetter.src)
  /\ late' = late \cap tree' /\ left' = left \cap tree'
  /\ forgetter' = [forgetter EXCEPT !.pc = "orphans"]
  /\ UNCHANGED <<docs, sink, filler, report, used, removals>>

\* delete_orphaned_source_tree: the summaries over the chunks go, and the call returns.
ForgetOrphans ==
  /\ forgetter.pc = "orphans"
  /\ forgetter' = NoProc
  /\ UNCHANGED <<docs, tree, sink, filler, report, used, late, left, removals>>

\* Each of the steps can fail, the clearing also after its commit, while it removes the
\* files: forget_source returns the error, and does not go on to the chunks.
ForgetFails ==
  /\ forgetter # NoProc
  /\ Event
  /\ \/ UNCHANGED docs /\ left' = IF forgetter.pc = "chunks" THEN left \cup ChunksOf(forgetter.src)
                                                            ELSE left
     \/ /\ forgetter.pc = "clear"
        /\ docs' = Cleared(forgetter.src) /\ left' = left \cup ChunksOf(forgetter.src)
  /\ forgetter' = NoProc
  /\ UNCHANGED <<tree, sink, filler, report, late, removals>>

\* forget_matching: chunks only, by chunk, source, prefix or owner; a connection is
\* what the prefix and the owner of a connector item come to.
ForgetMatching(c) ==
  /\ Event
  /\ \E gone \in {WithoutSource(c)} \cup {tree \ {t} : t \in tree} :
       gone # tree /\ tree' = gone
  /\ late' = late \cap tree' /\ left' = left \cap tree'
  /\ removals' = removals + 1
  /\ UNCHANGED <<docs, sink, forgetter, filler, report>>

(***************************************************************************)
(* backfill_connector_trees.                                               *)
(***************************************************************************)

\* resolve_targets: the registered connections, and the legacy namespace under the
\* connection its documents must be from, if there is exactly one.
ResolveTargets ==
  LET own == [n \in 1 .. Cardinality(Registered) |->
               LET c == SetToSeq(Registered)[n] IN [ns |-> c, as |-> c]]
  IN  IF Cardinality(Registered) = 1
      THEN Append(own, [ns |-> Legacy, as |-> own[1].as]) ELSE own

\* Faulty variant: the limit is charged for what the tree already holds.
ChargeFirst(i) == TRUE

\* The gate is asked before the limit is charged.
Charges(i) == ~AlreadyTreed(filler.as, i)

FillBegin(dry) ==
  /\ filler = NoProc
  /\ filler' = [pc |-> "list", targets |-> ResolveTargets]
  /\ report' = [NoReport EXCEPT !.dry = dry]
  /\ UNCHANGED <<docs, tree, sink, forgetter, used, late, left, removals>>

\* The next target is listed, or skipped with a note when it cannot be.
FillList ==
  /\ filler.pc = "list" /\ filler.targets # <<>>
  /\ LET t == Head(filler.targets)
     IN  \/ /\ filler' = [pc |-> "probe", targets |-> Tail(filler.targets),
                          as |-> t.as, ns |-> t.ns, todo |-> docs[t.ns]]
            /\ report' = [report EXCEPT !.listed = @ + Len(docs[t.ns])]
            /\ UNCHANGED used
         \/ /\ Event
            /\ filler' = [filler EXCEPT !.targets = Tail(@)]
            /\ UNCHANGED report
  /\ UNCHANGED <<docs, tree, sink, forgetter, late, left, removals>>

\* Faulty variant: a document that is passed over is not counted.
FillNextUncounted(field) ==
  /\ filler' = [filler EXCEPT !.pc = "probe", !.todo = Tail(@)]
  /\ report' = IF field = "skipped" THEN report ELSE [report EXCEPT ![field] = @ + 1]

\* A listed document is done with and is counted under field.
FillNext(field) ==
  /\ filler' = [filler EXCEPT !.pc = "probe", !.todo = Tail(@)]
  /\ report' = [report EXCEPT ![field] = @ + 1]

\* The pass is over and its report handed out; corruption ends it with an error.
FillAborts == filler' = NoProc /\ report' = NoReport

\* One listed document: the gate, then the limit.
FillProbe ==
  /\ filler.pc = "probe" /\ filler.todo # <<>>
  /\ LET i == Head(filler.todo)
     IN  \/ ~Charges(i) /\ FillNext("already") /\ UNCHANGED used
         \/ Event /\ (FillNext("skipped") \/ FillAborts)
         \/ /\ Charges(i) /\ report.scanned >= Limit /\ UNCHANGED used
            /\ filler' = [pc |-> "done"]
            /\ report' = [report EXCEPT !.more_pending = TRUE, !.done = TRUE]
         \/ /\ Charges(i) /\ report.scanned < Limit /\ UNCHANGED used
            /\ IF report.dry THEN FillNext("scanned")
               ELSE /\ filler' = [filler EXCEPT !.pc = "read"]
                    /\ report' = [report EXCEPT !.scanned = @ + 1]
  /\ UNCHANGED <<docs, tree, sink, forgetter, late, left, removals>>

\* get_document: a document removed since the listing, or unreadable, is skipped.
FillRead ==
  /\ filler.pc = "read"
  /\ LET stored == Head(filler.todo) \in Range(docs[filler.ns])
     IN  \/ /\ stored /\ filler' = [filler EXCEPT !.pc = "ingest"]
            /\ UNCHANGED <<report, used>>
         \/ ~stored /\ FillNext("skipped") /\ UNCHANGED used
         \/ stored /\ Event /\ FillNext("skipped")
  /\ UNCHANGED <<docs, tree, sink, forgetter, late, left, removals>>

\* The text that was read goes into the tree.
FillIngest ==
  /\ filler.pc = "ingest"
  /\ LET i == Head(filler.todo)
     IN  \/ /\ i \notin Poison
            /\ IngestIntoTree(filler.as, i)
            /\ FillNext(IF AlreadyTreed(filler.as, i) THEN "already" ELSE "ingested")
            /\ UNCHANGED used
         \/ /\ (i \in Poison /\ UNCHANGED used) \/ (i \notin Poison /\ Event)
            /\ FillNext("skipped") /\ UNCHANGED <<tree, late>>
         \/ /\ Event
            /\ FillAborts /\ UNCHANGED <<tree, late>>
  /\ UNCHANGED <<docs, sink, forgetter, removals, left>>

FillTargetDone ==
  /\ filler.pc = "probe" /\ filler.todo = <<>>
  /\ filler' = [pc |-> "list", targets |-> filler.targets]
  /\ UNCHANGED <<docs, tree, sink, forgetter, report, used, late, left, removals>>

\* Every target is done: the answer, and its delivery.
FillEnd ==
  /\ \/ /\ filler.pc = "list" /\ filler.targets = <<>>
        /\ filler' = [pc |-> "done"] /\ report' = [report EXCEPT !.done = TRUE]
     \/ filler.pc = "done" /\ FillAborts
  /\ UNCHANGED <<docs, tree, sink, forgetter, used, late, left, removals>>

\* The process dies: documents and tree stay as they are, every call is gone.
Dies ==
  /\ Event
  /\ sink' = NoProc /\ forgetter' = NoProc /\ FillAborts
  /\ left' = IF forgetter # NoProc /\ forgetter.pc = "chunks"
             THEN left \cup ChunksOf(forgetter.src) ELSE left
  /\ UNCHANGED <<docs, tree, late, removals>>

(***************************************************************************)
(* Specification.  Before the routing was fixed items reached the document *)
(* namespaces only, so a behaviour starts with documents the tree lacks.   *)
(***************************************************************************)

CtInit ==
  /\ \E old \in SeqOf(Items, Limit + 1), legacy \in SeqOf(Items \ Poison, 1), c \in Registered :
       /\ IsInjective(old) /\ Len(old) \in {0, Limit + 1}
       /\ docs = [ns \in Spaces |-> IF ns = c THEN old ELSE IF ns = Legacy THEN legacy ELSE <<>>]
  /\ tree = {} /\ late = {} /\ left = {}
  /\ sink = NoProc /\ forgetter = NoProc /\ filler = NoProc
  /\ report = NoReport
  /\ used = 0 /\ removals = 0

FillStep == FillList \/ FillProbe \/ FillRead \/ FillIngest \/ FillTargetDone \/ FillEnd
SinkStep == AcceptPut \/ AcceptTree \/ AcceptEnd
ForgetStep == ForgetClear \/ ForgetChunks \/ ForgetOrphans

CtNext ==
  \/ \E s \in Connections \cup {Plain} : AcceptBegin(s) \/ ForgetList(s)
  \/ \E c \in Connections : ForgetMatching(c)
  \/ \E dry \in BOOLEAN : FillBegin(dry)
  \/ SinkStep \/ ForgetStep \/ FillStep
  \/ ForgetFails \/ Dies

\* A call in flight goes on, and the operator asks for passes until nothing is
\* pending, as the module documentation of backfill.rs says.
CtFairness ==
  /\ WF_ctVars(SinkStep) /\ WF_ctVars(ForgetStep) /\ WF_ctVars(FillStep)
  /\ SF_ctVars(FillBegin(FALSE))

CtSpec == CtInit /\ [][CtNext]_ctVars /\ CtFairness

(***************************************************************************)
(* Properties.                                                             *)
(***************************************************************************)

CtTypeOK ==
  /\ docs \in [Spaces -> Seq(Items)]
  /\ \A ns \in Spaces : IsInjective(docs[ns])
  /\ tree \subseteq Connections \X Items /\ late \cup left \subseteq tree
  /\ report.scanned <= Limit

\* A forgotten source leaves nothing in the tree: an item the tree holds without a
\* document got there from a batch or a pass that had read the document before it was
\* removed, or was left by a forget_source that failed or died after its documents
\* were gone.  The removal that is asked for again ends the second case: it finds no
\* document, and still goes on to the chunks.
OrphansAreLate ==
  forgetter = NoProc =>
    \A t \in tree : Stored(t[1], t[2]) \/ t \in late \cup left

\* A removal that got past the chunks has taken every chunk of its source, those an
\* earlier removal left too, but for what came in late or was stored again since.
ForgottenIsGone ==
  (forgetter # NoProc /\ forgetter.pc = "orphans") =>
    \A t \in ChunksOf(forgetter.src) : Stored(t[1], t[2]) \/ t \in late

\* A pass that says nothing is pending accounts for every document it listed: each
\* one is present, ingested, skipped, or would be charged by a real pass.
ReportAccounts ==
  (report.done /\ ~report.more_pending) =>
    report.listed = report.already + report.ingested + report.skipped
                      + (IF report.dry THEN report.scanned ELSE 0)

\* A batch of a connector that ends well has every item in the tree or counted as a
\* failure, unless a removal ran beside it: a sync that writes documents only is
\* reported as a success and shows nothing.
BatchReachesTree ==
  [][(sink # NoProc /\ AcceptEnd /\ sink.end = "ok" /\ sink.src \in Connections /\ removals = 0)
       => Cardinality({i \in Range(sink.batch) : <<sink.src, i>> \notin tree}) <= sink.counted]_ctVars

\* However many passes it takes, every stored document of a registered connection
\* that can be ingested is in the tree in the end, items that fail every time and
\* are charged on every pass notwithstanding, as long as there are fewer of them
\* than the limit.
BackfillConverges ==
  <>[](\A c \in Registered, i \in Items \ Poison :
          i \in Range(docs[c]) => <<c, i>> \in tree)

\* The tree holds what the documents hold, and a pass accounts for all it listed.
TreeFollowsDocuments == CtTypeOK /\ OrphansAreLate /\ ForgottenIsGone /\ ReportAccounts
=============================================================================
