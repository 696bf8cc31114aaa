-------------------------- MODULE MCDocumentStore --------------------------
(***************************************************************************)
(* The document store and the queries over a namespace for TLC.  A         *)
(* behaviour works on one of them.  Tasks, keys and contents are           *)
(* interchangeable: no definition picks one of them.                       *)
(***************************************************************************)
EXTENDS DocumentStore, NamespaceQuery, TLC

VARIABLE focus   \* what this behaviour works on

mcVars == <<vars, nqVars, focus>>

Body(title, words, session, near, model, core) ==
  [title |-> title, words |-> words, session |-> session, near |-> near, model |-> model,
   core |-> core, urgent |-> FALSE, tagged |-> core, kind |-> core, fresh |-> ~core]

McBodies ==
  {Body("A", {"A", "boat"}, "s1", 20, "active", FALSE),
   Body("notes", {"where", "A", "B"}, "none", 60, "other", TRUE)}

Relation(subject, predicate, object, order, docs, chunk) ==
  [subject |-> subject, predicate |-> predicate, object |-> object, order |-> order,
   words |-> IF predicate = "OWNS" THEN {"owns"} ELSE {}, evidence |-> order,
   docs |-> docs, chunk |-> chunk]

McRelations ==
  {Relation("A", "OWNS", "B", 1, {"d1"}, "none"), Relation("A", "OWNS", "C", 3, {}, "d2"),
   Relation("B", "LOCATED_IN", "D", 2, {"d2"}, "none"), Relation("A", "OWNS", "D", 2, {}, "none")}

McKvRows == {[id |-> "kv", words |-> {"where", "boat"}, fresh |-> TRUE, setting |-> TRUE, nested |-> FALSE]}
McTurns == {[id |-> "t1", words |-> {"A"}, fresh |-> FALSE], [id |-> "t2", words |-> {"A", "owns"}, fresh |-> FALSE]}
McHappenings == {[id |-> "e1", words |-> {"B"}, fresh |-> FALSE]}

McQueries ==
  {<<"where", "A">>, <<"first", "A", "owns">>, <<"A", "before", "C">>, <<"A", "after", "B">>,
   <<"where", "A", "all">>}

QueryRest == /\ docTable = <<>> /\ relTable = {} /\ asking = NoQuery /\ outcome = NoOutcome
             /\ unmoved = {} /\ edits = 0 /\ losses = 0

McInit ==
  /\ Init
  /\ \/ focus = "store" /\ QueryRest
     \/ focus = "query" /\ NqInit

QueryOver == outcome # NoOutcome \/ (asking = NoQuery /\ losses > 0)

(* A query is followed until it is answered or has failed: what is written or
   asked later is no part of it, and another behaviour starts with it. *)
McNext ==
  \/ focus = "store" /\ Next /\ UNCHANGED <<nqVars, focus>>
  \/ focus = "query" /\ ~QueryOver /\ NqNext /\ UNCHANGED <<vars, focus>>

McSpec == McInit /\ [][McNext]_mcVars

(* The last write stays, and a query is answered from what was there. *)
StoreSound ==
  /\ focus = "store" => WritesLast
  /\ focus = "query" => QuerySound

Symmetry == Permutations(Procs) \cup Permutations(Keys) \cup Permutations(Contents)
=============================================================================
