------------------------------ MODULE MCSources ------------------------------
(***************************************************************************)
(* One run for source syncing: the connector funnel, the registry with its *)
(* dispatcher and scheduler, and what a connection remembers between runs. *)
(* They share no state here, so a behaviour is about one of them and the   *)
(* others rest.                                                            *)
(***************************************************************************)
EXTENDS ConnectorTree, SourceSync, SyncBudget

VARIABLE focus

mcVars == <<ctVars, ssVars, sbVars, focus>>

(* The items that can be ingested are interchangeable: the stored ones come in
   one order, the poisoned one anywhere among them, and the legacy namespace has the
   first of them. *)
FirstItem == CHOOSE i \in Items \ Poison : TRUE
OneOrder ==
  \A c \in Registered : \A k, l \in DOMAIN docs[c] :
    docs[c][k] = FirstItem /\ docs[c][l] \notin Poison => k <= l
OldLegacy == Range(docs[Legacy]) \subseteq {FirstItem}

(* Runs and ticks only read the registry, and the migration is one more edit to them:
   beside them the registry changes once, by one of its operations. *)
NoMigrationBeside == migrator' = NoMigration /\ edits' <= 1

Init == CtInit /\ OneOrder /\ OldLegacy /\ SsInit /\ SbInit /\ focus \in {"tree", "registry", "sync", "budget"}
        /\ (focus \notin {"registry", "sync"} => registry = [s \in Sources |-> NoEntry])
        /\ (focus # "tree" => docs = [ns \in Spaces |-> <<>>])

Next ==
  /\ \/ focus = "tree" /\ CtNext /\ UNCHANGED <<ssVars, sbVars>>
     \/ focus = "registry" /\ (RegistryStep \/ Restart) /\ UNCHANGED <<ctVars, sbVars>>
     \/ focus = "sync" /\ SsNext /\ NoMigrationBeside /\ UNCHANGED <<ctVars, sbVars>>
     \/ focus = "budget" /\ SbNext /\ UNCHANGED <<ctVars, ssVars>>
  /\ UNCHANGED focus

Spec == Init /\ [][Next]_mcVars /\ CtFairness
=============================================================================
