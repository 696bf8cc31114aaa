------------------------------ MODULE MCEngine ------------------------------
(***************************************************************************)
(* The background work of the engine checked in one run: the knowledge     *)
(* graph, the summary-tree pipeline and the embedding writes.  They share  *)
(* no state here, so a behaviour works on one of them.                     *)
(***************************************************************************)
EXTENDS KnowledgeGraph, TreePipeline, EmbeddingWrites, TLC

VARIABLE focus   \* the part this behaviour works on

vars == <<kgVars, tpVars, ebVars, focus>>

(* Two chunks and one fault, or one chunk and two faults. *)
PipelineBounds == {<<Leaves, 1>>} \cup {<<{c}, 2>> : c \in Leaves}

TpRest == TpInit /\ ~notion /\ bound[1] = Leaves
EbRest == EbInit /\ settings = {} /\ daemon

(* Whether the daemon runs at the start matters to an embedder that asks it. *)

Init ==
  \/ focus = "graph"    /\ KgInit /\ TpRest /\ EbRest
  \/ focus = "pipeline" /\ KgInit /\ TpInit /\ EbRest
  \/ focus = "embed"    /\ KgInit /\ TpRest /\ EbInit /\ (daemon \/ "endpoint" \in settings)

Next ==
  \/ focus = "graph"    /\ KgNext /\ UNCHANGED <<tpVars, ebVars, focus>>
  \/ focus = "pipeline" /\ TpNext /\ UNCHANGED <<kgVars, ebVars, focus>>
  \/ focus = "embed"    /\ EbNext /\ UNCHANGED <<kgVars, tpVars, focus>>

Spec == Init /\ [][Next]_vars

(* The parts are independent, so one permutation may act on several of them:
   a swap of two documents swaps the two chunks, a swap of the deleters swaps
   the workers and the embedders. *)
Stirs(p, S) == \E x \in S : p[x] # x
Together(G, S, H, T) ==
  {f \in {p @@ q : p \in G, q \in H} : Stirs(f, S) <=> Stirs(f, T)}

Symmetry ==
  Together(Permutations(Docs), Docs, Permutations(Leaves), Leaves)
  \cup Together(Together(Permutations(Deleters), Deleters, Permutations(JobWorkers), JobWorkers), Deleters,
               Permutations(Embedders), Embedders)
=============================================================================
