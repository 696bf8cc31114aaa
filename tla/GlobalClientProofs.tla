-------------------------- MODULE GlobalClientProofs --------------------------
(***************************************************************************)
(* Proofs about GlobalClient, for any callers, workspaces and clients, and   *)
(* about the embedding state its clients share (EmbeddingWrites).            *)
(*                                                                          *)
(* That all paths converge is not inductive: one has to know of every call  *)
(* under way what it may still publish. A call about to rebind holds the    *)
(* cached client of its workspace; a call about to publish holds a live     *)
(* client built over its workspace that nobody else can publish.            *)
(***************************************************************************)
EXTENDS GlobalClient, EmbeddingWrites, FiniteSetTheorems, TLAPS

\* The slot is empty or holds the cached client of its workspace.
SlotInv ==
    \/ slot = Empty
    \/ /\ slot.ws \in Workspaces /\ slot.client \in Clients
       /\ cache[slot.ws] = slot.client

HandedInv == \A h \in handed : cache[h[1]] = h[2]

CacheInv ==
    \A w \in Workspaces : cache[w] # None => home[cache[w]] = w /\ cache[w] \in live

CallInv ==
    \A p \in Callers :
        /\ call[p].step # "idle" => call[p].ws \in Workspaces
        /\ call[p].step = "rebind" =>
              call[p].client \in Clients /\ cache[call[p].ws] = call[p].client
        /\ call[p].step = "publish" =>
              /\ call[p].client \in Clients
              /\ home[call[p].client] = call[p].ws
              /\ call[p].client \in live

\* No two calls are about to publish one client.
OwnInv ==
    \A p, q \in Callers :
        p # q /\ call[p].step = "publish" /\ call[q].step = "publish" =>
            call[p].client # call[q].client

IInv == TypeOK /\ SlotInv /\ HandedInv /\ CacheInv /\ CallInv /\ OwnInv

-----------------------------------------------------------------------------

\* Before the first call nothing is cached, handed out or under way.
LEMMA InitInv == Init => IInv
  BY ClientAssumption
  DEF Init, IInv, TypeOK, SlotInv, HandedInv, CacheInv, CallInv, OwnInv, Empty, Idle

\* What a step may do to cache, live, home and handed without harm: cached
\* clients stay, what is handed out or newly cached is cached and at home.
LEMMA StepInv == IInv /\ [Next]_vars => IInv'
<1> SUFFICES ASSUME IInv, [Next]_vars PROVE IInv'
  OBVIOUS
<1> USE ClientAssumption DEF IInv
<1>1. ASSUME NEW p \in Callers, NEW w \in Workspaces, InitReadSlot(p, w) PROVE IInv'
  BY <1>1 DEF InitReadSlot, Return, Goto, Call, TypeOK, SlotInv, HandedInv, CacheInv,
              CallInv, OwnInv, Empty, Idle
<1>2. ASSUME NEW p \in Callers, InitReadCache(p) PROVE IInv'
  <2> DEFINE w == call[p].ws
  <2>1. w \in Workspaces /\ cache[w] \in Clients \cup {None}
    BY <1>2 DEF InitReadCache, CallInv, TypeOK
  <2>2. CASE cache[w] # None
    BY <1>2, <2>1, <2>2 DEF InitReadCache, Return, Goto, Call, TypeOK, SlotInv, HandedInv, CacheInv,
       CallInv, OwnInv, Idle
  <2>3. CASE cache[w] = None
    BY <1>2, <2>1, <2>3 DEF InitReadCache, Goto, Call, TypeOK, SlotInv, HandedInv, CacheInv,
       CallInv, OwnInv, Idle
  <2> QED
    BY <2>2, <2>3
<1>3. ASSUME NEW p \in Callers, InitRebind(p) PROVE IInv'
  BY <1>3 DEF InitRebind, Return, Goto, Call, TypeOK, SlotInv, HandedInv, CacheInv,
              CallInv, OwnInv, Empty, Idle
<1>4. ASSUME NEW p \in Callers, NEW c \in Clients, Build(p, c) PROVE IInv'
  BY <1>4 DEF Build, Goto, Call, TypeOK, SlotInv, HandedInv, CacheInv,
              CallInv, OwnInv, Empty, Idle
<1>5. ASSUME NEW p \in Callers, InitBuildFails(p) PROVE IInv'
  BY <1>5 DEF InitBuildFails, TypeOK, SlotInv, HandedInv, CacheInv,
              CallInv, OwnInv, Empty, Idle
<1>6. ASSUME NEW p \in Callers, ResolveBuildFails(p) PROVE IInv'
  BY <1>6 DEF ResolveBuildFails, TypeOK, SlotInv, HandedInv, CacheInv,
              CallInv, OwnInv, Empty, Idle
<1>7. ASSUME NEW p \in Callers, InitPublish(p) PROVE IInv'
  BY <1>7 DEF InitPublish, Winner, Kept, Return, TypeOK, SlotInv, HandedInv, CacheInv,
              CallInv, OwnInv, Empty, Idle
<1>8. ASSUME NEW p \in Callers, NEW w \in Workspaces, ResolveReadSlot(p, w) PROVE IInv'
  BY <1>8 DEF ResolveReadSlot, Winner, Return, Goto, Call, TypeOK, SlotInv, HandedInv, CacheInv,
              CallInv, OwnInv, Empty, Idle
<1>9. ASSUME NEW p \in Callers, ResolveReadCache(p) PROVE IInv'
  <2> DEFINE w == call[p].ws
  <2>1. w \in Workspaces /\ cache[w] \in Clients \cup {None}
    BY <1>9 DEF ResolveReadCache, CallInv, TypeOK
  <2>2. UNCHANGED <<slot, cache, home, live>>
    BY <1>9 DEF ResolveReadCache
  <2>3. CASE cache[w] # None
    <3>1. call' = [call EXCEPT ![p] = Idle] /\ handed' = handed \cup {<<w, cache[w]>>}
      BY <1>9, <2>3 DEF ResolveReadCache, Return
    <3>2. TypeOK' /\ SlotInv' /\ CacheInv'
      BY <2>1, <2>2, <2>3, <3>1 DEF TypeOK, SlotInv, CacheInv, Idle
    <3>3. HandedInv'
      BY <2>2, <3>1 DEF HandedInv
    <3>4. CallInv' /\ OwnInv'
      BY <2>2, <3>1 DEF TypeOK, CallInv, OwnInv, Idle
    <3> QED
      BY <3>2, <3>3, <3>4
  <2>4. CASE cache[w] = None
    BY <1>9, <2>1, <2>4 DEF ResolveReadCache, Goto, Call, TypeOK, SlotInv, HandedInv, CacheInv,
       CallInv, OwnInv, Idle
  <2> QED
    BY <2>3, <2>4
<1>10. ASSUME NEW p \in Callers, ResolvePublish(p) PROVE IInv'
  BY <1>10 DEF ResolvePublish, Winner, Kept, Return, TypeOK, SlotInv, HandedInv, CacheInv,
              CallInv, OwnInv, Empty, Idle
<1>11. ASSUME NEW p \in Callers, NEW w \in Workspaces, NEW c \in Clients, BindBuild(p, w, c)
       PROVE IInv'
  BY <1>11 DEF BindBuild, Goto, Call, TypeOK, SlotInv, HandedInv, CacheInv,
              CallInv, OwnInv, Empty, Idle
<1>12. ASSUME NEW p \in Callers, BindPublish(p) PROVE IInv'
  BY <1>12 DEF BindPublish, Winner, Return, TypeOK, SlotInv, HandedInv, CacheInv,
              CallInv, OwnInv, Empty, Idle
<1>13. ASSUME ReadClient PROVE IInv'
  BY <1>13 DEF ReadClient, TypeOK, SlotInv, HandedInv, CacheInv, CallInv, OwnInv, Empty, Idle
<1>14. ASSUME UNCHANGED vars PROVE IInv'
  BY <1>14 DEF vars, TypeOK, SlotInv, HandedInv, CacheInv, CallInv, OwnInv
<1> QED
  BY <1>1, <1>2, <1>3, <1>4, <1>5, <1>6, <1>7, <1>8, <1>9, <1>10, <1>11, <1>12, <1>13, <1>14
  DEF Next

\* The inductive invariant holds in every behaviour.
THEOREM Invariance == Spec => []IInv
<1>1. Init => IInv
  BY InitInv
<1>2. IInv /\ [Next]_vars => IInv'
  BY StepInv
<1> QED
  BY <1>1, <1>2, PTL DEF Spec

\* Types are kept by every entry point; a reader never gets an empty handle.
THEOREM TypeCorrect == Spec => []TypeOK
<1>1. IInv => TypeOK
  BY DEF IInv
<1> QED
  BY <1>1, Invariance, PTL

\* init, client_for_workspace, bind and the readers of the slot converge on
\* one client per workspace, however many callers race.
THEOREM Convergence == Spec => []OneClientPerWorkspace
<1>1. IInv => OneClientPerWorkspace
  BY DEF IInv, HandedInv, OneClientPerWorkspace
<1> QED
  BY <1>1, Invariance, PTL

\* The slot never holds a client the cache does not.
THEOREM SlotCorrect == Spec => []SlotIsCached
<1>1. IInv => SlotIsCached
  BY ClientAssumption DEF IInv, SlotInv, SlotIsCached
<1> QED
  BY <1>1, Invariance, PTL

\* Nobody is handed the client of another workspace.
THEOREM HomeCorrect == Spec => []ClientsStayHome
<1>1. IInv => ClientsStayHome
  <2> SUFFICES ASSUME IInv PROVE ClientsStayHome
    OBVIOUS
  <2>1. \A h \in handed : h[1] \in Workspaces /\ h[2] \in Clients
    BY DEF IInv, TypeOK
  <2> QED
    BY <2>1, ClientAssumption DEF IInv, HandedInv, CacheInv, ClientsStayHome
<1> QED
  BY <1>1, Invariance, PTL

\* A cached client is never replaced, nor is its worker dropped.
THEOREM CacheCorrect == Spec => CacheIsStable
<1> DEFINE Stable == \A w \in Workspaces :
                        cache[w] # None => cache'[w] = cache[w] /\ cache[w] \in live'
<1>1. IInv /\ IInv' /\ [Next]_vars => [Stable]_vars
  <2> SUFFICES ASSUME IInv, IInv', [Next]_vars, NEW w \in Workspaces, cache[w] # None
               PROVE cache'[w] = cache[w] /\ cache[w] \in live'
    OBVIOUS
  <2>1. cache'[w] = cache[w]
    BY DEF IInv, TypeOK, Next, vars, InitReadSlot, InitReadCache, InitRebind, Build,
       InitBuildFails, ResolveBuildFails, InitPublish, ResolveReadSlot, ResolveReadCache,
       ResolvePublish, BindBuild, BindPublish, ReadClient, Winner
  <2> QED
    BY <2>1 DEF IInv, CacheInv
<1>2. Spec => [][Stable]_vars
  BY <1>1, Invariance, PTL DEF Spec
<1> QED
  BY <1>2 DEF CacheIsStable

\* The four facts together: every entry point resolves to the cached client of
\* its own workspace.
THEOREM ClientsCorrect == Spec => []ClientsSound
BY TypeCorrect, Convergence, SlotCorrect, HomeCorrect, PTL DEF ClientsSound

-----------------------------------------------------------------------------
(* Embedding.  The flag, its cause and the announcement claim are three     *)
(* atomics.  A task in the middle of a clear has the flag down, or a mark    *)
(* ran into it; a task about to raise the flag has left a cause, or a clear  *)
(* ran into it.  While the claim is taken, whoever has built its embedder    *)
(* was told of the outage or somebody is about to tell everyone.             *)

Rows == ChunkRows \cup SummaryRows

TaskRec ==
  [at : EmbedAt, kind : {"reembed", "seal", "open"}, ids : SUBSET Rows, got : SUBSET Rows,
   all : SUBSET Rows, won : BOOLEAN, heard : BOOLEAN]

EbTyped ==
  /\ settings \subseteq Rungs /\ daemon \in BOOLEAN
  /\ embeddable \subseteq Rows
  /\ \A v \in vectors \cup skipped : v[2] \in Rows
  /\ doing \in [Embedders -> TaskRec]
  /\ reason \in {"", "local_model_unavailable", "embeddings_unconfigured"}
  /\ turns \in Nat /\ unhealthy \in Nat

\* Only who finds the latch clear reports.
ReportedOnce == unhealthy = 0 \/ (gate /\ unhealthy = 1)

\* A task that is clearing has the flag down.
ClearedFirst == (\E t \in Embedders : doing[t].at \in Clearing) => ~recall \/ mixed

\* A task about to raise the flag has left its cause.
CauseFirst == (\E t \in Embedders : doing[t].at \in {"recall", "degraded"}) => reason # "" \/ mixed

\* Without a provider, and only then, a task takes the unconfigured way.
UnconfiguredOnly ==
  \A t \in Embedders : doing[t].at \in {"unconfigured", "degraded"} => choice = "no_provider"

SomeoneTells == \E u \in Embedders : doing[u].won

WinnersTell == \A t \in Embedders : doing[t].won => doing[t].at \in {"reason", "recall"}

\* Who has built its embedder, or failed since, hears of an outage that is claimed.
ClaimIsHeard ==
  \A t \in Embedders :
    \/ doing[t].at \in {"embed", "claim"} /\ surfaced
    \/ doing[t].at \in {"reason", "recall"}
    => doing[t].heard \/ SomeoneTells

\* The rows of a batch are still to be embedded, embedded, or skipped.
BatchAccounted ==
  \A t \in Embedders : doing[t].kind = "reembed" =>
    \A r \in doing[t].all :
      r \in doing[t].ids \cup doing[t].got \/ <<active, r>> \in skipped \cup unsaved

EbInv ==
  /\ EbTyped /\ ReportedOnce /\ SkippedForGood /\ DegradedNamesCause
  /\ ClearedFirst /\ CauseFirst /\ UnconfiguredOnly
  /\ WinnersTell /\ ClaimIsHeard /\ BatchAccounted

LEMMA OffTask ==
  /\ Off \in TaskRec /\ Off.at = "idle" /\ Off.kind = "reembed" /\ Off.ids = {} /\ Off.got = {} /\ Off.all = {}
  /\ ~Off.won /\ ~Off.heard
BY DEF Off, TaskRec, EmbedAt

\* Task t goes to a.
LEMMA AtStep ==
  ASSUME EbInv, NEW t \in Embedders, NEW a \in EmbedAt, Goes(t, a)
  PROVE  /\ doing' \in [Embedders -> TaskRec]
         /\ \A u \in Embedders : u # t => doing'[u] = doing[u]
         /\ doing'[t].at = a /\ doing'[t].kind = doing[t].kind /\ doing'[t].ids = doing[t].ids
         /\ doing'[t].got = doing[t].got /\ doing'[t].all = doing[t].all
         /\ doing'[t].won = doing[t].won /\ doing'[t].heard = doing[t].heard
BY DEF EbInv, EbTyped, Goes, TaskRec

\* Task t is replaced.
LEMMA PutStep ==
  ASSUME EbInv, NEW t \in Embedders, NEW h \in TaskRec, doing' = [doing EXCEPT ![t] = h]
  PROVE  /\ doing' \in [Embedders -> TaskRec] /\ doing'[t] = h
         /\ \A u \in Embedders : u # t => doing'[u] = doing[u]
BY DEF EbInv, EbTyped

LEMMA RowOfPair ==
  ASSUME EbInv
  PROVE  /\ \A v \in vectors \cup skipped : v[2] \in Rows
         /\ \A sig : \A r \in Rows : <<sig, r>>[2] \in Rows
BY DEF EbInv, EbTyped

LEMMA AllOffStep ==
  ASSUME doing' = [t \in Embedders |-> Off]
  PROVE  doing' \in [Embedders -> TaskRec] /\ \A t \in Embedders : doing'[t] = Off
BY OffTask

\* The initial state.
LEMMA EbInitial == ASSUME EbInit PROVE EbInv
<1>1. doing \in [Embedders -> TaskRec] /\ \A t \in Embedders : doing[t] = Off
  BY OffTask DEF EbInit
<1>2. \A t \in Embedders : doing[t].at = "idle" /\ doing[t].all = {} /\ ~doing[t].won
  BY <1>1, OffTask
<1>3. daemon \in BOOLEAN /\ ~recall /\ ~gate
  BY DEF EbInit
<1>4. settings \subseteq Rungs
  BY DEF EbInit, Rungs
<1>5. EbTyped
  BY <1>1, <1>3, <1>4 DEF EbInit, EbTyped
<1>6. ReportedOnce /\ SkippedForGood /\ DegradedNamesCause
  <2>1. unhealthy = 0 /\ skipped = {}
    BY DEF EbInit
  <2> QED BY <1>3, <2>1 DEF ReportedOnce, SkippedForGood, DegradedNamesCause
<1>7. ClearedFirst /\ CauseFirst /\ UnconfiguredOnly /\ WinnersTell /\ ClaimIsHeard /\ BatchAccounted
  BY <1>2 DEF ClearedFirst, Clearing, CauseFirst, UnconfiguredOnly, WinnersTell, ClaimIsHeard, BatchAccounted
<1> QED BY <1>5, <1>6, <1>7 DEF EbInv

-----------------------------------------------------------------------------
(* The steps. *)

\* What is left when one task moves on and no flag changes.
TasksSound ==
  ClearedFirst /\ CauseFirst /\ UnconfiguredOnly /\ WinnersTell /\ ClaimIsHeard /\ BatchAccounted

LEMMA TaskMoves ==
  ASSUME EbInv, NEW t \in Embedders, NEW h, doing'[t] = h,
         \A u \in Embedders : u # t => doing'[u] = doing[u],
         UNCHANGED <<settings, recall, reason, surfaced, mixed>>,
         skipped \subseteq skipped', unsaved \subseteq unsaved',
         h.at \in Clearing => doing[t].at \in Clearing,
         h.at \in {"recall", "degraded"} => reason # "" \/ mixed,
         h.at \in {"unconfigured", "degraded"} => choice = "no_provider",
         h.won <=> doing[t].won,
         h.won => h.at \in {"reason", "recall"},
         (h.at \in {"embed", "claim"} /\ surfaced) \/ h.at \in {"reason", "recall"} => h.heard \/ SomeoneTells,
         h.kind = "reembed" =>
           \A r \in h.all : r \in h.ids \cup h.got \/ <<active, r>> \in skipped' \cup unsaved'
  PROVE  TasksSound'
<1>1. active' = active /\ choice' = choice
  BY DEF active, choice
<1>2. SomeoneTells' <=> SomeoneTells
  BY DEF SomeoneTells
<1>3. ClearedFirst'
  BY DEF EbInv, ClearedFirst
<1>4. CauseFirst'
  BY DEF EbInv, CauseFirst
<1>5. UnconfiguredOnly'
  BY <1>1 DEF EbInv, UnconfiguredOnly
<1>6. WinnersTell'
  BY DEF EbInv, WinnersTell
<1>7. ClaimIsHeard'
  BY <1>2 DEF EbInv, ClaimIsHeard
<1>8. BatchAccounted'
  BY <1>1 DEF EbInv, BatchAccounted
<1> QED BY <1>3, <1>4, <1>5, <1>6, <1>7, <1>8 DEF TasksSound

\* What a batch is, and that it is of rows.
LEMMA BatchForm ==
  ASSUME NEW b \in Batches
  PROVE  \E C \in kSubset(ChunkShare, Uncovered(ChunkRows)) :
           \E S \in kSubset(SummaryShare, Uncovered(SummaryRows)) : b = <<C, S>>
BY DEF Batches

LEMMA BatchRows == ASSUME NEW b \in Batches PROVE b[1] \subseteq Rows /\ b[2] \subseteq Rows
<1>1. PICK C \in kSubset(ChunkShare, Uncovered(ChunkRows)) :
        \E S \in kSubset(SummaryShare, Uncovered(SummaryRows)) : b = <<C, S>>
  BY BatchForm
<1>2. PICK S \in kSubset(SummaryShare, Uncovered(SummaryRows)) : b = <<C, S>>
  BY <1>1
<1>3. C \subseteq ChunkRows /\ S \subseteq SummaryRows
  BY DEF kSubset, Uncovered
<1> QED BY <1>2, <1>3 DEF Rows

LEMMA BeginBatchStep == ASSUME EbInv, NEW t \in Embedders, BeginBatch(t) PROVE EbInv'
<1>1. PICK b \in Batches :
        doing' = [doing EXCEPT ![t] =
                    [Off EXCEPT !.kind = "reembed", !.ids = b[1] \cup b[2], !.all = b[1] \cup b[2],
                                !.at = IF choice = "no_provider" THEN "unconfigured" ELSE "clear"]]
  BY DEF BeginBatch
<1>2. PICK a : a = IF choice = "no_provider" THEN "unconfigured" ELSE "clear"
  OBVIOUS
<1>3. a \in EmbedAt
  BY <1>2 DEF EmbedAt
<1>4. PICK R : R = b[1] \cup b[2]
  OBVIOUS
<1>5. R \in SUBSET Rows
  BY <1>1, <1>4, BatchRows
<1>6. PICK h : h = [Off EXCEPT !.kind = "reembed", !.ids = R, !.all = R, !.at = a]
  OBVIOUS
<1>7. h \in TaskRec /\ h.at = a /\ h.kind = "reembed" /\ h.ids = R /\ h.all = R /\ ~h.won
  BY <1>3, <1>5, <1>6 DEF Off, TaskRec
<1>8. doing' = [doing EXCEPT ![t] = h]
  BY <1>1, <1>2, <1>4, <1>6
<1>9. /\ doing' \in [Embedders -> TaskRec] /\ doing'[t] = h
      /\ \A u \in Embedders : u # t => doing'[u] = doing[u]
  BY <1>7, <1>8, PutStep
<1>10. /\ UNCHANGED <<settings, daemon, embeddable, vectors, skipped, turns, unsaved, unhealthy, definite>>
       /\ UNCHANGED <<recall, reason, surfaced, gate, mixed>>
       /\ doing[t].at = "idle"
  BY DEF BeginBatch, flags, seen, Task
<1>11. ~doing[t].won
  BY <1>10 DEF EbInv, WinnersTell
<1>12. TasksSound'
  BY <1>2, <1>7, <1>9, <1>10, <1>11, TaskMoves DEF Clearing
<1> QED BY <1>9, <1>10, <1>12 DEF EbInv, EbTyped, ReportedOnce, SkippedForGood, DegradedNamesCause, TasksSound

LEMMA BeginSealStep == ASSUME EbInv, NEW t \in Embedders, NEW r \in Rows, BeginSeal(t, r) PROVE EbInv'
<1>2. PICK a : a = IF choice = "no_provider" THEN "unconfigured" ELSE "clear"
  OBVIOUS
<1>3. a \in EmbedAt
  BY <1>2 DEF EmbedAt
<1>6. PICK h : h = [Off EXCEPT !.kind = "seal", !.ids = {r}, !.at = a]
  OBVIOUS
<1>7. h \in TaskRec /\ h.at = a /\ h.kind = "seal" /\ ~h.won
  BY <1>3, <1>6 DEF Off, TaskRec
<1>8. doing' = [doing EXCEPT ![t] = h]
  BY <1>2, <1>6 DEF BeginSeal
<1>9. /\ doing' \in [Embedders -> TaskRec] /\ doing'[t] = h
      /\ \A u \in Embedders : u # t => doing'[u] = doing[u]
  BY <1>7, <1>8, PutStep
<1>10. /\ UNCHANGED <<settings, daemon, embeddable, vectors, skipped, turns, unsaved, unhealthy, definite>>
       /\ UNCHANGED <<recall, reason, surfaced, gate, mixed>>
       /\ doing[t].at = "idle"
  BY DEF BeginSeal, flags, seen, Task
<1>11. ~doing[t].won
  BY <1>10 DEF EbInv, WinnersTell
<1>12. TasksSound'
  BY <1>2, <1>7, <1>9, <1>10, <1>11, TaskMoves DEF Clearing
<1> QED BY <1>9, <1>10, <1>12 DEF EbInv, EbTyped, ReportedOnce, SkippedForGood, DegradedNamesCause, TasksSound

LEMMA OpenStep == ASSUME EbInv, NEW t \in Embedders, OpenProbes(t) PROVE EbInv'
<1>6. PICK h : h = [Off EXCEPT !.kind = "open", !.at = "report"]
  OBVIOUS
<1>7. h \in TaskRec /\ h.at = "report" /\ h.kind = "open" /\ ~h.won
  BY <1>6 DEF Off, TaskRec, EmbedAt
<1>8. doing' = [doing EXCEPT ![t] = h]
  BY <1>6 DEF OpenProbes
<1>9. /\ doing' \in [Embedders -> TaskRec] /\ doing'[t] = h
      /\ \A u \in Embedders : u # t => doing'[u] = doing[u]
  BY <1>7, <1>8, PutStep
<1>10. /\ UNCHANGED <<settings, daemon, embeddable, vectors, skipped, unsaved, unhealthy, definite>>
       /\ UNCHANGED <<recall, reason, surfaced, gate, mixed>>
       /\ doing[t].at = "idle" /\ turns' = turns + 1
  BY DEF OpenProbes, flags, seen, Task, Turn
<1>11. ~doing[t].won
  BY <1>10 DEF EbInv, WinnersTell
<1>12. TasksSound'
  BY <1>7, <1>9, <1>10, <1>11, TaskMoves DEF Clearing
<1>13. turns' \in Nat
  <2>1. turns \in Nat
    BY DEF EbInv, EbTyped
  <2>2. turns' = turns + 1
    BY DEF OpenProbes, Turn
  <2> QED BY <2>1, <2>2
<1>14. EbTyped'
  BY <1>9, <1>10, <1>13 DEF EbInv, EbTyped
<1> QED BY <1>10, <1>12, <1>14 DEF EbInv, ReportedOnce, SkippedForGood, DegradedNamesCause, TasksSound

\* A task that ends without having claimed the announcement.
LEMMA EndStep ==
  ASSUME EbInv, NEW t \in Embedders, Ends(t), ~doing[t].won,
         UNCHANGED <<settings, recall, reason, surfaced, mixed>>,
         skipped \subseteq skipped', unsaved \subseteq unsaved'
  PROVE  TasksSound' /\ doing' \in [Embedders -> TaskRec]
<1>1. /\ doing' \in [Embedders -> TaskRec] /\ doing'[t] = Off
      /\ \A u \in Embedders : u # t => doing'[u] = doing[u]
  BY PutStep, OffTask DEF Ends
<1>2. Off.at = "idle" /\ Off.all = {} /\ ~Off.won
  BY OffTask
<1> QED BY <1>1, <1>2, TaskMoves DEF Clearing

LEMMA ReportStep == ASSUME EbInv, NEW t \in Embedders, report_ollama_health_gate_once(t) PROVE EbInv'
<1>1. /\ UNCHANGED <<settings, daemon, embeddable, vectors, skipped, turns, unsaved, definite>>
      /\ UNCHANGED <<recall, reason, surfaced, mixed>>
      /\ doing[t].at = "report" /\ Ends(t)
  BY DEF report_ollama_health_gate_once, Task
<1>2. ~doing[t].won
  BY <1>1 DEF EbInv, WinnersTell
<1>3. TasksSound' /\ doing' \in [Embedders -> TaskRec]
  BY <1>1, <1>2, EndStep
<1>4. gate' /\ unhealthy' = IF ~gate THEN unhealthy + 1 ELSE unhealthy
  BY DEF report_ollama_health_gate_once, GateWon
<1>5. ReportedOnce' /\ unhealthy' \in Nat
  <2>1. unhealthy = 0 \/ (gate /\ unhealthy = 1)
    BY DEF EbInv, ReportedOnce
  <2>2. unhealthy' = 0 \/ unhealthy' = 1
    BY <2>1, <1>4
  <2> QED BY <1>4, <2>2 DEF ReportedOnce
<1> QED BY <1>1, <1>3, <1>5 DEF EbInv, EbTyped, SkippedForGood, DegradedNamesCause, TasksSound

\* A task whose embedding failed for want of the local runtime.
LEMMA ClaimStep ==
  ASSUME EbInv, NEW t \in Embedders, Goes(t, "claim"), doing[t].at = "embed",
         UNCHANGED <<settings, daemon, embeddable, vectors, skipped, turns, unsaved, unhealthy, definite>>,
         UNCHANGED <<recall, reason, surfaced, gate, mixed>>
  PROVE  EbInv'
<1>1. "claim" \in EmbedAt
  BY DEF EmbedAt
<1>2. /\ doing' \in [Embedders -> TaskRec]
      /\ \A u \in Embedders : u # t => doing'[u] = doing[u]
      /\ doing'[t].at = "claim" /\ doing'[t].kind = doing[t].kind /\ doing'[t].ids = doing[t].ids
      /\ doing'[t].got = doing[t].got /\ doing'[t].all = doing[t].all
      /\ doing'[t].won = doing[t].won /\ doing'[t].heard = doing[t].heard
  BY <1>1, AtStep
<1>3. ~doing[t].won
  BY DEF EbInv, WinnersTell
<1>4. surfaced => doing[t].heard \/ SomeoneTells
  BY DEF EbInv, ClaimIsHeard
<1>5. doing[t].kind = "reembed" =>
        \A q \in doing[t].all : q \in doing[t].ids \cup doing[t].got \/ <<active, q>> \in skipped \cup unsaved
  BY DEF EbInv, BatchAccounted
<1>6. TasksSound'
  BY <1>2, <1>3, <1>4, <1>5, TaskMoves DEF Clearing
<1> QED BY <1>2, <1>6 DEF EbInv, EbTyped, ReportedOnce, SkippedForGood, DegradedNamesCause, TasksSound

\* A seal that has its vector.
LEMMA SealedStep ==
  ASSUME EbInv, NEW t \in Embedders, Goes(t, "sealed"), doing[t].at = "embed",
         UNCHANGED <<settings, daemon, embeddable, vectors, skipped, turns, unsaved, unhealthy, definite>>,
         UNCHANGED <<recall, reason, surfaced, gate, mixed>>
  PROVE  EbInv'
<1>1. "sealed" \in EmbedAt
  BY DEF EmbedAt
<1>2. /\ doing' \in [Embedders -> TaskRec]
      /\ \A u \in Embedders : u # t => doing'[u] = doing[u]
      /\ doing'[t].at = "sealed" /\ doing'[t].kind = doing[t].kind /\ doing'[t].ids = doing[t].ids
      /\ doing'[t].got = doing[t].got /\ doing'[t].all = doing[t].all
      /\ doing'[t].won = doing[t].won /\ doing'[t].heard = doing[t].heard
  BY <1>1, AtStep
<1>3. ~doing[t].won
  BY DEF EbInv, WinnersTell
<1>4. doing[t].kind = "reembed" =>
        \A q \in doing[t].all : q \in doing[t].ids \cup doing[t].got \/ <<active, q>> \in skipped \cup unsaved
  BY DEF EbInv, BatchAccounted
<1>5. TasksSound'
  BY <1>2, <1>3, <1>4, TaskMoves DEF Clearing
<1> QED BY <1>2, <1>5 DEF EbInv, EbTyped, ReportedOnce, SkippedForGood, DegradedNamesCause, TasksSound

LEMMA CollectStep == ASSUME EbInv, NEW t \in Embedders, NEW r \in Rows, reembed_collect(t, r) PROVE EbInv'
<1>1. /\ UNCHANGED <<settings, daemon, embeddable, vectors, turns, unhealthy>>
      /\ UNCHANGED <<recall, reason, surfaced, gate, mixed>>
      /\ doing[t].at = "embed" /\ doing[t].kind = "reembed" /\ r \in doing[t].ids
  BY DEF reembed_collect, flags, Task
<1>2. ~doing[t].won /\ doing[t] \in TaskRec /\ doing \in [Embedders -> TaskRec]
  BY <1>1 DEF EbInv, WinnersTell, EbTyped
<1>3. surfaced => doing[t].heard \/ SomeoneTells
  BY <1>1 DEF EbInv, ClaimIsHeard
<1>4. \A q \in doing[t].all : q \in doing[t].ids \cup doing[t].got \/ <<active, q>> \in skipped \cup unsaved
  BY <1>1 DEF EbInv, BatchAccounted
<1>5. ASSUME UNCHANGED <<skipped, definite, unsaved>>,
             doing' = [doing EXCEPT ![t].ids = @ \ {r}, ![t].got = @ \cup {r}]
      PROVE  EbInv'
  <2>1. PICK h : h = [doing[t] EXCEPT !.ids = @ \ {r}, !.got = @ \cup {r}]
    OBVIOUS
  <2>2. /\ h \in TaskRec /\ h.at = "embed" /\ h.kind = "reembed" /\ h.ids = doing[t].ids \ {r}
        /\ h.got = doing[t].got \cup {r} /\ h.all = doing[t].all /\ h.heard = doing[t].heard /\ h.won = doing[t].won
    BY <1>1, <1>2, <2>1 DEF TaskRec
  <2>3. doing' = [doing EXCEPT ![t] = h]
    BY <1>2, <1>5, <2>1
  <2>4. /\ doing' \in [Embedders -> TaskRec] /\ doing'[t] = h
        /\ \A u \in Embedders : u # t => doing'[u] = doing[u]
    BY <2>2, <2>3, PutStep
  <2>5. TasksSound'
    BY <1>1, <1>2, <1>3, <1>4, <1>5, <2>2, <2>4, TaskMoves DEF Clearing
  <2> QED BY <1>1, <1>5, <2>4, <2>5
          DEF EbInv, EbTyped, ReportedOnce, SkippedForGood, DegradedNamesCause, TasksSound
<1>6. ASSUME doing' = [doing EXCEPT ![t].ids = @ \ {r}], definite' = definite \cup {<<active, r>>},
             try_mark_reembed_skipped(r)
      PROVE  EbInv'
  <2>1. PICK h : h = [doing[t] EXCEPT !.ids = @ \ {r}]
    OBVIOUS
  <2>2. /\ h \in TaskRec /\ h.at = "embed" /\ h.kind = "reembed" /\ h.ids = doing[t].ids \ {r}
        /\ h.got = doing[t].got /\ h.all = doing[t].all /\ h.heard = doing[t].heard /\ h.won = doing[t].won
    BY <1>1, <1>2, <2>1 DEF TaskRec
  <2>3. doing' = [doing EXCEPT ![t] = h]
    BY <1>2, <1>6, <2>1
  <2>4. /\ doing' \in [Embedders -> TaskRec] /\ doing'[t] = h
        /\ \A u \in Embedders : u # t => doing'[u] = doing[u]
    BY <2>2, <2>3, PutStep
  <2>5. /\ skipped \subseteq skipped' /\ unsaved \subseteq unsaved' /\ <<active, r>> \in skipped' \cup unsaved'
        /\ skipped' \subseteq skipped \cup {<<active, r>>}
    BY <1>6 DEF try_mark_reembed_skipped
  <2>6. TasksSound'
    BY <1>1, <1>2, <1>3, <1>4, <2>2, <2>4, <2>5, TaskMoves DEF Clearing
  <2>7. SkippedForGood'
    BY <1>6, <2>5 DEF EbInv, SkippedForGood
  <2>8. \A v \in vectors' \cup skipped' : v[2] \in Rows
    BY <1>1, <2>5, RowOfPair
  <2> QED BY <1>1, <2>4, <2>6, <2>7, <2>8 DEF EbInv, EbTyped, ReportedOnce, DegradedNamesCause, TasksSound
<1>7. ASSUME Ends(t), UNCHANGED <<skipped, definite, unsaved>> PROVE EbInv'
  <2>1. TasksSound' /\ doing' \in [Embedders -> TaskRec]
    BY <1>1, <1>2, <1>7, EndStep
  <2> QED BY <1>1, <1>7, <2>1 DEF EbInv, EbTyped, ReportedOnce, SkippedForGood, DegradedNamesCause, TasksSound
<1>8. ASSUME Goes(t, "claim"), UNCHANGED <<skipped, definite, unsaved>> PROVE EbInv'
  BY <1>1, <1>2, <1>3, <1>4, <1>8, ClaimStep
<1> QED BY <1>5, <1>6, <1>7, <1>8 DEF reembed_collect, Definitive

LEMMA WriteBatchStep == ASSUME EbInv, NEW t \in Embedders, WriteBatch(t) PROVE EbInv'
<1>1. /\ UNCHANGED <<settings, daemon, embeddable, skipped, turns, unsaved, unhealthy, definite>>
      /\ UNCHANGED <<recall, reason, surfaced, gate, mixed>>
      /\ doing[t].at = "embed" /\ Ends(t) /\ vectors' = vectors \cup {<<active, r>> : r \in doing[t].got}
  BY DEF WriteBatch, flags, seen, Task
<1>2. ~doing[t].won /\ doing[t].got \subseteq Rows
  BY <1>1 DEF EbInv, WinnersTell, EbTyped, TaskRec
<1>3. TasksSound' /\ doing' \in [Embedders -> TaskRec]
  BY <1>1, <1>2, EndStep
<1>4. \A v \in vectors' \cup skipped' : v[2] \in Rows
  <2>1. ASSUME NEW v \in vectors' \cup skipped' PROVE v[2] \in Rows
    <3>1. CASE v \in vectors \cup skipped
      BY <3>1, RowOfPair
    <3>2. CASE v \notin vectors \cup skipped
      <4>1. PICK r \in Rows : v = <<active, r>>
        BY <1>1, <1>2, <3>2
      <4> QED BY <4>1
    <3> QED BY <3>1, <3>2
  <2> QED BY <2>1
<1> QED BY <1>1, <1>3, <1>4 DEF EbInv, EbTyped, ReportedOnce, SkippedForGood, DegradedNamesCause, TasksSound

LEMMA StoreSummaryStep == ASSUME EbInv, NEW t \in Embedders, StoreSummary(t) PROVE EbInv'
<1>1. /\ UNCHANGED <<settings, daemon, skipped, turns, unsaved, unhealthy, definite>>
      /\ UNCHANGED <<recall, reason, surfaced, gate, mixed>>
      /\ doing[t].at = "write" /\ Ends(t) /\ embeddable' = embeddable \cup doing[t].ids
      /\ vectors' \subseteq vectors \cup {<<active, r>> : r \in doing[t].ids}
  BY DEF StoreSummary, flags, seen, Task
<1>2. ~doing[t].won /\ doing[t].ids \subseteq Rows
  BY <1>1 DEF EbInv, WinnersTell, EbTyped, TaskRec
<1>3. TasksSound' /\ doing' \in [Embedders -> TaskRec]
  BY <1>1, <1>2, EndStep
<1>4. \A v \in vectors' \cup skipped' : v[2] \in Rows
  <2>1. ASSUME NEW v \in vectors' \cup skipped' PROVE v[2] \in Rows
    <3>1. CASE v \in vectors \cup skipped
      BY <3>1, RowOfPair
    <3>2. CASE v \notin vectors \cup skipped
      <4>1. PICK r \in Rows : v = <<active, r>>
        BY <1>1, <1>2, <3>2
      <4> QED BY <4>1
    <3> QED BY <3>1, <3>2
  <2> QED BY <2>1
<1> QED BY <1>1, <1>2, <1>3, <1>4 DEF EbInv, EbTyped, ReportedOnce, SkippedForGood, DegradedNamesCause, TasksSound

LEMMA SealEmbedsStep == ASSUME EbInv, NEW t \in Embedders, SealEmbeds(t) PROVE EbInv'
<1>1. /\ UNCHANGED <<settings, daemon, embeddable, vectors, skipped, turns, unsaved, unhealthy, definite>>
      /\ UNCHANGED <<recall, reason, surfaced, gate, mixed>>
      /\ doing[t].at = "embed" /\ doing[t].kind = "seal"
      /\ Goes(t, "sealed") \/ Goes(t, "claim") \/ Ends(t)
  BY DEF SealEmbeds, flags, seen, Task
<1>2. ~doing[t].won
  BY <1>1 DEF EbInv, WinnersTell
<1>3. surfaced => doing[t].heard \/ SomeoneTells
  BY <1>1 DEF EbInv, ClaimIsHeard
<1>4. CASE Goes(t, "sealed")
  BY <1>1, <1>2, <1>4, SealedStep
<1>5. CASE Goes(t, "claim")
  BY <1>1, <1>2, <1>3, <1>5, ClaimStep
<1>6. CASE Ends(t)
  <2>1. TasksSound' /\ doing' \in [Embedders -> TaskRec]
    BY <1>1, <1>2, <1>6, EndStep
  <2> QED BY <1>1, <2>1 DEF EbInv, EbTyped, ReportedOnce, SkippedForGood, DegradedNamesCause, TasksSound
<1> QED BY <1>1, <1>4, <1>5, <1>6

LEMMA ClearFlagStep == ASSUME EbInv, NEW t \in Embedders, ClearFlag(t) PROVE EbInv'
<1>1. /\ UNCHANGED <<settings, daemon, embeddable, vectors, skipped, turns, unsaved, unhealthy, definite>>
      /\ UNCHANGED <<reason, surfaced, gate>>
      /\ doing[t].at \in {"clear", "sealed"} /\ ~recall' /\ (mixed => mixed')
  BY DEF ClearFlag
<1>2. PICK a : a \in Clearing /\ Goes(t, a)
  BY DEF ClearFlag, Clearing
<1>3. a \in EmbedAt
  BY <1>2 DEF EmbedAt, Clearing
<1>4. /\ doing' \in [Embedders -> TaskRec]
      /\ \A u \in Embedders : u # t => doing'[u] = doing[u]
      /\ doing'[t].at = a /\ doing'[t].kind = doing[t].kind /\ doing'[t].ids = doing[t].ids
      /\ doing'[t].got = doing[t].got /\ doing'[t].all = doing[t].all
      /\ doing'[t].won = doing[t].won /\ doing'[t].heard = doing[t].heard
  BY <1>2, <1>3, AtStep
<1>5. active' = active /\ choice' = choice
  BY <1>1 DEF active, choice
<1>6. SomeoneTells' <=> SomeoneTells
  BY <1>4 DEF SomeoneTells
<1>7. ClearedFirst' /\ DegradedNamesCause'
  BY <1>1 DEF ClearedFirst, DegradedNamesCause
<1>8. CauseFirst'
  BY <1>1, <1>2, <1>4 DEF EbInv, CauseFirst, Clearing
<1>9. UnconfiguredOnly' /\ WinnersTell'
  BY <1>1, <1>2, <1>4, <1>5 DEF EbInv, UnconfiguredOnly, WinnersTell, Clearing
<1>10. ClaimIsHeard'
  BY <1>1, <1>2, <1>4, <1>6 DEF EbInv, ClaimIsHeard, Clearing
<1>11. BatchAccounted'
  BY <1>1, <1>4, <1>5 DEF EbInv, BatchAccounted
<1> QED BY <1>1, <1>4, <1>7, <1>8, <1>9, <1>10, <1>11 DEF EbInv, EbTyped, ReportedOnce, SkippedForGood

LEMMA ClearCauseStep == ASSUME EbInv, NEW t \in Embedders, ClearCause(t) PROVE EbInv'
<1>1. /\ UNCHANGED <<settings, daemon, embeddable, vectors, skipped, turns, unsaved, unhealthy, definite>>
      /\ UNCHANGED <<recall, surfaced, gate>>
      /\ doing[t].at \in Clearing /\ reason' = "" /\ (mixed => mixed')
      /\ OthersMark(t) => mixed'
  BY DEF ClearCause
<1>2. PICK a : a \in {"claim_free", "sealed_claim"} /\ Goes(t, a)
  BY DEF ClearCause
<1>3. a \in EmbedAt /\ a \notin Clearing /\ a \notin Marking
  BY <1>2 DEF EmbedAt, Clearing, Marking
<1>4. /\ doing' \in [Embedders -> TaskRec]
      /\ \A u \in Embedders : u # t => doing'[u] = doing[u]
      /\ doing'[t].at = a /\ doing'[t].kind = doing[t].kind /\ doing'[t].ids = doing[t].ids
      /\ doing'[t].got = doing[t].got /\ doing'[t].all = doing[t].all
      /\ doing'[t].won = doing[t].won /\ doing'[t].heard = doing[t].heard
  BY <1>2, <1>3, AtStep
<1>5. active' = active /\ choice' = choice
  BY <1>1 DEF active, choice
<1>6. SomeoneTells' <=> SomeoneTells
  BY <1>4 DEF SomeoneTells
<1>7. ~recall \/ mixed
  BY <1>1 DEF EbInv, ClearedFirst
<1>8. ClearedFirst' /\ DegradedNamesCause'
  BY <1>1, <1>7 DEF ClearedFirst, DegradedNamesCause
<1>9. CauseFirst'
  <2>1. ASSUME NEW u \in Embedders, doing'[u].at \in {"recall", "degraded"} PROVE mixed'
    <3>1. u # t /\ doing[u].at \in Marking
      BY <1>2, <1>4, <2>1 DEF Marking
    <3> QED BY <1>1, <3>1 DEF OthersMark
  <2> QED BY <2>1 DEF CauseFirst
<1>10. ~doing[t].won
  BY <1>1 DEF EbInv, WinnersTell, Clearing
<1>11. UnconfiguredOnly' /\ WinnersTell'
  BY <1>2, <1>4, <1>5, <1>10 DEF EbInv, UnconfiguredOnly, WinnersTell
<1>12. ClaimIsHeard'
  BY <1>1, <1>2, <1>4, <1>6 DEF EbInv, ClaimIsHeard
<1>13. BatchAccounted'
  BY <1>1, <1>4, <1>5 DEF EbInv, BatchAccounted
<1> QED BY <1>1, <1>4, <1>8, <1>9, <1>11, <1>12, <1>13 DEF EbInv, EbTyped, ReportedOnce, SkippedForGood

LEMMA ClearClaimStep == ASSUME EbInv, NEW t \in Embedders, ClearClaim(t) PROVE EbInv'
<1>1. /\ UNCHANGED <<settings, daemon, embeddable, vectors, skipped, turns, unsaved, unhealthy, definite>>
      /\ UNCHANGED <<recall, reason, gate, mixed>>
      /\ doing[t].at \in {"claim_free", "sealed_claim"} /\ ~surfaced'
  BY DEF ClearClaim, ClaimReleased, seen
<1>2. PICK a : a \in {"embed", "write"} /\ doing' = [doing EXCEPT ![t].heard = FALSE, ![t].at = a]
  BY DEF ClearClaim
<1>3. a \in EmbedAt /\ a \notin Clearing /\ a \notin Marking
  BY <1>2 DEF EmbedAt, Clearing, Marking
<1>4. doing \in [Embedders -> TaskRec] /\ ~doing[t].won
  BY <1>1 DEF EbInv, EbTyped, WinnersTell
<1>5. PICK h : h = [doing[t] EXCEPT !.heard = FALSE, !.at = a]
  OBVIOUS
<1>6. /\ h \in TaskRec /\ h.at = a /\ h.kind = doing[t].kind /\ h.ids = doing[t].ids
      /\ h.got = doing[t].got /\ h.all = doing[t].all /\ h.won = doing[t].won
  BY <1>3, <1>4, <1>5 DEF TaskRec
<1>7. doing' = [doing EXCEPT ![t] = h]
  BY <1>2, <1>4, <1>5
<1>8. /\ doing' \in [Embedders -> TaskRec] /\ doing'[t] = h
      /\ \A u \in Embedders : u # t => doing'[u] = doing[u]
  BY <1>6, <1>7, PutStep
<1>9. active' = active /\ choice' = choice
  BY <1>1 DEF active, choice
<1>10. SomeoneTells' <=> SomeoneTells
  BY <1>6, <1>8 DEF SomeoneTells
<1>11. DegradedNamesCause'
  BY <1>1 DEF EbInv, DegradedNamesCause
<1>12. ClearedFirst' /\ CauseFirst'
  BY <1>1, <1>2, <1>3, <1>6, <1>8 DEF EbInv, ClearedFirst, CauseFirst
<1>14. UnconfiguredOnly' /\ WinnersTell'
  BY <1>2, <1>4, <1>6, <1>8, <1>9 DEF EbInv, UnconfiguredOnly, WinnersTell
<1>15. ClaimIsHeard'
  BY <1>1, <1>2, <1>6, <1>8, <1>10 DEF EbInv, ClaimIsHeard
<1>16. BatchAccounted'
  BY <1>1, <1>6, <1>8, <1>9 DEF EbInv, BatchAccounted
<1> QED BY <1>1, <1>8, <1>11, <1>12, <1>14, <1>15, <1>16 DEF EbInv, EbTyped, ReportedOnce, SkippedForGood

LEMMA ClaimsStep == ASSUME EbInv, NEW t \in Embedders, Claims(t) PROVE EbInv'
<1>1. /\ UNCHANGED <<settings, daemon, embeddable, vectors, skipped, turns, unsaved, unhealthy, definite>>
      /\ UNCHANGED <<recall, reason, gate, mixed>>
      /\ doing[t].at = "claim"
  BY DEF Claims, seen, Task
<1>2. doing' = [doing EXCEPT ![t].at = "reason", ![t].won = ~surfaced]
  BY DEF Claims
<1>3. doing \in [Embedders -> TaskRec] /\ ~doing[t].won
  BY <1>1 DEF EbInv, EbTyped, WinnersTell
<1>4. PICK first \in BOOLEAN : first = ~surfaced
  OBVIOUS
<1>5. PICK h : h = [doing[t] EXCEPT !.at = "reason", !.won = first]
  OBVIOUS
<1>6. /\ h \in TaskRec /\ h.at = "reason" /\ h.kind = doing[t].kind /\ h.ids = doing[t].ids
      /\ h.got = doing[t].got /\ h.all = doing[t].all /\ h.won = first /\ h.heard = doing[t].heard
  BY <1>3, <1>5 DEF TaskRec, EmbedAt
<1>7. doing' = [doing EXCEPT ![t] = h]
  BY <1>2, <1>3, <1>4, <1>5
<1>8. /\ doing' \in [Embedders -> TaskRec] /\ doing'[t] = h
      /\ \A u \in Embedders : u # t => doing'[u] = doing[u]
  BY <1>6, <1>7, PutStep
<1>9. active' = active /\ choice' = choice
  BY <1>1 DEF active, choice
<1>10. ~surfaced => SomeoneTells'
  BY <1>4, <1>6, <1>8 DEF SomeoneTells
<1>11. SomeoneTells => SomeoneTells'
  BY <1>3, <1>8 DEF SomeoneTells
<1>12. ClearedFirst' /\ DegradedNamesCause' /\ CauseFirst'
  BY <1>1, <1>6, <1>8 DEF EbInv, ClearedFirst, DegradedNamesCause, CauseFirst, Clearing
<1>14. UnconfiguredOnly' /\ WinnersTell'
  BY <1>6, <1>8, <1>9 DEF EbInv, UnconfiguredOnly, WinnersTell
<1>15. ClaimIsHeard'
  <2>1. CASE ~surfaced
    BY <2>1, <1>10 DEF ClaimIsHeard
  <2>2. CASE surfaced
    BY <2>2, <1>1, <1>6, <1>8, <1>11 DEF EbInv, ClaimIsHeard
  <2> QED BY <2>1, <2>2
<1>16. BatchAccounted'
  BY <1>1, <1>6, <1>8, <1>9 DEF EbInv, BatchAccounted
<1> QED BY <1>1, <1>8, <1>12, <1>14, <1>15, <1>16 DEF EbInv, EbTyped, ReportedOnce, SkippedForGood

LEMMA MarksStep == ASSUME EbInv, NEW t \in Embedders, Marks(t) PROVE EbInv'
<1>1. /\ UNCHANGED <<settings, daemon, embeddable, vectors, skipped, turns, unsaved, unhealthy, definite>>
      /\ UNCHANGED <<recall, surfaced, gate, mixed>>
      /\ reason' \in {"local_model_unavailable", "embeddings_unconfigured"}
  BY DEF Marks, MarkCause, seen, Task
<1>2. \/ doing[t].at = "reason" /\ Goes(t, "recall")
      \/ doing[t].at = "unconfigured" /\ Goes(t, "degraded")
  BY DEF Marks, MarkCause, Task
<1>3. PICK a : /\ a \in {"recall", "degraded"} /\ Goes(t, a)
               /\ a = "recall" => doing[t].at = "reason"
               /\ a = "degraded" => doing[t].at = "unconfigured"
  BY <1>2
<1>4. a \in EmbedAt
  BY <1>3 DEF EmbedAt
<1>5. /\ doing' \in [Embedders -> TaskRec]
      /\ \A u \in Embedders : u # t => doing'[u] = doing[u]
      /\ doing'[t].at = a /\ doing'[t].kind = doing[t].kind /\ doing'[t].ids = doing[t].ids
      /\ doing'[t].got = doing[t].got /\ doing'[t].all = doing[t].all
      /\ doing'[t].won = doing[t].won /\ doing'[t].heard = doing[t].heard
  BY <1>3, <1>4, AtStep
<1>6. active' = active /\ choice' = choice
  BY <1>1 DEF active, choice
<1>7. SomeoneTells' <=> SomeoneTells
  BY <1>5 DEF SomeoneTells
<1>8. reason' # ""
  BY <1>1
<1>9. DegradedNamesCause' /\ CauseFirst'
  BY <1>8 DEF DegradedNamesCause, CauseFirst
<1>10. ClearedFirst'
  BY <1>1, <1>3, <1>5 DEF EbInv, ClearedFirst, Clearing
<1>11. UnconfiguredOnly' /\ WinnersTell'
  BY <1>1, <1>3, <1>5, <1>6 DEF EbInv, UnconfiguredOnly, WinnersTell
<1>12. ClaimIsHeard'
  BY <1>1, <1>3, <1>5, <1>7 DEF EbInv, ClaimIsHeard
<1>13. BatchAccounted'
  BY <1>1, <1>5, <1>6 DEF EbInv, BatchAccounted
<1> QED BY <1>1, <1>5, <1>9, <1>10, <1>11, <1>12, <1>13 DEF EbInv, EbTyped, ReportedOnce, SkippedForGood

\* Raising the flag tells every other task, if this one claimed the announcement.
LEMMA ToldStep ==
  ASSUME EbInv, NEW t \in Embedders, MarkFlag(t)
  PROVE  /\ doing' \in [Embedders -> TaskRec]
         /\ \/ doing'[t] = Off
            \/ /\ doing[t].at = "degraded" /\ doing[t].kind = "seal"
               /\ doing'[t].at = "write" /\ doing'[t].kind = "seal" /\ ~doing'[t].won
         /\ \A u \in Embedders : u # t =>
              /\ doing'[u].at = doing[u].at /\ doing'[u].kind = doing[u].kind /\ doing'[u].ids = doing[u].ids
              /\ doing'[u].got = doing[u].got /\ doing'[u].all = doing[u].all /\ (doing'[u].won <=> doing[u].won)
              /\ doing[u].heard => doing'[u].heard
              /\ doing[t].won /\ doing[u].at # "idle" => doing'[u].heard
<1>1. doing \in [Embedders -> TaskRec]
  BY DEF EbInv, EbTyped
<1>2. PICK next : /\ next = IF Task(t, "degraded") /\ doing[t].kind = "seal" THEN [doing[t] EXCEPT !.at = "write"] ELSE Off
                  /\ doing' = [u \in Embedders |->
                       IF u = t THEN next
                       ELSE [doing[u] EXCEPT !.heard = @ \/ (doing[t].won /\ doing[u].at # "idle")]]
  BY DEF MarkFlag
<1>3. next \in TaskRec /\ doing'[t] = next
  BY <1>1, <1>2, OffTask DEF TaskRec, EmbedAt
<1>4. \/ next = Off
      \/ /\ doing[t].at = "degraded" /\ doing[t].kind = "seal"
         /\ next.at = "write" /\ next.kind = "seal" /\ ~next.won
  <2>1. CASE Task(t, "degraded") /\ doing[t].kind = "seal"
    <3>1. ~doing[t].won
      BY <2>1 DEF EbInv, WinnersTell, Task
    <3> QED BY <1>1, <1>2, <2>1, <3>1 DEF Task, TaskRec
  <2> QED BY <1>2, <2>1
<1>5. ASSUME NEW u \in Embedders, u # t
      PROVE  /\ doing'[u] \in TaskRec
             /\ doing'[u].at = doing[u].at /\ doing'[u].kind = doing[u].kind /\ doing'[u].ids = doing[u].ids
             /\ doing'[u].got = doing[u].got /\ doing'[u].all = doing[u].all /\ (doing'[u].won <=> doing[u].won)
             /\ doing[u].heard => doing'[u].heard
             /\ doing[t].won /\ doing[u].at # "idle" => doing'[u].heard
  <2>1. PICK told \in BOOLEAN : told = (doing[u].heard \/ (doing[t].won /\ doing[u].at # "idle"))
    OBVIOUS
  <2>2. doing'[u] = [doing[u] EXCEPT !.heard = told]
    BY <1>2, <1>5, <2>1
  <2>3. /\ doing'[u] \in TaskRec /\ doing'[u].heard = told
        /\ doing'[u].at = doing[u].at /\ doing'[u].kind = doing[u].kind /\ doing'[u].ids = doing[u].ids
        /\ doing'[u].got = doing[u].got /\ doing'[u].all = doing[u].all /\ doing'[u].won = doing[u].won
    BY <1>1, <2>1, <2>2 DEF TaskRec
  <2> QED BY <2>1, <2>3
<1>6. doing' \in [Embedders -> TaskRec]
  <2>1. doing' = [u \in Embedders |-> doing'[u]]
    BY <1>2
  <2> QED BY <1>3, <1>5, <2>1
<1> QED BY <1>3, <1>4, <1>5, <1>6

LEMMA MarkFlagStep == ASSUME EbInv, NEW t \in Embedders, MarkFlag(t) PROVE EbInv'
<1>1. /\ UNCHANGED <<settings, daemon, embeddable, vectors, skipped, turns, unsaved, unhealthy, definite>>
      /\ UNCHANGED <<reason, surfaced, gate>>
      /\ doing[t].at \in {"recall", "degraded"} /\ (mixed => mixed') /\ (OthersClear(t) => mixed')
  BY DEF MarkFlag
<1>2. doing' \in [Embedders -> TaskRec]
  BY ToldStep
<1>3. \/ doing'[t].at = "idle" /\ doing'[t].all = {} /\ ~doing'[t].won
      \/ doing'[t].at = "write" /\ doing'[t].kind = "seal" /\ ~doing'[t].won
  BY ToldStep, OffTask
<1>4. \A u \in Embedders : u # t =>
        /\ doing'[u].at = doing[u].at /\ doing'[u].kind = doing[u].kind /\ doing'[u].ids = doing[u].ids
        /\ doing'[u].got = doing[u].got /\ doing'[u].all = doing[u].all /\ (doing'[u].won <=> doing[u].won)
        /\ doing[u].heard => doing'[u].heard
        /\ doing[t].won /\ doing[u].at # "idle" => doing'[u].heard
  BY ToldStep
<1>5. active' = active /\ choice' = choice
  BY <1>1 DEF active, choice
<1>6. reason # "" \/ mixed
  BY <1>1 DEF EbInv, CauseFirst
<1>7. DegradedNamesCause' /\ CauseFirst'
  BY <1>1, <1>6 DEF DegradedNamesCause, CauseFirst
<1>8. ClearedFirst'
  <2>1. ASSUME NEW u \in Embedders, doing'[u].at \in Clearing PROVE mixed'
    <3>1. u # t /\ doing[u].at \in Clearing
      BY <1>3, <1>4, <2>1 DEF Clearing
    <3> QED BY <1>1, <3>1 DEF OthersClear
  <2> QED BY <2>1 DEF ClearedFirst
<1>9. UnconfiguredOnly' /\ WinnersTell'
  BY <1>3, <1>4, <1>5 DEF EbInv, UnconfiguredOnly, WinnersTell
<1>10. ClaimIsHeard'
  <2>1. SUFFICES ASSUME NEW u \in Embedders,
                        \/ doing'[u].at \in {"embed", "claim"} /\ surfaced'
                        \/ doing'[u].at \in {"reason", "recall"}
                 PROVE  doing'[u].heard \/ SomeoneTells'
    BY DEF ClaimIsHeard
  <2>2. u # t /\ doing'[u].at = doing[u].at
    BY <1>3, <1>4, <2>1
  <2>3. doing[u].heard \/ SomeoneTells
    BY <1>1, <2>1, <2>2 DEF EbInv, ClaimIsHeard
  <2>4. CASE doing[u].heard \/ doing[t].won
    BY <1>4, <2>1, <2>2, <2>4
  <2>5. CASE ~doing[t].won /\ SomeoneTells
    BY <1>4, <2>5 DEF SomeoneTells
  <2> QED BY <2>3, <2>4, <2>5
<1>11. BatchAccounted'
  BY <1>1, <1>3, <1>4, <1>5 DEF EbInv, BatchAccounted
<1> QED BY <1>1, <1>2, <1>7, <1>8, <1>9, <1>10, <1>11 DEF EbInv, EbTyped, ReportedOnce, SkippedForGood

\* The tasks are as they were and no row loses its tombstone.
LEMMA RestStep ==
  ASSUME EbInv, UNCHANGED <<settings, vectors, skipped, doing>>, UNCHANGED <<recall, reason, surfaced, gate>>,
         UNCHANGED <<unhealthy, definite, unsaved, mixed>>,
         embeddable' \subseteq Rows, daemon' \in BOOLEAN, turns' \in Nat
  PROVE  EbInv'
<1>1. active' = active /\ choice' = choice
  BY DEF active, choice
<1>2. SomeoneTells' <=> SomeoneTells
  BY DEF SomeoneTells
<1>3. TasksSound'
  BY <1>1, <1>2 DEF EbInv, TasksSound, ClearedFirst, CauseFirst, UnconfiguredOnly, WinnersTell, ClaimIsHeard, BatchAccounted
<1>4. EbTyped'
  BY DEF EbInv, EbTyped
<1> QED BY <1>3, <1>4 DEF EbInv, ReportedOnce, SkippedForGood, DegradedNamesCause, TasksSound

LEMMA RemoveRowStep == ASSUME EbInv, NEW r \in Rows, RemoveRow(r) PROVE EbInv'
<1>1. /\ UNCHANGED <<settings, daemon, unsaved, unhealthy, definite>>
      /\ UNCHANGED <<recall, reason, surfaced, gate, mixed>>
      /\ embeddable' \subseteq embeddable
      /\ skipped' = {v \in skipped : v[2] # r} /\ vectors' \subseteq vectors
  BY DEF RemoveRow, flags, seen
<1>2. turns' \in Nat
  <2>1. turns \in Nat
    BY DEF EbInv, EbTyped
  <2>2. turns' = turns + 1
    BY DEF RemoveRow, Turn
  <2> QED BY <2>1, <2>2
<1>3. doing \in [Embedders -> TaskRec]
  BY DEF EbInv, EbTyped
<1>4. ASSUME NEW t \in Embedders
      PROVE  /\ doing'[t] \in TaskRec
             /\ doing'[t].at = doing[t].at /\ doing'[t].kind = doing[t].kind /\ doing'[t].ids = doing[t].ids
             /\ doing'[t].got = doing[t].got /\ doing'[t].all = doing[t].all \ {r}
             /\ doing'[t].won = doing[t].won /\ doing'[t].heard = doing[t].heard
  <2>1. doing'[t] = [doing[t] EXCEPT !.all = @ \ {r}]
    BY DEF RemoveRow
  <2> QED BY <1>3, <2>1 DEF TaskRec
<1>5. doing' \in [Embedders -> TaskRec]
  <2>1. doing' = [t \in Embedders |-> doing'[t]]
    BY DEF RemoveRow
  <2> QED BY <1>4, <2>1
<1>6. active' = active /\ choice' = choice
  BY <1>1 DEF active, choice
<1>7. SomeoneTells' <=> SomeoneTells
  BY <1>4 DEF SomeoneTells
<1>8. ClearedFirst' /\ CauseFirst' /\ UnconfiguredOnly' /\ WinnersTell' /\ ClaimIsHeard'
  BY <1>1, <1>4, <1>6, <1>7 DEF EbInv, ClearedFirst, CauseFirst, UnconfiguredOnly, WinnersTell, ClaimIsHeard
<1>9. BatchAccounted'
  <2>1. SUFFICES ASSUME NEW t \in Embedders, doing'[t].kind = "reembed", NEW q \in doing'[t].all
                 PROVE  q \in doing'[t].ids \cup doing'[t].got \/ <<active, q>> \in skipped' \cup unsaved'
    BY <1>6 DEF BatchAccounted
  <2>2. doing[t].kind = "reembed" /\ q \in doing[t].all /\ q # r
    BY <1>4, <2>1
  <2>3. q \in doing[t].ids \cup doing[t].got \/ <<active, q>> \in skipped \cup unsaved
    BY <2>2 DEF EbInv, BatchAccounted
  <2>4. <<active, q>> \in skipped => <<active, q>> \in skipped'
    BY <1>1, <2>2
  <2> QED BY <1>1, <1>4, <2>3, <2>4
<1>10. EbTyped'
  BY <1>1, <1>2, <1>5 DEF EbInv, EbTyped
<1>11. SkippedForGood'
  BY <1>1 DEF EbInv, SkippedForGood
<1> QED BY <1>1, <1>8, <1>9, <1>10, <1>11 DEF EbInv, ReportedOnce, DegradedNamesCause

LEMMA RestartStep == ASSUME EbInv, Restart PROVE EbInv'
<1>1. /\ UNCHANGED <<daemon, embeddable, vectors, skipped, definite, unsaved>>
      /\ settings' \in {{}, {"session"}, {"local"}} /\ ~recall' /\ reason' = "" /\ ~surfaced'
      /\ unhealthy' = 0
  BY DEF Restart
<1>2. turns' \in Nat
  <2>1. turns \in Nat
    BY DEF EbInv, EbTyped
  <2>2. turns' = turns + 1
    BY DEF Restart, Turn
  <2> QED BY <2>1, <2>2
<1>3. doing' \in [Embedders -> TaskRec] /\ \A t \in Embedders : doing'[t] = Off
  BY AllOffStep DEF Restart
<1>4. \A t \in Embedders : doing'[t].at = "idle" /\ doing'[t].all = {} /\ ~doing'[t].won
  BY <1>3, OffTask
<1>5. settings' \subseteq Rungs
  BY <1>1 DEF Rungs
<1>6. EbTyped'
  BY <1>1, <1>2, <1>3, <1>5 DEF EbInv, EbTyped
<1>7. ReportedOnce' /\ SkippedForGood' /\ DegradedNamesCause'
  BY <1>1 DEF EbInv, ReportedOnce, SkippedForGood, DegradedNamesCause
<1>8. TasksSound'
  BY <1>4 DEF TasksSound, ClearedFirst, Clearing, CauseFirst, UnconfiguredOnly, WinnersTell, ClaimIsHeard, BatchAccounted
<1> QED BY <1>6, <1>7, <1>8 DEF EbInv, TasksSound

LEMMA EbStep == ASSUME EbInv, [EbNext]_ebVars PROVE EbInv'
<1>1. embeddable \subseteq Rows /\ daemon \in BOOLEAN /\ turns \in Nat
  BY DEF EbInv, EbTyped
<1>2. ASSUME NEW r \in ChunkRows, StoreChunk(r) PROVE EbInv'
  <2>1. embeddable' \subseteq Rows
    BY <1>1, <1>2 DEF StoreChunk, Rows
  <2> QED BY <1>1, <1>2, <2>1, RestStep DEF StoreChunk, flags, seen
<1>3. ASSUME NEW r \in ChunkRows \cup SummaryRows, RemoveRow(r) PROVE EbInv'
  BY <1>3, RemoveRowStep DEF Rows
<1>4. CASE Daemon
  <2>1. turns' \in Nat
    <3>1. turns' = turns + 1
      BY <1>4 DEF Daemon, Turn
    <3> QED BY <1>1, <3>1
  <2>2. daemon' \in BOOLEAN
    BY <1>4 DEF Daemon
  <2> QED BY <1>1, <1>4, <2>1, <2>2, RestStep DEF Daemon, flags, seen
<1>5. CASE Restart
  BY <1>5, RestartStep
<1>6. CASE ensure_reembed_backfill \/ StaleSignature \/ Covered \/ UNCHANGED ebVars
  BY <1>1, <1>6, RestStep DEF ensure_reembed_backfill, StaleSignature, Covered, ebVars, flags, seen
<1>7. ASSUME NEW t \in Embedders, TaskStep(t) PROVE EbInv'
  BY <1>7, BeginBatchStep, WriteBatchStep, SealEmbedsStep, StoreSummaryStep, ClearFlagStep, ClearCauseStep, ClearClaimStep,
     ClaimsStep, MarksStep, MarkFlagStep, OpenStep, ReportStep, CollectStep, BeginSealStep DEF TaskStep, Rows
<1> QED BY <1>2, <1>3, <1>4, <1>5, <1>6, <1>7 DEF EbNext

\* For any tasks, chunks and summaries: only rows that can never be embedded are
\* skipped, the Ollama outage is reported by at most one opener of the process,
\* and who sees the degraded flag sees its cause unless a clear and a mark ran
\* into each other (reembed_batch, mark_semantic_recall_degraded,
\* report_ollama_health_gate_once).
THEOREM EmbeddingsCorrect == EbSpec => []EmbeddingsSound
<1>1. EbInit => EbInv
  BY EbInitial
<1>2. EbInv /\ [EbNext]_ebVars => EbInv'
  BY EbStep
<1>3. ASSUME EbInv PROVE EmbeddingsSound
  <2>1. \A t \in Embedders : doing[t].at \in EmbedAt
    BY <1>3 DEF EbInv, EbTyped, TaskRec
  <2>2. unhealthy <= 1
    BY <1>3 DEF EbInv, ReportedOnce
  <2> QED BY <1>3, <2>1, <2>2 DEF EbInv, EbTyped, Rows, EbTypeOK, EmbeddingsSound
<1>4. EbInv => EmbeddingsSound
  BY <1>3
<1> QED BY <1>1, <1>2, <1>4, PTL DEF EbSpec

\* Nothing is left to embed when the batch that is taken is empty.
LEMMA EmptyBatch == ASSUME EbInv, <<{}, {}>> \in Batches PROVE Uncovered(embeddable) = {}
<1>1. IsFiniteSet(Uncovered(ChunkRows)) /\ IsFiniteSet(Uncovered(SummaryRows))
  <2>1. Uncovered(ChunkRows) \subseteq ChunkRows /\ Uncovered(SummaryRows) \subseteq SummaryRows
    BY DEF Uncovered
  <2> QED BY <2>1, EmbeddingAssumption, FS_Subset
<1>2. PICK m, n : m = Cardinality(Uncovered(ChunkRows)) /\ n = Cardinality(Uncovered(SummaryRows))
  OBVIOUS
<1>3. m \in Nat /\ n \in Nat /\ BatchLimit \in Nat \ {0}
  BY <1>1, <1>2, FS_CardinalityType, EmbeddingAssumption
<1>4. Cardinality({}) = 0
  BY FS_EmptySet
<1>5. ChunkShare = Min({BatchLimit, m}) /\ SummaryShare = Min({BatchLimit - ChunkShare, n})
  BY <1>2 DEF ChunkShare, SummaryShare
<1>6. ChunkShare \in {BatchLimit, m} /\ ChunkShare <= BatchLimit /\ ChunkShare <= m
  <2>1. \E x \in {BatchLimit, m} : \A y \in {BatchLimit, m} : x =< y
    BY <1>3
  <2> QED BY <1>5, <2>1 DEF Min
<1>8. PICK C \in kSubset(ChunkShare, Uncovered(ChunkRows)) :
        \E S \in kSubset(SummaryShare, Uncovered(SummaryRows)) : <<{}, {}>> = <<C, S>>
  BY BatchForm
<1>9. Cardinality({}) = ChunkShare /\ Cardinality({}) = SummaryShare
  <2>1. PICK S \in kSubset(SummaryShare, Uncovered(SummaryRows)) : <<{}, {}>> = <<C, S>>
    BY <1>8
  <2>2. C = {} /\ S = {}
    BY <2>1
  <2> QED BY <2>2 DEF kSubset
<1>10. m = 0
  BY <1>3, <1>4, <1>6, <1>9
<1>11. SummaryShare \in {BatchLimit - ChunkShare, n} /\ ChunkShare = 0
  <2>1. \E x \in {BatchLimit - ChunkShare, n} : \A y \in {BatchLimit - ChunkShare, n} : x =< y
    BY <1>3, <1>4, <1>9
  <2> QED BY <1>4, <1>5, <1>9, <2>1 DEF Min
<1>12. n = 0
  BY <1>3, <1>4, <1>9, <1>11
<1>13. Uncovered(ChunkRows) = {} /\ Uncovered(SummaryRows) = {}
  BY <1>1, <1>2, <1>10, <1>12, FS_EmptySet
<1>14. embeddable \subseteq Rows
  BY DEF EbInv, EbTyped
<1> QED BY <1>13, <1>14 DEF Uncovered, Rows

LEMMA ChainEnds ==
  ASSUME EbInv, [EbNext]_ebVars, chain # "", chain' = "", settings' = settings
  PROVE  chain # active \/ choice = "no_provider" \/ (Uncovered(embeddable) = {} /\ ~Reembedding)
<1>1. CASE StaleSignature
  BY <1>1 DEF StaleSignature
<1>2. CASE Covered
  BY <1>2, EmptyBatch DEF Covered
<1>3. ASSUME NEW t \in Embedders, MarkFlag(t) PROVE choice = "no_provider"
  <2>1. doing[t].at = "degraded"
    BY <1>3 DEF MarkFlag, Task
  <2> QED BY <2>1 DEF EbInv, UnconfiguredOnly
<1>4. chain' = chain \/ StaleSignature \/ Covered \/ ensure_reembed_backfill \/ \E t \in Embedders : MarkFlag(t)
  BY DEF EbNext, ebVars, StoreChunk, RemoveRow, Daemon, Restart, TaskStep, BeginBatch, WriteBatch, SealEmbeds,
         StoreSummary, ClearFlag, ClearCause, ClearClaim, Claims, Marks, OpenProbes, report_ollama_health_gate_once,
         reembed_collect, BeginSeal
<1>5. CASE ensure_reembed_backfill
  BY <1>5 DEF ensure_reembed_backfill
<1> QED BY <1>1, <1>2, <1>3, <1>4, <1>5

\* A written batch leaves of its rows only those whose tombstone was not stored.
LEMMA BatchWritten ==
  ASSUME EbInv, NEW t \in Embedders, WriteBatch(t)
  PROVE  doing[t].all \cap Uncovered(embeddable)' \subseteq {r \in embeddable : <<active, r>> \in unsaved}
<1>1. /\ UNCHANGED <<settings, embeddable, skipped, unsaved>>
      /\ doing[t].kind = "reembed" /\ doing[t].ids = {}
      /\ vectors' = vectors \cup {<<active, r>> : r \in doing[t].got}
  BY DEF WriteBatch, seen
<1>2. active' = active
  BY <1>1 DEF active
<1>3. \A r \in doing[t].all : r \in doing[t].got \/ <<active, r>> \in skipped \cup unsaved
  BY <1>1 DEF EbInv, BatchAccounted
<1>4. Uncovered(embeddable)' = {r \in embeddable' : <<active', r>> \notin vectors' \cup skipped'}
  BY DEF Uncovered
<1> QED BY <1>1, <1>2, <1>3, <1>4

LEMMA BatchEnds ==
  ASSUME EbInv, [EbNext]_ebVars, NEW t \in Embedders,
         doing[t].at = "embed", doing[t].kind = "reembed", doing[t].ids = {}, doing'[t].at = "idle", turns' = turns
  PROVE  WriteBatch(t)
<1>1. doing \in [Embedders -> TaskRec] /\ turns \in Nat /\ Embedders \in {Embedders}
  BY DEF EbInv, EbTyped
<1>2. turns' # turns + 1
  BY <1>1
<1>3. \E u \in Embedders : TaskStep(u)
  BY <1>1, <1>2 DEF EbNext, ebVars, StoreChunk, RemoveRow, Daemon, Restart, Turn, ensure_reembed_backfill, StaleSignature, Covered
<1>4. PICK u \in Embedders : TaskStep(u)
  BY <1>3
<1>5. CASE u = t
  BY <1>2, <1>4, <1>5 DEF TaskStep, BeginBatch, SealEmbeds, StoreSummary, ClearFlag, ClearCause, ClearClaim, Claims, Marks, MarkFlag,
     OpenProbes, report_ollama_health_gate_once, reembed_collect, BeginSeal, Task, Clearing
<1>6. CASE u # t
  <2>1. CASE MarkFlag(u)
    BY <1>6, <2>1, ToldStep
  <2>2. CASE ~MarkFlag(u)
    <3>1. \E h : doing' = [doing EXCEPT ![u] = h]
      BY <1>4, <2>2 DEF TaskStep, BeginBatch, SealEmbeds, StoreSummary, ClearFlag, ClearCause, ClearClaim, Claims, Marks, MarkCause,
         OpenProbes, report_ollama_health_gate_once, reembed_collect, BeginSeal, WriteBatch, Goes, Ends
    <3> QED BY <1>1, <1>6, <3>1
  <2> QED BY <2>1, <2>2
<1> QED BY <1>5, <1>6

\* For any tasks and rows: the re-embed chain ends only when every row is covered,
\* when its signature is no longer the active one or without a provider; a batch
\* that is written leaves none of its rows to the next, save those whose tombstone
\* could not be stored; and every operation that fails for want of the local
\* runtime is announced (reembed_batch, mark_local_model_unavailable_if_applicable).
THEOREM ChainCorrect == EbSpec => ChainSound
<1>1. EbInit => EbInv
  BY EbInitial
<1>2. EbInv /\ [EbNext]_ebVars => EbInv'
  BY EbStep
<1>3. EbInv /\ [EbNext]_ebVars =>
        [chain # "" /\ chain' = "" /\ settings' = settings =>
           \/ chain # active
           \/ choice = "no_provider"
           \/ Uncovered(embeddable) = {} /\ ~Reembedding]_ebVars
  BY ChainEnds
<1>4. EbInv /\ [EbNext]_ebVars =>
        [\A t \in Embedders :
           /\ doing[t].at = "embed" /\ doing[t].kind = "reembed" /\ doing[t].ids = {}
           /\ doing'[t].at = "idle" /\ turns' = turns
           => doing[t].all \cap Uncovered(embeddable)' \subseteq {r \in embeddable : <<active, r>> \in unsaved}]_ebVars
  BY BatchEnds, BatchWritten
<1>5. EbInv /\ [EbNext]_ebVars =>
        [\A t \in Embedders :
           doing[t].at = "recall" /\ doing'[t].at = "idle" /\ turns' = turns =>
             doing[t].won \/ doing[t].heard \/ \E u \in Embedders : doing[u].won]_ebVars
  BY DEF EbInv, ClaimIsHeard, SomeoneTells
<1> QED BY <1>1, <1>2, <1>3, <1>4, <1>5, PTL DEF EbSpec, ChainSound, ChainEndsCovered, BatchMakesProgress, FailureAnnounced

=============================================================================
