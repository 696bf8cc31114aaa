------------------------- MODULE StorageHealthProofs -------------------------
(***************************************************************************)
(* A persistent host failure is reported once per outage the workers see,   *)
(* however many workers poll: every report sets the latch, and only a       *)
(* recovery edge, which is counted, clears it.  And the jobs those workers  *)
(* run (TreePipeline) put every chunk that scoring keeps into the tree.      *)
(***************************************************************************)
EXTENDS StorageHealth, TreePipeline, TLAPS

Pending == IF ioLatch THEN 1 ELSE 0

IoInv == TypeOK /\ ioReports <= ioRecoveries + Pending

\* The latch is clear and nothing was reported at the start.
LEMMA InitInv == Init => IoInv
<1> SUFFICES ASSUME Init PROVE IoInv
  OBVIOUS
<1>1. FlagsOK
  BY Zenon DEF Init, FlagsOK
<1>2. TypeOK
  BY <1>1, HealthAssumption DEF Init, TypeOK, Places
<1> QED
  BY <1>2 DEF Init, IoInv, Pending

\* Every step assigns Booleans to the flags.
LEMMA StepFlags == FlagsOK /\ [Next]_vars => FlagsOK'
<1> SUFFICES ASSUME FlagsOK, [Next]_vars PROVE FlagsOK'
  OBVIOUS
<1>1. CASE DiskFails \/ DiskReturns \/ ImageDamaged \/ UNCHANGED vars
  BY <1>1 DEF DiskFails, DiskReturns, ImageDamaged, vars, FlagsOK
<1>2. ASSUME NEW d \in Detectors, Poll(d) \/ Wake(d) PROVE FlagsOK'
  BY <1>2 DEF Poll, PollSucceeds, PollHostIo, PollTolerated, DetectCorrupt, Wake, FlagsOK
<1>3. ASSUME NEW d \in Detectors, SwapIoLatch(d) \/ ClearDegraded(d) \/ MarkHostIo(d)
                                  \/ ReportHostIo(d)
      PROVE FlagsOK'
  BY <1>3, Zenon DEF SwapIoLatch, ClearDegraded, MarkHostIo, ReportHostIo, FlagsOK
<1>4. ASSUME NEW d \in Detectors, ReportCorrupt(d) \/ MarkCorrupt(d) \/ Recover(d)
                                  \/ RecoverFails(d) \/ SettleDegraded(d) \/ SettleLatch(d)
      PROVE FlagsOK'
  BY <1>4, Zenon DEF ReportCorrupt, MarkCorrupt, Recover, RecoverFails, SettleDegraded,
     SettleLatch, FlagsOK
<1> QED
  BY <1>1, <1>2, <1>3, <1>4 DEF Next, Step

\* The actions that touch the counters or the latch are the two swaps.
LEMMA StepInv == IoInv /\ [Next]_vars => IoInv'
<1> SUFFICES ASSUME IoInv, [Next]_vars PROVE IoInv'
  OBVIOUS
<1>0. FlagsOK'
  BY StepFlags DEF IoInv, TypeOK
<1> USE <1>0, HealthAssumption DEF IoInv, TypeOK, Places, Pending, Goto, env
<1>1. CASE DiskFails
  BY <1>1 DEF DiskFails
<1>2. CASE DiskReturns
  BY <1>2 DEF DiskReturns
<1>3. CASE ImageDamaged
  BY <1>3 DEF ImageDamaged
<1>4. ASSUME NEW d \in Detectors, SwapIoLatch(d) PROVE IoInv'
  BY <1>4 DEF SwapIoLatch
<1>5. ASSUME NEW d \in Detectors, ReportHostIo(d) PROVE IoInv'
  BY <1>5 DEF ReportHostIo
<1>6. ASSUME NEW d \in Detectors, ClearDegraded(d) \/ MarkHostIo(d) \/ Wake(d) PROVE IoInv'
  BY <1>6 DEF ClearDegraded, MarkHostIo, Wake
<1>7. ASSUME NEW d \in Detectors, ReportCorrupt(d) \/ MarkCorrupt(d) PROVE IoInv'
  BY <1>7 DEF ReportCorrupt, MarkCorrupt
<1>8. ASSUME NEW d \in Detectors, Recover(d) \/ RecoverFails(d) PROVE IoInv'
  BY <1>8 DEF Recover, RecoverFails
<1>9. ASSUME NEW d \in Detectors, SettleDegraded(d) \/ SettleLatch(d) PROVE IoInv'
  BY <1>9 DEF SettleDegraded, SettleLatch
<1>10. ASSUME NEW d \in Detectors, Poll(d) PROVE IoInv'
  BY <1>10 DEF Poll, PollSucceeds, PollHostIo, PollTolerated, DetectCorrupt
<1>11. CASE UNCHANGED vars
  BY <1>11 DEF vars
<1> QED
  BY <1>1, <1>2, <1>3, <1>4, <1>5, <1>6, <1>7, <1>8, <1>9, <1>10, <1>11 DEF Next, Step

\* For any number of workers and any bounds, the host-I/O reports never exceed
\* the recovery edges by more than one.
THEOREM ReportsBounded == Spec => []IoReportedOnce
<1>1. IoInv => IoReportedOnce
  BY DEF IoInv, TypeOK, Pending, IoReportedOnce
<1> QED
  BY <1>1, InitInv, StepInv, PTL DEF Spec

\* Types are kept, the latches stay Boolean and every task stays in its loop.
THEOREM TypeCorrect == Spec => []TypeOK
<1>1. IoInv => TypeOK
  BY DEF IoInv
<1> QED
  BY <1>1, InitInv, StepInv, PTL DEF Spec

-----------------------------------------------------------------------------
(* The flag and the latches.  Who sets the flag goes on to a step that sets the  *)
(* latch or attempts the recovery, and who takes a latch or the damage away goes *)
(* on to clear the flag: at every moment one of them, a latch or the damage      *)
(* accounts for the flag.  The corruption latch is not needed: damage stays      *)
(* until a recovery that settles the flag.                                       *)

Settling == {"clear", "ioLatch", "recover", "settle"}

Accounted == ioLatch \/ stray \/ image = "corrupt" \/ \E d \in Detectors : at[d] \in Settling

FlagInv ==
  /\ at \in [Detectors -> Places] /\ image \in {"ok", "corrupt"}
  /\ degraded => Accounted

\* A task that leaves one of those steps clears the flag or leaves its reason.
LEMMA StepAccounted == FlagInv /\ [Next]_vars => FlagInv'
<1> SUFFICES ASSUME FlagInv, [Next]_vars PROVE FlagInv'
  OBVIOUS
<1> USE DEF FlagInv, Accounted, Settling, Places, Goto, env
<1>1. CASE DiskFails \/ DiskReturns \/ ImageDamaged \/ UNCHANGED vars
  BY <1>1 DEF DiskFails, DiskReturns, ImageDamaged, vars
<1>2. ASSUME NEW d \in Detectors, Poll(d) PROVE FlagInv'
  BY <1>2 DEF Poll, PollSucceeds, PollHostIo, PollTolerated, DetectCorrupt
<1>3. ASSUME NEW d \in Detectors, SwapIoLatch(d) PROVE FlagInv'
  BY <1>3 DEF SwapIoLatch
<1>4. ASSUME NEW d \in Detectors, ClearDegraded(d) \/ SettleDegraded(d) PROVE FlagInv'
  BY <1>4 DEF ClearDegraded, SettleDegraded
<1>5. ASSUME NEW d \in Detectors, MarkHostIo(d) \/ MarkCorrupt(d) PROVE FlagInv'
  BY <1>5 DEF MarkHostIo, MarkCorrupt
<1>6. ASSUME NEW d \in Detectors, ReportHostIo(d) PROVE FlagInv'
  BY <1>6 DEF ReportHostIo
<1>7. ASSUME NEW d \in Detectors, Wake(d) \/ ReportCorrupt(d) \/ SettleLatch(d) PROVE FlagInv'
  BY <1>7 DEF Wake, ReportCorrupt, SettleLatch
<1>8. ASSUME NEW d \in Detectors, Recover(d) PROVE FlagInv'
  BY <1>8 DEF Recover
<1>9. ASSUME NEW d \in Detectors, RecoverFails(d) PROVE FlagInv'
  <2>1. stray' = (stray \/ image = "ok") /\ image' = image
    BY <1>9 DEF RecoverFails
  <2>2. stray' \/ image' = "corrupt"
    BY <2>1
  <2> QED
    BY <1>9, <2>2 DEF RecoverFails
<1> QED
  BY <1>1, <1>2, <1>3, <1>4, <1>5, <1>6, <1>7, <1>8, <1>9 DEF Next, Step

\* For any number of workers and sinks, a storage flag that is up while every task
\* is between two polls has a latch, damage or a stray failure behind it.
THEOREM FlagCorrect == Spec => []DegradedHasLatch
<1>1. Init => FlagInv
  BY DEF Init, FlagInv, Places
<1>2. FlagInv => DegradedHasLatch
  BY DEF FlagInv, Accounted, Settling, DegradedHasLatch
<1> QED
  BY <1>1, <1>2, StepAccounted, PTL DEF Spec

\* Both, however the workers, the recoveries and the disk interleave.
THEOREM HealthCorrect == Spec => []HealthSound
<1>1. IoReportedOnce /\ DegradedHasLatch => HealthSound
  BY DEF HealthSound
<1> QED
  BY <1>1, ReportsBounded, FlagCorrect, PTL

-----------------------------------------------------------------------------
(* The tree pipeline.  Jobs carry the number of times the tables were emptied      *)
(* before they were queued, so a worker whose job is of the present count has its  *)
(* row in the table and works on the present tree; of any other worker all that is *)
(* known is that its chunks count as in flight.  What a chunk needs to be placed   *)
(* is then a job of its own that no worker is about to finish without a follow-up. *)

ChunkKinds == {"extract", "append", "seal_document"}

JobRec ==
  [kind : Kinds, of : Leaves \cup Nat, forced : BOOLEAN, wave : Nat,
   status : {"ready", "running", "failed"}]

GoodJob(j) == j \in JobRec /\ (j.kind \in ChunkKinds => j.of \in Leaves)

HandRec ==
  [at : HandAt, job : JobRec, tree : Nat, items : SUBSET Leaves, next : SUBSET JobRec]

\* What settling queues for a chunk.
ForChunk(h) == {n \in h.next : n.kind \in ChunkKinds}

GoodHand(h) ==
  /\ h \in HandRec
  /\ GoodJob(h.job) /\ h.job.status = "ready"
  /\ \A n \in h.next : GoodJob(n) /\ n.status = "ready"
  /\ \A n \in ForChunk(h) : h.job.kind = "extract" /\ n.kind # "extract" /\ n.of = h.job.of
  /\ \A m, n \in h.next : SameKey(m, n) => m = n
  /\ h.at = "score" => h.job.kind = "extract"
  /\ h.at = "push" => h.job.kind = "append"
  /\ h.at = "summarise" => h.job.kind = "seal"
  /\ h.at = "document" => h.job.kind = "seal_document" /\ h.items = {h.job.of}
  /\ h.at \in {"push", "summarise", "document"} => h.tree # 0

\* Worker w has a job queued since the tables were last emptied.
Current(w) == hand[w].at # "idle" /\ hand[w].job.wave = wave

TpTyped ==
  /\ leaf \in [Leaves -> Statuses]
  /\ scores \subseteq Leaves
  /\ tree \in Nat
  /\ buffers \subseteq (Nat \ {0}) \X Leaves /\ summaries \subseteq (Nat \ {0}) \X Leaves
  /\ \A j \in queue : GoodJob(j)
  /\ hand \in [JobWorkers -> HandRec]
  /\ \A w \in JobWorkers : GoodHand(hand[w]) /\ hand[w].job.wave <= wave
  /\ resetting \in BOOLEAN /\ torn \in BOOLEAN
  /\ spent \in [Faults -> Nat]
  /\ inflight \subseteq Leaves /\ overtaken \subseteq Leaves

UniqueKeys ==
  \A j, k \in queue : SameKey(j, k) /\ j.status # "failed" /\ k.status # "failed" => j = k

\* Rows of the table are of the present count, and an extraction's chunk has a row.
RowsCurrent ==
  \A j \in queue : j.wave = wave /\ (j.kind = "extract" => leaf[j.of] # "none")

\* A current worker has its row, alone, and the tree it found is the present one.
HeldRows == \A w \in JobWorkers : Current(w) => Row(hand[w].job) \in queue

HeldOnce ==
  \A v, w \in JobWorkers :
    Current(v) /\ Current(w) /\ SameKey(hand[v].job, hand[w].job) => v = w

HeldCurrent ==
  \A w \in JobWorkers :
    Current(w) /\ hand[w].at \in {"push", "summarise", "document"} => hand[w].tree = tree

\* What a worker will write belongs to something that is there, or is in flight.
HeldExplained ==
  \A w \in JobWorkers :
    /\ hand[w].at = "score" => leaf[hand[w].job.of] # "none" \/ hand[w].job.of \in inflight
    /\ hand[w].at = "push" => hand[w].tree = tree \/ hand[w].job.of \in inflight
    /\ hand[w].at \in {"summarise", "document"} => hand[w].tree = tree \/ hand[w].items \subseteq inflight

\* An extraction that ends without a follow-up has dropped its chunk.
DroppedOvertaken ==
  \A w \in JobWorkers :
    Current(w) /\ hand[w].at = "settle" /\ hand[w].job.kind = "extract" /\ ForChunk(hand[w]) = {}
    => hand[w].job.of \in overtaken

\* A current worker is about to take away the row of j's key and queue nothing for
\* a chunk.
Finishing(j) ==
  \E w \in JobWorkers :
    Current(w) /\ hand[w].at = "settle" /\ SameKey(hand[w].job, j) /\ ForChunk(hand[w]) = {}

Live(c) == \E j \in queue : j.kind \in ChunkKinds /\ j.of = c /\ ~Finishing(j)

Secured(c) == leaf[c] = "none" \/ c \in overtaken \/ <<tree, c>> \in buffers \cup summaries \/ Live(c)

KeptHasWay == ~torn /\ ~resetting => \A c \in Leaves : Secured(c)

TpInv ==
  /\ TpTyped /\ UniqueKeys /\ RowsCurrent
  /\ HeldRows /\ HeldOnce /\ HeldCurrent /\ HeldExplained /\ DroppedOvertaken
  /\ OrphansFromInflight /\ KeptHasWay

LEMMA WaveNat == ASSUME TpInv PROVE wave \in Nat
BY DEF TpInv, TpTyped, wave, Faults

LEMMA FreeGood == GoodHand(Free) /\ Free.at = "idle" /\ Free.job.wave = 0
<1>1. PICK j : j = Job("flush", 0, FALSE)
  OBVIOUS
<1>2. GoodJob(j) /\ j.status = "ready" /\ j.wave = 0
  BY <1>1 DEF Job, GoodJob, JobRec, Kinds, ChunkKinds
<1>3. PICK h : h = Free
  OBVIOUS
<1>4. h = [at |-> "idle", job |-> j, tree |-> 0, items |-> {}, next |-> {}]
  BY <1>1, <1>3 DEF Free
<1>5. h \in HandRec /\ h.at = "idle" /\ h.job = j /\ h.next = {}
  BY <1>2, <1>4 DEF HandRec, HandAt, GoodJob
<1>6. GoodHand(h)
  BY <1>2, <1>5 DEF GoodHand, ForChunk
<1> QED BY <1>2, <1>3, <1>5, <1>6

LEMMA RowFields ==
  ASSUME NEW j \in JobRec
  PROVE  /\ Row(j) \in JobRec /\ Row(j).kind = j.kind /\ Row(j).of = j.of
         /\ Row(j).wave = j.wave /\ Row(j).status = "running"
         /\ \A k : SameKey(Row(j), k) <=> SameKey(j, k)
         /\ \A k : SameKey(k, Row(j)) <=> SameKey(k, j)
         /\ GoodJob(j) => GoodJob(Row(j))
<1>1. PICK r : r = Row(j)
  OBVIOUS
<1>2. r \in JobRec /\ r.kind = j.kind /\ r.of = j.of /\ r.wave = j.wave /\ r.status = "running"
  BY <1>1 DEF Row, JobRec
<1> QED BY <1>1, <1>2 DEF SameKey, GoodJob

\* Replacing what one worker holds.
LEMMA HandStep ==
  ASSUME TpInv, NEW w \in JobWorkers, NEW v, GoodHand(v), hand' = [hand EXCEPT ![w] = v]
  PROVE  /\ hand' \in [JobWorkers -> HandRec]
         /\ hand'[w] = v
         /\ \A u \in JobWorkers : u # w => hand'[u] = hand[u]
         /\ \A u \in JobWorkers : GoodHand(hand'[u])
<1>1. hand \in [JobWorkers -> HandRec] /\ v \in HandRec /\ \A u \in JobWorkers : GoodHand(hand[u])
  BY DEF TpInv, TpTyped, GoodHand
<1>2. /\ hand' \in [JobWorkers -> HandRec] /\ hand'[w] = v
      /\ \A u \in JobWorkers : u # w => hand'[u] = hand[u]
  BY <1>1
<1>3. ASSUME NEW u \in JobWorkers PROVE GoodHand(hand'[u])
  BY <1>1, <1>2
<1> QED BY <1>2, <1>3

-----------------------------------------------------------------------------
(* A worker goes on with its job: the queue is as it was. *)

\* The job would be over with nothing queued for its chunk.
Concludes(w, v) ==
  Current(w) /\ v.at = "settle" /\ ForChunk(v) = {} /\ hand[w].job.kind \in ChunkKinds

LEMMA WorkerStep ==
  ASSUME TpInv, NEW w \in JobWorkers, NEW v, GoodHand(v),
         hand[w].at # "idle", v.at # "idle", v.job = hand[w].job,
         hand' = [hand EXCEPT ![w] = v],
         UNCHANGED <<queue, resetting, spent, torn, inflight>>,
         leaf' \in [Leaves -> Statuses], \A c \in Leaves : leaf'[c] = "none" <=> leaf[c] = "none",
         scores' \subseteq Leaves, tree' \in Nat, tree' # tree => tree = 0,
         buffers' \subseteq (Nat \ {0}) \X Leaves, summaries' \subseteq (Nat \ {0}) \X Leaves,
         overtaken \subseteq overtaken', overtaken' \subseteq Leaves,
         \A c \in Leaves : <<tree, c>> \in buffers \cup summaries => <<tree, c>> \in buffers' \cup summaries',
         \A c \in scores' \ scores : leaf[c] # "none" \/ c \in inflight,
         \A p \in (buffers' \cup summaries') \ (buffers \cup summaries) : p[1] = tree' \/ p[2] \in inflight,
         Current(w) /\ v.at \in {"push", "summarise", "document"} => v.tree = tree',
         v.at = "score" => leaf[v.job.of] # "none" \/ v.job.of \in inflight,
         v.at = "push" => v.tree = tree' \/ v.job.of \in inflight,
         v.at \in {"summarise", "document"} => v.tree = tree' \/ v.items \subseteq inflight,
         Concludes(w, v) /\ hand[w].job.kind = "extract" => hand[w].job.of \in overtaken',
         Concludes(w, v) => \/ leaf[hand[w].job.of] = "none"
                            \/ hand[w].job.of \in overtaken'
                            \/ <<tree', hand[w].job.of>> \in buffers' \cup summaries'
  PROVE  TpInv'
<1>1. /\ hand' \in [JobWorkers -> HandRec]
      /\ hand'[w] = v
      /\ \A u \in JobWorkers : u # w => hand'[u] = hand[u]
      /\ \A u \in JobWorkers : GoodHand(hand'[u])
  BY HandStep
<1>2. wave' = wave /\ \A u \in JobWorkers : hand'[u].job = hand[u].job /\ (Current(u)' <=> Current(u))
  BY <1>1 DEF wave, Current
<1>3. TpTyped'
  BY <1>1, <1>2 DEF TpInv, TpTyped
<1>4. UniqueKeys' /\ RowsCurrent'
  BY <1>2 DEF TpInv, TpTyped, UniqueKeys, RowsCurrent, GoodJob, ChunkKinds
<1>5. HeldRows' /\ HeldOnce'
  BY <1>2 DEF TpInv, HeldRows, HeldOnce
<1>6. \A u \in JobWorkers : hand[u].at \in {"push", "summarise", "document"} => hand[u].tree # 0
  BY DEF TpInv, TpTyped, GoodHand
<1>7. HeldCurrent'
  <2> SUFFICES ASSUME NEW u \in JobWorkers, Current(u)', hand'[u].at \in {"push", "summarise", "document"}
               PROVE  hand'[u].tree = tree'
    BY DEF HeldCurrent
  <2>1. CASE u = w
    BY <2>1, <1>1, <1>2
  <2>2. CASE u # w
    BY <2>2, <1>1, <1>2, <1>6 DEF TpInv, HeldCurrent
  <2> QED BY <2>1, <2>2
<1>8. HeldExplained'
  <2> SUFFICES ASSUME NEW u \in JobWorkers
               PROVE  /\ hand'[u].at = "score" => leaf'[hand'[u].job.of] # "none" \/ hand'[u].job.of \in inflight
                      /\ hand'[u].at = "push" => hand'[u].tree = tree' \/ hand'[u].job.of \in inflight
                      /\ hand'[u].at \in {"summarise", "document"} =>
                           hand'[u].tree = tree' \/ hand'[u].items \subseteq inflight
    BY DEF HeldExplained
  <2>0. hand'[u].at = "score" => hand'[u].job.of \in Leaves
    BY <1>1 DEF GoodHand, GoodJob, ChunkKinds
  <2>1. CASE u = w
    BY <2>0, <2>1, <1>1
  <2>2. CASE u # w
    BY <2>0, <2>2, <1>1, <1>6 DEF TpInv, HeldExplained
  <2> QED BY <2>1, <2>2
<1>9. DroppedOvertaken'
  <2> SUFFICES ASSUME NEW u \in JobWorkers, Current(u)', hand'[u].at = "settle",
                      hand'[u].job.kind = "extract", ForChunk(hand'[u]) = {}
               PROVE  hand'[u].job.of \in overtaken'
    BY DEF DroppedOvertaken, ForChunk
  <2>1. CASE u = w
    BY <2>1, <1>1, <1>2 DEF Concludes, ChunkKinds
  <2>2. CASE u # w
    BY <2>2, <1>1, <1>2 DEF TpInv, DroppedOvertaken
  <2> QED BY <2>1, <2>2
<1>10. OrphansFromInflight'
  <2>1. \A c \in scores' : leaf'[c] # "none" \/ c \in inflight
    BY DEF TpInv, OrphansFromInflight
  <2>2. \A p \in buffers \cup summaries : p[1] # 0
    BY DEF TpInv, TpTyped
  <2>3. \A p \in buffers' \cup summaries' : p[1] = tree' \/ p[2] \in inflight
    BY <2>2 DEF TpInv, OrphansFromInflight
  <2> QED BY <2>1, <2>3 DEF OrphansFromInflight
<1>11. ASSUME NEW c, Live(c)
       PROVE  Live(c)' \/ (Concludes(w, v) /\ hand[w].job.of = c)
  <2>1. PICK j \in queue : j.kind \in ChunkKinds /\ j.of = c /\ ~Finishing(j)
    BY <1>11 DEF Live
  <2>2. CASE Finishing(j)'
    <3>1. PICK u \in JobWorkers : /\ Current(u)' /\ hand'[u].at = "settle"
                                  /\ SameKey(hand'[u].job, j) /\ ForChunk(hand'[u]) = {}
      BY <2>2 DEF Finishing, ForChunk
    <3>2. u = w
      BY <2>1, <3>1, <1>1, <1>2 DEF Finishing
    <3> QED BY <2>1, <3>1, <3>2, <1>1, <1>2 DEF Concludes, SameKey
  <2>3. CASE ~Finishing(j)'
    BY <2>1, <2>3 DEF Live
  <2> QED BY <2>2, <2>3
<1>12. KeptHasWay'
  <2> SUFFICES ASSUME ~torn, ~resetting, NEW c \in Leaves PROVE Secured(c)'
    BY DEF KeptHasWay
  <2>1. Secured(c)
    BY DEF TpInv, KeptHasWay
  <2>2. CASE leaf[c] = "none" \/ c \in overtaken
    BY <2>2 DEF Secured
  <2>3. CASE <<tree, c>> \in buffers \cup summaries
    <3>1. tree # 0
      BY <2>3 DEF TpInv, TpTyped
    <3> QED BY <2>3, <3>1 DEF Secured
  <2>4. CASE Live(c)
    BY <2>4, <1>11 DEF Secured
  <2> QED BY <2>1, <2>2, <2>3, <2>4 DEF Secured
<1> QED BY <1>3, <1>4, <1>5, <1>7, <1>8, <1>9, <1>10, <1>12 DEF TpInv

LEMMA HeldFacts ==
  ASSUME TpInv, NEW w \in JobWorkers
  PROVE  /\ hand[w] \in HandRec /\ GoodHand(hand[w]) /\ GoodJob(hand[w].job)
         /\ hand[w].items \subseteq Leaves /\ hand[w].tree \in Nat
         /\ hand[w].job.kind \in ChunkKinds => hand[w].job.of \in Leaves
BY DEF TpInv, TpTyped, GoodHand, GoodJob, HandRec

\* The delegate returns what is to be queued.
LEMMA SettleHand ==
  ASSUME TpInv, NEW w \in JobWorkers, NEW N, Settles(w, N),
         \A n \in N : GoodJob(n) /\ n.status = "ready",
         \A n \in N : n.kind \in ChunkKinds =>
           hand[w].job.kind = "extract" /\ n.kind # "extract" /\ n.of = hand[w].job.of,
         \A m, n \in N : SameKey(m, n) => m = n
  PROVE  \E v : /\ GoodHand(v) /\ v.at = "settle" /\ v.job = hand[w].job /\ v.next = N
                /\ hand' = [hand EXCEPT ![w] = v]
<1>1. hand[w] \in HandRec /\ GoodJob(hand[w].job) /\ hand[w].job.status = "ready"
  BY HeldFacts DEF GoodHand
<1>2. PICK v : v = [hand[w] EXCEPT !.at = "settle", !.next = N]
  OBVIOUS
<1>3. N \subseteq JobRec
  BY DEF GoodJob
<1>4. v \in HandRec /\ v.at = "settle" /\ v.job = hand[w].job /\ v.next = N
  BY <1>1, <1>2, <1>3 DEF HandRec, HandAt
<1>5. GoodHand(v)
  BY <1>1, <1>4 DEF GoodHand, ForChunk
<1>6. hand' = [hand EXCEPT ![w] = v]
  BY <1>2 DEF Settles, TpInv, TpTyped
<1> QED BY <1>4, <1>5, <1>6

\* The same for a delegate that returns nothing and leaves the chunks alone.
LEMMA ReturnsNothing ==
  ASSUME TpInv, NEW w \in JobWorkers, hand[w].at # "idle", Settles(w, {}),
         UNCHANGED <<leaf, scores, tree, buffers, summaries, queue, resetting, spent, torn, inflight, overtaken>>,
         hand[w].job.kind \in ChunkKinds => leaf[hand[w].job.of] = "none"
  PROVE  TpInv'
<1>1. PICK v : /\ GoodHand(v) /\ v.at = "settle" /\ v.job = hand[w].job /\ v.next = {}
               /\ hand' = [hand EXCEPT ![w] = v]
  BY SettleHand
<1>2. ~(Concludes(w, v) /\ hand[w].job.kind = "extract")
  <2> SUFFICES ASSUME Current(w), hand[w].job.kind = "extract", leaf[hand[w].job.of] = "none" PROVE FALSE
    BY DEF Concludes, ChunkKinds
  <2>1. Row(hand[w].job) \in queue
    BY DEF TpInv, HeldRows
  <2>2. Row(hand[w].job).kind = "extract" /\ Row(hand[w].job).of = hand[w].job.of
    BY HeldFacts, RowFields DEF GoodJob
  <2> QED BY <2>1, <2>2 DEF TpInv, RowsCurrent
<1> QED BY <1>1, <1>2, WorkerStep DEF TpInv, TpTyped, Concludes

LEMMA ExtractReadsStep ==
  ASSUME TpInv, NEW w \in JobWorkers, ExtractReads(w)
  PROVE  TpInv'
<1>1. hand[w].at = "begin" /\ hand[w].job.kind = "extract"
  BY DEF ExtractReads, Begins
<1>2. CASE leaf[hand[w].job.of] = "none"
  BY <1>1, <1>2, ReturnsNothing DEF ExtractReads
<1>3. CASE leaf[hand[w].job.of] # "none"
  <2>1. PICK v : v = [hand[w] EXCEPT !.at = "score"]
    OBVIOUS
  <2>2. v \in HandRec /\ v.at = "score" /\ v.job = hand[w].job /\ v.next = hand[w].next
    BY <2>1, HeldFacts DEF HandRec, HandAt
  <2>3. GoodHand(v)
    BY <2>2, <1>1, HeldFacts DEF GoodHand, ForChunk
  <2>4. hand' = [hand EXCEPT ![w] = v]
    BY <2>1, <1>3 DEF ExtractReads, Moves, TpInv, TpTyped
  <2>5. UNCHANGED <<leaf, scores, tree, buffers, summaries, queue, resetting, spent, torn, inflight, overtaken>>
    BY DEF ExtractReads
  <2> QED BY <2>2, <2>3, <2>4, <2>5, <1>1, <1>3, WorkerStep DEF TpInv, TpTyped, Concludes
<1> QED BY <1>2, <1>3

LEMMA FollowUpGood ==
  ASSUME NEW c \in Leaves
  PROVE  GoodJob(FollowUp(c)) /\ FollowUp(c).status = "ready" /\ FollowUp(c).of = c
         /\ FollowUp(c).kind \in {"append", "seal_document"}
BY DEF FollowUp, Job, GoodJob, JobRec, Kinds, ChunkKinds

LEMMA ExtractWritesStep ==
  ASSUME TpInv, NEW w \in JobWorkers, ExtractWrites(w)
  PROVE  TpInv'
<1> DEFINE c == hand[w].job.of
<1>1. hand[w].at = "score" /\ hand[w].job.kind = "extract" /\ c \in Leaves
  BY HeldFacts DEF ExtractWrites, GoodHand, ChunkKinds
<1>2. PICK kept \in BOOLEAN :
        /\ scores' = scores \cup {c}
        /\ leaf' = ExtractStatus(c, kept)
        /\ Settles(w, IF kept THEN {FollowUp(c)} ELSE {})
        /\ overtaken' = IF kept THEN overtaken ELSE overtaken \cup {c}
  BY DEF ExtractWrites
<1>3. PICK N : N = IF kept THEN {FollowUp(c)} ELSE {}
  OBVIOUS
<1>4. \A n \in N : GoodJob(n) /\ n.status = "ready" /\ n.kind # "extract" /\ n.of = c
  BY <1>1, <1>3, FollowUpGood
<1>5. PICK v : /\ GoodHand(v) /\ v.at = "settle" /\ v.job = hand[w].job /\ v.next = N
               /\ hand' = [hand EXCEPT ![w] = v]
  <2>1. \A m, n \in N : SameKey(m, n) => m = n
    BY <1>3
  <2> QED BY <1>1, <1>2, <1>3, <1>4, <2>1, SettleHand
<1>6. leaf' \in [Leaves -> Statuses] /\ \A x \in Leaves : leaf'[x] = "none" <=> leaf[x] = "none"
  BY <1>1, <1>2 DEF ExtractStatus, Statuses, TpInv, TpTyped
<1>7. kept => ~Concludes(w, v)
  BY <1>1, <1>3, <1>5, FollowUpGood DEF Concludes, ForChunk, ChunkKinds
<1>8. UNCHANGED <<tree, buffers, summaries, queue, resetting, spent, torn, inflight>>
  BY DEF ExtractWrites
<1>9. leaf[c] # "none" \/ c \in inflight
  BY <1>1 DEF TpInv, HeldExplained
<1>10. ~kept => c \in overtaken'
  BY <1>2
<1>11. overtaken \subseteq overtaken' /\ overtaken' \subseteq Leaves /\ scores' \subseteq Leaves
  BY <1>1, <1>2 DEF TpInv, TpTyped
<1>12. scores' \ scores \subseteq {c}
  BY <1>2
<1> HIDE DEF c
<1> QED BY <1>1, <1>5, <1>6, <1>7, <1>8, <1>9, <1>10, <1>11, <1>12, WorkerStep DEF TpInv, TpTyped, c

\* The tree a delegate goes on with is the present one from then on.
LEMMA TreeFound ==
  ASSUME TpInv
  PROVE  /\ get_or_create_source_tree \in Nat \ {0}
         /\ get_or_create_source_tree # tree => tree = 0
BY WaveNat DEF get_or_create_source_tree, TpInv, TpTyped

LEMMA AppendReadsStep ==
  ASSUME TpInv, NEW w \in JobWorkers, AppendReads(w)
  PROVE  TpInv'
<1>1. hand[w].at = "begin" /\ hand[w].job.kind = "append"
  BY DEF AppendReads, Begins
<1>2. CASE leaf[hand[w].job.of] = "none"
  BY <1>1, <1>2, ReturnsNothing DEF AppendReads
<1>3. CASE leaf[hand[w].job.of] # "none"
  <2>1. PICK t : t = get_or_create_source_tree
    OBVIOUS
  <2>2. PICK v : v = [hand[w] EXCEPT !.at = "push", !.tree = t]
    OBVIOUS
  <2>3. t \in Nat \ {0} /\ tree' = t /\ (t # tree => tree = 0)
    BY <2>1, <1>3, TreeFound DEF AppendReads
  <2>4. v \in HandRec /\ v.at = "push" /\ v.tree = t /\ v.job = hand[w].job /\ v.next = hand[w].next
    BY <2>2, <2>3, HeldFacts DEF HandRec, HandAt
  <2>5. GoodHand(v)
    BY <2>3, <2>4, <1>1, HeldFacts DEF GoodHand, ForChunk
  <2>6. hand' = [hand EXCEPT ![w] = v]
    BY <2>1, <2>2, <1>3 DEF AppendReads, TpInv, TpTyped
  <2>7. UNCHANGED <<leaf, scores, buffers, summaries, queue, resetting, spent, torn, inflight, overtaken>>
    BY DEF AppendReads
  <2> QED BY <2>3, <2>4, <2>5, <2>6, <2>7, <1>1, WorkerStep DEF TpInv, TpTyped, Concludes
<1> QED BY <1>2, <1>3

SealOf(t) == Job("seal", t, FALSE)
ForcedSeal(t) == Job("seal", t, TRUE)

LEMMA SealJobGood ==
  ASSUME NEW t \in Nat
  PROVE  /\ GoodJob(SealOf(t)) /\ SealOf(t).status = "ready" /\ SealOf(t).kind = "seal"
         /\ GoodJob(ForcedSeal(t)) /\ ForcedSeal(t).status = "ready"
         /\ ForcedSeal(t).kind = "seal" /\ ForcedSeal(t).of = t
BY DEF SealOf, ForcedSeal, Job, GoodJob, JobRec, Kinds, ChunkKinds

LEMMA AppendNodeStep ==
  ASSUME TpInv, NEW w \in JobWorkers, append_node(w)
  PROVE  TpInv'
<1> DEFINE c == hand[w].job.of
           t == hand[w].tree
<1>1. hand[w].at = "push" /\ hand[w].job.kind = "append" /\ c \in Leaves /\ t \in Nat \ {0}
  BY HeldFacts DEF append_node, GoodHand, ChunkKinds
<1>2. PICK N : N = IF should_seal(Placed(buffers', t)) THEN {SealOf(t)} ELSE {}
  OBVIOUS
<1>3. /\ buffers' = buffers \cup {<<t, c>>}
      /\ leaf' = IF leaf[c] = "none" THEN leaf ELSE [leaf EXCEPT ![c] = "buffered"]
      /\ Settles(w, N)
      /\ UNCHANGED <<scores, tree, summaries, queue, resetting, spent, torn, inflight, overtaken>>
  BY <1>2 DEF append_node, SealOf
<1>4. \A n \in N : GoodJob(n) /\ n.status = "ready" /\ n.kind \notin ChunkKinds
  BY <1>1, <1>2, SealJobGood DEF ChunkKinds
<1>5. PICK v : /\ GoodHand(v) /\ v.at = "settle" /\ v.job = hand[w].job /\ v.next = N
               /\ hand' = [hand EXCEPT ![w] = v]
  <2>1. \A m, n \in N : SameKey(m, n) => m = n
    BY <1>2
  <2> QED BY <1>3, <1>4, <2>1, SettleHand
<1>6. leaf' \in [Leaves -> Statuses] /\ \A x \in Leaves : leaf'[x] = "none" <=> leaf[x] = "none"
  BY <1>1, <1>3 DEF Statuses, TpInv, TpTyped
<1>7. buffers' \subseteq (Nat \ {0}) \X Leaves /\ <<t, c>> \in buffers'
  BY <1>1, <1>3 DEF TpInv, TpTyped
<1>8. t = tree \/ c \in inflight
  BY <1>1 DEF TpInv, HeldExplained
<1>9. Current(w) => t = tree
  BY <1>1 DEF TpInv, HeldCurrent
<1>10. \A p \in (buffers' \cup summaries') \ (buffers \cup summaries) : p[1] = tree' \/ p[2] \in inflight
  BY <1>3, <1>8
<1>11. Concludes(w, v) => <<tree', c>> \in buffers' \cup summaries'
  BY <1>3, <1>7, <1>9 DEF Concludes
<1>12. ~(hand[w].job.kind = "extract") /\ hand[w].at # "idle" /\ v.at = "settle"
  BY <1>1, <1>5
<1> HIDE DEF c, t
<1> QED BY <1>3, <1>5, <1>6, <1>7, <1>10, <1>11, <1>12, WorkerStep DEF TpInv, TpTyped, c

LEMMA SealReadsStep ==
  ASSUME TpInv, NEW w \in JobWorkers, SealReads(w)
  PROVE  TpInv'
<1> DEFINE t == hand[w].job.of
           items == Placed(buffers, t)
           none == t # tree \/ items = {} \/ (~hand[w].job.forced /\ ~should_seal(items))
<1>1. hand[w].at = "begin" /\ hand[w].job.kind = "seal"
  BY DEF SealReads, Begins
<1>2. UNCHANGED <<leaf, scores, tree, buffers, summaries, queue, resetting, spent, torn, inflight, overtaken>>
  BY DEF SealReads
<1>3. CASE none
  <2>1. Settles(w, {})
    BY <1>3 DEF SealReads
  <2> QED BY <1>1, <1>2, <2>1, ReturnsNothing DEF ChunkKinds
<1>4. CASE ~none
  <2>1. t = tree /\ items # {} /\ items \subseteq Leaves
    BY <1>4 DEF Placed
  <2>2. t # 0 /\ t \in Nat
    BY <2>1 DEF Placed, TpInv, TpTyped
  <2>3. hand' = [hand EXCEPT ![w].at = "summarise", ![w].tree = t, ![w].items = items]
    BY <1>4 DEF SealReads
  <2>4. PICK v : v = [hand[w] EXCEPT !.at = "summarise", !.tree = t, !.items = items]
    OBVIOUS
  <2>5. v \in HandRec /\ v.at = "summarise" /\ v.tree = t /\ v.job = hand[w].job /\ v.next = hand[w].next
    BY <2>1, <2>2, <2>4, HeldFacts DEF HandRec, HandAt
  <2>6. GoodHand(v)
    BY <2>2, <2>5, <1>1, HeldFacts DEF GoodHand, ForChunk
  <2>7. hand' = [hand EXCEPT ![w] = v]
    BY <2>3, <2>4 DEF TpInv, TpTyped
  <2>8. v.tree = tree
    BY <2>1, <2>5
  <2> QED BY <2>5, <2>6, <2>7, <2>8, <1>1, <1>2, WorkerStep DEF TpInv, TpTyped, Concludes
<1> QED BY <1>3, <1>4

\* A summary of what was read is stored, and the items leave the buffer or were never
\* in it.
LEMMA SummaryStep ==
  ASSUME TpInv, NEW w \in JobWorkers, hand[w].at \in {"summarise", "document"}, Settles(w, {}),
         summaries' = summaries \cup {<<hand[w].tree, x>> : x \in hand[w].items},
         buffers' \subseteq buffers,
         \A p \in buffers \ buffers' : p \in summaries',
         UNCHANGED <<leaf, scores, tree, queue, resetting, spent, torn, inflight, overtaken>>
  PROVE  TpInv'
<1>1. /\ hand[w].tree \in Nat \ {0} /\ hand[w].items \subseteq Leaves
      /\ hand[w].at = "summarise" => hand[w].job.kind = "seal"
      /\ hand[w].at = "document" => hand[w].job.kind = "seal_document" /\ hand[w].items = {hand[w].job.of}
  BY HeldFacts DEF GoodHand
<1>2. PICK v : /\ GoodHand(v) /\ v.at = "settle" /\ v.job = hand[w].job /\ v.next = {}
               /\ hand' = [hand EXCEPT ![w] = v]
  BY SettleHand
<1>3. hand[w].tree = tree \/ hand[w].items \subseteq inflight
  BY DEF TpInv, HeldExplained
<1>4. Current(w) => hand[w].tree = tree
  BY DEF TpInv, HeldCurrent
<1>5. summaries' \subseteq (Nat \ {0}) \X Leaves /\ buffers' \subseteq (Nat \ {0}) \X Leaves
  BY <1>1 DEF TpInv, TpTyped
<1>6. \A p \in (buffers' \cup summaries') \ (buffers \cup summaries) : p[1] = tree' \/ p[2] \in inflight
  BY <1>3
<1>7. \A c \in Leaves : <<tree, c>> \in buffers \cup summaries => <<tree, c>> \in buffers' \cup summaries'
  OBVIOUS
<1>8. Concludes(w, v) => <<tree', hand[w].job.of>> \in buffers' \cup summaries'
  BY <1>1, <1>4 DEF Concludes, ChunkKinds
<1>9. ~(hand[w].job.kind = "extract") /\ hand[w].at # "idle"
  BY <1>1
<1> QED BY <1>2, <1>5, <1>6, <1>7, <1>8, <1>9, WorkerStep DEF TpInv, TpTyped

LEMMA SealWritesStep ==
  ASSUME TpInv, NEW w \in JobWorkers, SealWrites(w)
  PROVE  TpInv'
BY SummaryStep DEF SealWrites, AfterSeal

LEMMA SealDocumentStep ==
  ASSUME TpInv, NEW w \in JobWorkers, seal_document(w)
  PROVE  TpInv'
BY SummaryStep DEF seal_document

LEMMA DocumentReadsStep ==
  ASSUME TpInv, NEW w \in JobWorkers, DocumentReads(w)
  PROVE  TpInv'
<1>1. hand[w].at = "begin" /\ hand[w].job.kind = "seal_document" /\ hand[w].job.of \in Leaves
  BY HeldFacts DEF DocumentReads, Begins, ChunkKinds
<1>2. PICK t : t = get_or_create_source_tree
  OBVIOUS
<1>3. PICK v : v = [hand[w] EXCEPT !.at = "document", !.tree = t, !.items = {hand[w].job.of}]
  OBVIOUS
<1>4. t \in Nat \ {0} /\ tree' = t /\ (t # tree => tree = 0)
  BY <1>2, TreeFound DEF DocumentReads
<1>5. /\ v \in HandRec /\ v.at = "document" /\ v.tree = t /\ v.job = hand[w].job /\ v.next = hand[w].next
      /\ v.items = {v.job.of}
  BY <1>1, <1>3, <1>4, HeldFacts DEF HandRec, HandAt
<1>6. GoodHand(v)
  BY <1>1, <1>4, <1>5, HeldFacts DEF GoodHand, ForChunk
<1>7. hand' = [hand EXCEPT ![w] = v]
  BY <1>2, <1>3 DEF DocumentReads, TpInv, TpTyped
<1>8. UNCHANGED <<leaf, scores, buffers, summaries, queue, resetting, spent, torn, inflight, overtaken>>
  BY DEF DocumentReads
<1> QED BY <1>1, <1>4, <1>5, <1>6, <1>7, <1>8, WorkerStep DEF TpInv, TpTyped, Concludes

LEMMA FlushStep ==
  ASSUME TpInv, NEW w \in JobWorkers, list_stale_buffers(w)
  PROVE  TpInv'
<1>1. hand[w].at = "begin" /\ hand[w].job.kind = "flush"
  BY DEF list_stale_buffers, Begins
<1>2. PICK N : N = {ForcedSeal(b[1]) : b \in buffers}
  OBVIOUS
<1>3. \A b \in buffers : b[1] \in Nat
  BY DEF TpInv, TpTyped
<1>4. \A n \in N : GoodJob(n) /\ n.status = "ready" /\ n.kind = "seal" /\ n = ForcedSeal(n.of)
  BY <1>2, <1>3, SealJobGood
<1>5. \A m, n \in N : SameKey(m, n) => m = n
  BY <1>4 DEF SameKey
<1>6. PICK v : /\ GoodHand(v) /\ v.at = "settle" /\ v.job = hand[w].job /\ v.next = N
               /\ hand' = [hand EXCEPT ![w] = v]
  <2>1. Settles(w, N)
    BY <1>2 DEF list_stale_buffers, ForcedSeal
  <2> QED BY <2>1, <1>4, <1>5, SettleHand DEF ChunkKinds
<1>7. ~Concludes(w, v)
  BY <1>1 DEF Concludes, ChunkKinds
<1>8. UNCHANGED <<leaf, scores, tree, buffers, summaries, queue, resetting, spent, torn, inflight, overtaken>>
  BY DEF list_stale_buffers
<1> QED BY <1>1, <1>6, <1>7, <1>8, WorkerStep DEF TpInv, TpTyped

-----------------------------------------------------------------------------
(* The queue changes under the workers. *)

Stamped(n) == [n EXCEPT !.wave = wave]

LEMMA StampedFields ==
  ASSUME TpInv, NEW n, GoodJob(n), n.status = "ready"
  PROVE  /\ GoodJob(Stamped(n)) /\ Stamped(n).status = "ready" /\ Stamped(n).wave = wave
         /\ Stamped(n).kind = n.kind /\ Stamped(n).of = n.of
BY WaveNat DEF Stamped, GoodJob, JobRec

\* What Enqueue adds, and that afterwards every key asked for has an active job.
LEMMA EnqueueFacts ==
  ASSUME TpInv, NEW q, NEW new, \A n \in new : GoodJob(n) /\ n.status = "ready"
  PROVE  /\ q \subseteq Enqueue(q, new)
         /\ \A k \in Enqueue(q, new) \ q : \E n \in new :
              k = Stamped(n) /\ ~\E j \in q : SameKey(n, j) /\ j.status # "failed"
         /\ \A n \in new : \E k \in Enqueue(q, new) : SameKey(n, k) /\ k.status # "failed"
         /\ \A n \in new : (~\E j \in q : SameKey(n, j) /\ j.status # "failed")
                           => Stamped(n) \in Enqueue(q, new)
<1>1. Enqueue(q, new) =
        q \cup {Stamped(n) : n \in {m \in new : ~\E k \in q : SameKey(m, k) /\ k.status # "failed"}}
  BY DEF Enqueue, Stamped
<1>2. \A n \in new : SameKey(n, Stamped(n)) /\ Stamped(n).status # "failed"
  BY StampedFields DEF SameKey
<1> QED BY <1>1, <1>2

LEMMA EnqueueUnique ==
  ASSUME TpInv, NEW q, NEW new, \A n \in new : GoodJob(n) /\ n.status = "ready",
         \A j, k \in q : SameKey(j, k) /\ j.status # "failed" /\ k.status # "failed" => j = k,
         \A m, n \in new : SameKey(m, n) => m = n
  PROVE  \A j, k \in Enqueue(q, new) : SameKey(j, k) /\ j.status # "failed" /\ k.status # "failed" => j = k
<1> SUFFICES ASSUME NEW j \in Enqueue(q, new), NEW k \in Enqueue(q, new), SameKey(j, k),
                    j.status # "failed", k.status # "failed"
             PROVE  j = k
  OBVIOUS
<1>1. \A x \in Enqueue(q, new) \ q : \E n \in new :
        /\ x = Stamped(n) /\ x.kind = n.kind /\ x.of = n.of
        /\ ~\E y \in q : SameKey(n, y) /\ y.status # "failed"
  BY EnqueueFacts, StampedFields
<1>2. CASE j \in q /\ k \in q
  BY <1>2
<1>3. CASE j \in q /\ k \notin q
  BY <1>1, <1>3 DEF SameKey
<1>4. CASE j \notin q /\ k \in q
  BY <1>1, <1>4 DEF SameKey
<1>5. CASE j \notin q /\ k \notin q
  BY <1>1, <1>5 DEF SameKey
<1> QED BY <1>2, <1>3, <1>4, <1>5

LEMMA QueueStep ==
  ASSUME TpInv,
         UNCHANGED <<scores, tree, buffers, summaries, hand, spent, torn, inflight, overtaken>>,
         resetting' \in BOOLEAN, leaf' \in [Leaves -> Statuses],
         \A c \in Leaves : leaf[c] # "none" => leaf'[c] # "none",
         \A j \in queue' : GoodJob(j) /\ j.wave = wave /\ (j.kind = "extract" => leaf'[j.of] # "none"),
         \A j, k \in queue' : SameKey(j, k) /\ j.status # "failed" /\ k.status # "failed" => j = k,
         \A w \in JobWorkers : Current(w) => Row(hand[w].job) \in queue',
         ~torn /\ ~resetting' =>
           \A c \in Leaves : \/ leaf'[c] = "none" \/ c \in overtaken
                             \/ <<tree, c>> \in buffers \cup summaries
                             \/ \E j \in queue' : j.kind \in ChunkKinds /\ j.of = c /\ ~Finishing(j)
  PROVE  TpInv'
<1>1. wave' = wave /\ \A w \in JobWorkers : Current(w)' <=> Current(w)
  BY DEF wave, Current
<1>2. \A j : Finishing(j)' <=> Finishing(j)
  BY <1>1 DEF Finishing, ForChunk
<1>3. TpTyped'
  BY <1>1 DEF TpInv, TpTyped
<1>4. UniqueKeys' /\ RowsCurrent' /\ HeldRows' /\ HeldOnce' /\ HeldCurrent'
  BY <1>1 DEF TpInv, UniqueKeys, RowsCurrent, HeldRows, HeldOnce, HeldCurrent
<1>5. HeldExplained'
  <2>1. \A w \in JobWorkers : hand[w].at = "score" => hand[w].job.of \in Leaves
    BY HeldFacts DEF GoodHand, ChunkKinds
  <2> QED BY <2>1 DEF TpInv, HeldExplained
<1>6. DroppedOvertaken'
  BY <1>1 DEF TpInv, DroppedOvertaken, ForChunk
<1>7. OrphansFromInflight'
  BY DEF TpInv, TpTyped, OrphansFromInflight
<1>8. KeptHasWay'
  BY <1>2 DEF KeptHasWay, Secured, Live
<1> QED BY <1>3, <1>4, <1>5, <1>6, <1>7, <1>8 DEF TpInv

ExtractOf(c) == Job("extract", c, FALSE)

LEMMA ExtractJobGood ==
  ASSUME NEW c \in Leaves
  PROVE  GoodJob(ExtractOf(c)) /\ ExtractOf(c).status = "ready" /\ ExtractOf(c).kind = "extract"
         /\ ExtractOf(c).of = c
BY DEF ExtractOf, Job, GoodJob, JobRec, Kinds, ChunkKinds

\* Extractions are queued for chunks that have a row.
LEMMA ExtractionsQueued ==
  ASSUME TpInv, NEW C \in SUBSET Leaves,
         UNCHANGED <<scores, tree, buffers, summaries, hand, spent, torn, inflight, overtaken>>,
         resetting' \in BOOLEAN, leaf' \in [Leaves -> Statuses],
         \A c \in Leaves : leaf[c] # "none" => leaf'[c] # "none",
         \A c \in C : leaf'[c] # "none",
         queue' = Enqueue(queue, {ExtractOf(c) : c \in C}),
         ~torn /\ ~resetting' => \A c \in Leaves \ C : leaf'[c] = "none" \/ (leaf[c] # "none" /\ Secured(c))
  PROVE  TpInv'
<1>1. PICK N : N = {ExtractOf(c) : c \in C}
  OBVIOUS
<1>2. \A n \in N : /\ GoodJob(n) /\ n.status = "ready" /\ n.kind = "extract"
                   /\ n.of \in C /\ n = ExtractOf(n.of)
  BY <1>1, ExtractJobGood
<1>3. \A m, n \in N : SameKey(m, n) => m = n
  BY <1>2 DEF SameKey
<1>4. queue' = Enqueue(queue, N) /\ queue \subseteq queue'
  BY <1>1, <1>2, EnqueueFacts
<1>5. \A j \in queue' : GoodJob(j) /\ j.wave = wave /\ (j.kind = "extract" => leaf'[j.of] # "none")
  <2> SUFFICES ASSUME NEW j \in queue'
               PROVE  GoodJob(j) /\ j.wave = wave /\ (j.kind = "extract" => leaf'[j.of] # "none")
    OBVIOUS
  <2>1. CASE j \in queue
    BY <2>1 DEF TpInv, TpTyped, RowsCurrent, GoodJob, ChunkKinds
  <2>2. CASE j \notin queue
    <3>1. PICK n \in N : j = Stamped(n)
      BY <1>2, <1>4, <2>2, EnqueueFacts
    <3> QED BY <3>1, <1>2, StampedFields
  <2> QED BY <2>1, <2>2
<1>6. \A j, k \in queue' : SameKey(j, k) /\ j.status # "failed" /\ k.status # "failed" => j = k
  BY <1>2, <1>3, <1>4, EnqueueUnique DEF TpInv, UniqueKeys
<1>7. ASSUME NEW c \in C
      PROVE  c \in overtaken \/ \E j \in queue' : j.kind \in ChunkKinds /\ j.of = c /\ ~Finishing(j)
  <2>1. ExtractOf(c) \in N /\ ExtractOf(c).kind = "extract" /\ ExtractOf(c).of = c
    BY <1>1, ExtractJobGood
  <2>2. PICK j \in queue' : SameKey(ExtractOf(c), j) /\ j.status # "failed"
    BY <1>2, <1>4, <2>1, EnqueueFacts
  <2>3. j.kind = "extract" /\ j.of = c
    BY <2>1, <2>2 DEF SameKey
  <2>4. CASE Finishing(j)
    BY <2>3, <2>4 DEF Finishing, SameKey, TpInv, DroppedOvertaken
  <2> QED BY <2>3, <2>4 DEF ChunkKinds
<1>8. \A w \in JobWorkers : Current(w) => Row(hand[w].job) \in queue'
  BY <1>4 DEF TpInv, HeldRows
<1>9. ~torn /\ ~resetting' =>
        \A c \in Leaves : \/ leaf'[c] = "none" \/ c \in overtaken
                          \/ <<tree, c>> \in buffers \cup summaries
                          \/ \E j \in queue' : j.kind \in ChunkKinds /\ j.of = c /\ ~Finishing(j)
  <2>1. \A c : Live(c) => \E j \in queue' : j.kind \in ChunkKinds /\ j.of = c /\ ~Finishing(j)
    BY <1>4 DEF Live
  <2>2. \A c \in Leaves : Secured(c) => \/ leaf[c] = "none" \/ c \in overtaken
                          \/ <<tree, c>> \in buffers \cup summaries \/ Live(c)
    BY DEF Secured
  <2> QED BY <1>7, <2>1, <2>2
<1> QED BY <1>5, <1>6, <1>8, <1>9, QueueStep

LEMMA IngestStep ==
  ASSUME TpInv, NEW c \in Leaves, IngestLeaf(c)
  PROVE  TpInv'
<1>1. queue' = Enqueue(queue, {ExtractOf(x) : x \in {c}})
  <2>1. {ExtractOf(x) : x \in {c}} = {ExtractOf(c)}
    OBVIOUS
  <2> QED BY <2>1 DEF IngestLeaf, ExtractOf
<1>2. leaf' \in [Leaves -> Statuses] /\ leaf'[c] # "none" /\ \A x \in Leaves \ {c} : leaf'[x] = leaf[x]
  BY DEF IngestLeaf, TpInv, TpTyped, Statuses
<1>3. UNCHANGED <<scores, tree, buffers, summaries, hand, spent, torn, inflight, overtaken, resetting>>
  BY DEF IngestLeaf
<1>4. ~torn /\ ~resetting => \A x \in Leaves : Secured(x)
  BY DEF TpInv, KeptHasWay
<1>5. resetting' \in BOOLEAN
  BY <1>3 DEF TpInv, TpTyped
<1>6. \A x \in Leaves : leaf[x] # "none" => leaf'[x] # "none"
  BY <1>2
<1>7. {c} \in SUBSET Leaves
  OBVIOUS
<1> QED BY <1>1, <1>2, <1>3, <1>4, <1>5, <1>6, <1>7, ExtractionsQueued

LEMMA RequeueStep ==
  ASSUME TpInv, ResetRequeues
  PROVE  TpInv'
<1>1. PICK C : C = Requeued
  OBVIOUS
<1>2. C \in SUBSET Leaves /\ \A x \in Leaves : x \in C <=> leaf[x] # "none"
  BY <1>1 DEF Requeued
<1>3. queue' = Enqueue(queue, {ExtractOf(x) : x \in C})
  BY <1>1 DEF ResetRequeues, ExtractOf
<1>4. leaf' = [x \in Leaves |-> IF x \in C THEN "pending_extraction" ELSE leaf[x]]
  BY <1>1 DEF ResetRequeues
<1>5. leaf' \in [Leaves -> Statuses] /\ \A x \in C : leaf'[x] # "none"
  BY <1>2, <1>4 DEF TpInv, TpTyped, Statuses
<1>6. \A x \in Leaves \ C : leaf'[x] = "none"
  BY <1>2, <1>4
<1>7. UNCHANGED <<scores, tree, buffers, summaries, hand, spent, torn, inflight, overtaken>> /\ resetting' \in BOOLEAN
  BY DEF ResetRequeues
<1> QED BY <1>2, <1>3, <1>5, <1>6, <1>7, ExtractionsQueued

LEMMA FlushPendingStep ==
  ASSUME TpInv, flush_pending
  PROVE  TpInv'
<1>1. PICK n : n = Job("flush", 0, FALSE)
  OBVIOUS
<1>2. GoodJob(n) /\ n.status = "ready" /\ n.kind = "flush"
  BY <1>1 DEF Job, GoodJob, JobRec, Kinds, ChunkKinds
<1>3. PICK N : N = {n}
  OBVIOUS
<1>4. queue' = Enqueue(queue, N) /\ \A m \in N : GoodJob(m) /\ m.status = "ready" /\ m.kind = "flush"
  BY <1>1, <1>2, <1>3 DEF flush_pending
<1>5. queue \subseteq queue'
  BY <1>4, EnqueueFacts
<1>6. UNCHANGED <<leaf, scores, tree, buffers, summaries, hand, resetting, spent, torn, inflight, overtaken>>
  BY DEF flush_pending
<1>7. \A j \in queue' : GoodJob(j) /\ j.wave = wave /\ (j.kind = "extract" => leaf'[j.of] # "none")
  <2>1. \A j \in queue' \ queue : GoodJob(j) /\ j.wave = wave /\ j.kind = "flush"
    BY <1>4, EnqueueFacts, StampedFields
  <2> QED BY <1>6, <2>1 DEF TpInv, TpTyped, RowsCurrent
<1>8. \A j, k \in queue' : SameKey(j, k) /\ j.status # "failed" /\ k.status # "failed" => j = k
  BY <1>3, <1>4, EnqueueUnique DEF TpInv, UniqueKeys
<1>9. \A w \in JobWorkers : Current(w) => Row(hand[w].job) \in queue'
  BY <1>5 DEF TpInv, HeldRows
<1>10. ~torn /\ ~resetting' =>
         \A c \in Leaves : \/ leaf'[c] = "none" \/ c \in overtaken
                           \/ <<tree, c>> \in buffers \cup summaries
                           \/ \E j \in queue' : j.kind \in ChunkKinds /\ j.of = c /\ ~Finishing(j)
  BY <1>5, <1>6 DEF TpInv, KeptHasWay, Secured, Live
<1> QED BY <1>6, <1>7, <1>8, <1>9, <1>10, QueueStep DEF TpInv, TpTyped

Readied(j) == [j EXCEPT !.status = "ready"]

LEMMA ReadiedFields ==
  ASSUME NEW j, GoodJob(j)
  PROVE  GoodJob(Readied(j)) /\ Readied(j).kind = j.kind /\ Readied(j).of = j.of
         /\ Readied(j).wave = j.wave /\ Readied(j).status = "ready"
BY DEF Readied, GoodJob, JobRec

\* Parked jobs and lost rows become ready again; every key keeps a row.
LEMMA RetryStep ==
  ASSUME TpInv, retry_failed
  PROVE  TpInv'
<1> DEFINE parked == {j \in queue : j.status = "failed"}
           active == queue \ parked
<1>1. PICK S \in SUBSET parked :
        /\ \A j, k \in S : SameKey(j, k) => j = k
        /\ \A j \in parked : \E k \in S \cup active : SameKey(j, k)
        /\ \A j \in S, k \in active : ~SameKey(j, k)
        /\ queue' = active \cup {Readied(j) : j \in S}
  BY DEF retry_failed, Readied
<1>2. UNCHANGED <<leaf, scores, tree, buffers, summaries, hand, resetting, spent, torn, inflight, overtaken>>
  BY DEF retry_failed
<1>3. \A k \in queue' : k \in active \/ \E j \in S :
        /\ k = Readied(j) /\ GoodJob(k) /\ k.kind = j.kind /\ k.of = j.of
        /\ k.wave = j.wave
  BY <1>1, ReadiedFields DEF TpInv, TpTyped
<1>4. \A j \in queue' : GoodJob(j) /\ j.wave = wave /\ (j.kind = "extract" => leaf'[j.of] # "none")
  BY <1>1, <1>2, <1>3 DEF TpInv, TpTyped, RowsCurrent
<1>5. \A j, k \in queue' : SameKey(j, k) /\ j.status # "failed" /\ k.status # "failed" => j = k
  BY <1>1, <1>3 DEF TpInv, UniqueKeys, SameKey
<1>6. \A w \in JobWorkers : Current(w) => Row(hand[w].job) \in queue'
  <2> SUFFICES ASSUME NEW w \in JobWorkers, Current(w) PROVE Row(hand[w].job) \in queue'
    OBVIOUS
  <2>1. Row(hand[w].job) \in queue
    BY DEF TpInv, HeldRows
  <2>2. Row(hand[w].job).status = "running"
    BY HeldFacts, RowFields DEF GoodJob
  <2> QED BY <1>1, <2>1, <2>2
<1>7. \A j \in queue : \E k \in queue' : SameKey(j, k)
  <2> SUFFICES ASSUME NEW j \in queue PROVE \E k \in queue' : SameKey(j, k)
    OBVIOUS
  <2>1. PICK k \in S \cup active : SameKey(j, k)
    BY <1>1 DEF SameKey
  <2>2. CASE k \in active
    BY <1>1, <2>1, <2>2
  <2>3. CASE k \in S
    <3>1. Readied(k) \in queue'
      BY <1>1, <2>3
    <3>2. GoodJob(k)
      BY <2>3 DEF TpInv, TpTyped
    <3>3. SameKey(j, Readied(k))
      BY <2>1, <3>2, ReadiedFields DEF SameKey
    <3> QED BY <3>1, <3>3
  <2> QED BY <2>2, <2>3
<1>8. ~torn /\ ~resetting' =>
        \A c \in Leaves : \/ leaf'[c] = "none" \/ c \in overtaken
                          \/ <<tree, c>> \in buffers \cup summaries
                          \/ \E j \in queue' : j.kind \in ChunkKinds /\ j.of = c /\ ~Finishing(j)
  <2>1. \A j, k : SameKey(j, k) => (Finishing(j) <=> Finishing(k))
    BY DEF Finishing, SameKey
  <2>2. \A c : Live(c) => \E j \in queue' : j.kind \in ChunkKinds /\ j.of = c /\ ~Finishing(j)
    BY <1>7, <2>1 DEF Live, SameKey
  <2> QED BY <1>2, <2>2 DEF TpInv, KeptHasWay, Secured
<1> HIDE DEF parked, active
<1> QED BY <1>2, <1>4, <1>5, <1>6, <1>8, QueueStep DEF TpInv, TpTyped

LEMMA RecoverStep ==
  ASSUME TpInv, recover_stale_locks
  PROVE  TpInv'
<1> DEFINE lost == {j \in queue : j.status = "running" /\ ~\E w \in JobWorkers : Row(hand[w].job) = j /\ hand[w].at # "idle"}
<1>1. queue' = (queue \ lost) \cup {Readied(j) : j \in lost}
  BY DEF recover_stale_locks, Readied
<1>2. UNCHANGED <<leaf, scores, tree, buffers, summaries, hand, resetting, spent, torn, inflight, overtaken>>
  BY DEF recover_stale_locks
<1>3. \A k \in queue' : k \in queue \ lost \/ \E j \in lost :
        /\ k = Readied(j) /\ GoodJob(k) /\ k.kind = j.kind /\ k.of = j.of
        /\ k.wave = j.wave
  BY <1>1, ReadiedFields DEF TpInv, TpTyped
<1>4. \A j \in queue' : GoodJob(j) /\ j.wave = wave /\ (j.kind = "extract" => leaf'[j.of] # "none")
  BY <1>2, <1>3 DEF TpInv, TpTyped, RowsCurrent
<1>5. \A j, k \in queue' : SameKey(j, k) /\ j.status # "failed" /\ k.status # "failed" => j = k
  <2>1. \A j, k \in queue : SameKey(j, k) /\ j.status # "failed" /\ k.status # "failed" => j = k
    BY DEF TpInv, UniqueKeys
  <2>2. \A j \in lost : j \in queue /\ j.status # "failed"
    OBVIOUS
  <2> HIDE DEF lost
  <2> QED BY <1>3, <2>1, <2>2 DEF SameKey
<1>6. \A w \in JobWorkers : Current(w) => Row(hand[w].job) \in queue'
  BY <1>1 DEF TpInv, HeldRows, Current
<1>7. \A j \in queue : \E k \in queue' : SameKey(j, k)
  <2> SUFFICES ASSUME NEW j \in queue PROVE \E k \in queue' : SameKey(j, k)
    OBVIOUS
  <2>1. CASE j \in lost
    <3>1. Readied(j) \in queue'
      BY <1>1, <2>1
    <3>2. GoodJob(j)
      BY DEF TpInv, TpTyped
    <3>3. SameKey(j, Readied(j))
      BY <3>2, ReadiedFields DEF SameKey
    <3> QED BY <3>1, <3>3
  <2>2. CASE j \notin lost
    BY <1>1, <2>2 DEF SameKey
  <2> QED BY <2>1, <2>2
<1>8. ~torn /\ ~resetting' =>
        \A c \in Leaves : \/ leaf'[c] = "none" \/ c \in overtaken
                          \/ <<tree, c>> \in buffers \cup summaries
                          \/ \E j \in queue' : j.kind \in ChunkKinds /\ j.of = c /\ ~Finishing(j)
  <2>1. \A j, k : SameKey(j, k) => (Finishing(j) <=> Finishing(k))
    BY DEF Finishing, SameKey
  <2>2. \A c : Live(c) => \E j \in queue' : j.kind \in ChunkKinds /\ j.of = c /\ ~Finishing(j)
    BY <1>7, <2>1 DEF Live, SameKey
  <2> QED BY <1>2, <2>2 DEF TpInv, KeptHasWay, Secured
<1> HIDE DEF lost
<1> QED BY <1>2, <1>4, <1>5, <1>6, <1>8, QueueStep DEF TpInv, TpTyped

-----------------------------------------------------------------------------
(* A worker takes a job, or is done with one. *)

FinishingBut(w, j) ==
  \E u \in JobWorkers \ {w} :
    Current(u) /\ hand[u].at = "settle" /\ SameKey(hand[u].job, j) /\ ForChunk(hand[u]) = {}

LEMMA TurnStep ==
  ASSUME TpInv, NEW w \in JobWorkers, NEW v, GoodHand(v), v.job.wave <= wave,
         v.at \in {"idle", "begin"}, hand' = [hand EXCEPT ![w] = v],
         UNCHANGED <<leaf, scores, tree, buffers, summaries, resetting, torn, inflight>>,
         spent' \in [Faults -> Nat], wave' = wave,
         overtaken \subseteq overtaken', overtaken' \subseteq Leaves,
         \A j \in queue' : GoodJob(j) /\ j.wave = wave /\ (j.kind = "extract" => leaf[j.of] # "none"),
         \A j, k \in queue' : SameKey(j, k) /\ j.status # "failed" /\ k.status # "failed" => j = k,
         \A u \in JobWorkers : u # w /\ Current(u) => Row(hand[u].job) \in queue',
         v.at = "begin" => Row(v.job) \in queue',
         v.at = "begin" => \A u \in JobWorkers : u # w /\ Current(u) => ~SameKey(hand[u].job, v.job),
         \A c \in Leaves : Live(c) =>
           c \in overtaken' \/ \E j \in queue' : j.kind \in ChunkKinds /\ j.of = c /\ ~FinishingBut(w, j)
  PROVE  TpInv'
<1>1. /\ hand' \in [JobWorkers -> HandRec]
      /\ hand'[w] = v
      /\ \A u \in JobWorkers : u # w => hand'[u] = hand[u]
      /\ \A u \in JobWorkers : GoodHand(hand'[u])
  BY HandStep
<1>2. \A u \in JobWorkers : u # w => (Current(u)' <=> Current(u))
  BY <1>1 DEF Current
<1>3. Current(w)' => v.at = "begin"
  BY <1>1 DEF Current
<1>4. TpTyped'
  BY <1>1 DEF TpInv, TpTyped
<1>5. UniqueKeys' /\ RowsCurrent'
  BY DEF UniqueKeys, RowsCurrent
<1>6. HeldRows'
  BY <1>1, <1>2, <1>3 DEF HeldRows
<1>7. HeldOnce'
  BY <1>1, <1>2, <1>3 DEF TpInv, HeldOnce, SameKey
<1>8. HeldCurrent' /\ HeldExplained'
  BY <1>1, <1>2 DEF TpInv, HeldCurrent, HeldExplained
<1>9. DroppedOvertaken'
  BY <1>1, <1>2 DEF TpInv, DroppedOvertaken, ForChunk
<1>10. OrphansFromInflight'
  BY DEF TpInv, OrphansFromInflight
<1>11. \A j : Finishing(j)' => FinishingBut(w, j)
  BY <1>1, <1>2 DEF Finishing, FinishingBut, ForChunk
<1>12. KeptHasWay'
  BY <1>11 DEF TpInv, KeptHasWay, Secured, Live
<1> QED BY <1>4, <1>5, <1>6, <1>7, <1>8, <1>9, <1>10, <1>12 DEF TpInv

LEMMA ClaimStep ==
  ASSUME TpInv, NEW w \in JobWorkers, Claim(w)
  PROVE  TpInv'
<1>1. PICK j \in queue :
        /\ j.status = "ready"
        /\ queue' = (queue \ {j}) \cup {Row(j)}
        /\ hand' = [hand EXCEPT ![w] = [Free EXCEPT !.at = "begin", !.job = j]]
  BY DEF Claim
<1>2. GoodJob(j) /\ j.wave = wave /\ j \in JobRec
  BY DEF TpInv, TpTyped, RowsCurrent, GoodJob
<1>3. PICK v : v = [Free EXCEPT !.at = "begin", !.job = j]
  OBVIOUS
<1>4. v \in HandRec /\ v.at = "begin" /\ v.job = j /\ v.next = {}
  <2>1. Free \in HandRec /\ Free.next = {}
    BY FreeGood DEF GoodHand, Free
  <2> QED BY <1>2, <1>3, <2>1 DEF HandRec, HandAt
<1>5. GoodHand(v)
  BY <1>1, <1>2, <1>4 DEF GoodHand, ForChunk
<1>6. UNCHANGED <<leaf, scores, tree, buffers, summaries, resetting, spent, torn, inflight, overtaken>>
  BY DEF Claim
<1>7. /\ GoodJob(Row(j)) /\ Row(j).kind = j.kind /\ Row(j).of = j.of /\ Row(j).wave = wave
      /\ Row(j).status = "running"
  BY <1>2, RowFields
<1>8. \A k \in queue' : GoodJob(k) /\ k.wave = wave /\ (k.kind = "extract" => leaf[k.of] # "none")
  BY <1>1, <1>7 DEF TpInv, TpTyped, RowsCurrent
<1>9. \A i, k \in queue' : SameKey(i, k) /\ i.status # "failed" /\ k.status # "failed" => i = k
  BY <1>1, <1>7 DEF TpInv, UniqueKeys, SameKey
<1>10. ASSUME NEW u \in JobWorkers, Current(u)
       PROVE  Row(hand[u].job) \in queue' /\ ~SameKey(hand[u].job, j)
  <2>1. Row(hand[u].job) \in queue
    BY <1>10 DEF TpInv, HeldRows
  <2>2. Row(hand[u].job).status = "running" /\ \A k : SameKey(Row(hand[u].job), k) <=> SameKey(hand[u].job, k)
    BY HeldFacts, RowFields DEF GoodJob
  <2> QED BY <1>1, <2>1, <2>2 DEF TpInv, UniqueKeys
<1>11. ASSUME NEW c \in Leaves, Live(c)
       PROVE  \E k \in queue' : k.kind \in ChunkKinds /\ k.of = c /\ ~FinishingBut(w, k)
  <2>1. PICK i \in queue : i.kind \in ChunkKinds /\ i.of = c /\ ~Finishing(i)
    BY <1>11 DEF Live
  <2>2. \A k : SameKey(i, k) => ~FinishingBut(w, k)
    BY <2>1 DEF Finishing, FinishingBut, SameKey
  <2>3. CASE i = j
    BY <1>1, <1>7, <2>1, <2>2, <2>3 DEF SameKey
  <2>4. CASE i # j
    BY <1>1, <2>1, <2>2, <2>4 DEF SameKey
  <2> QED BY <2>3, <2>4
<1>12. wave' = wave /\ spent' \in [Faults -> Nat] /\ v.job.wave <= wave
  BY <1>2, <1>4, <1>6, WaveNat DEF wave, TpInv, TpTyped
<1>13. hand' = [hand EXCEPT ![w] = v] /\ Row(v.job) \in queue'
  BY <1>1, <1>3, <1>4
<1>14. overtaken \subseteq overtaken' /\ overtaken' \subseteq Leaves
  BY <1>6 DEF TpInv, TpTyped
<1> QED BY <1>4, <1>5, <1>6, <1>8, <1>9, <1>10, <1>11, <1>12, <1>13, <1>14, TurnStep

\* No other worker holds the row a worker is done with.
LEMMA OthersRows ==
  ASSUME TpInv, NEW w \in JobWorkers, hand[w].at # "idle", NEW u \in JobWorkers, u # w, Current(u)
  PROVE  Row(hand[u].job) \in queue \ {Row(hand[w].job)}
<1>1. Row(hand[u].job) \in queue
  BY DEF TpInv, HeldRows
<1>2. /\ Row(hand[u].job).wave = hand[u].job.wave /\ Row(hand[w].job).wave = hand[w].job.wave
      /\ \A k : SameKey(hand[u].job, k) <=> SameKey(Row(hand[u].job), k)
      /\ \A k : SameKey(k, Row(hand[w].job)) <=> SameKey(k, hand[w].job)
  BY HeldFacts, RowFields DEF GoodJob
<1>3. ASSUME Row(hand[u].job) = Row(hand[w].job) PROVE FALSE
  <2>1. Current(w)
    BY <1>2, <1>3 DEF Current
  <2>2. SameKey(hand[u].job, hand[w].job)
    BY <1>2, <1>3 DEF SameKey
  <2> QED BY <2>1, <2>2 DEF TpInv, HeldOnce
<1> QED BY <1>1, <1>3

LEMMA JobFailsStep ==
  ASSUME TpInv, NEW w \in JobWorkers, JobFails(w)
  PROVE  TpInv'
<1> DEFINE row == Row(hand[w].job)
           failed == [hand[w].job EXCEPT !.status = "failed"]
<1>1. /\ hand[w].at # "idle"
      /\ queue' = IF row \in queue THEN (queue \ {row}) \cup {failed} ELSE queue
      /\ hand' = [hand EXCEPT ![w] = Free]
      /\ UNCHANGED <<leaf, scores, tree, buffers, summaries, resetting, torn, inflight, overtaken>>
  BY DEF JobFails, Tagging
<1>2. GoodJob(hand[w].job) /\ hand[w].job \in JobRec
  BY HeldFacts DEF GoodJob
<1>3. /\ GoodJob(failed) /\ failed.kind = hand[w].job.kind /\ failed.of = hand[w].job.of
      /\ failed.wave = hand[w].job.wave /\ failed.status = "failed"
  BY <1>2 DEF GoodJob, JobRec
<1>4. row.kind = hand[w].job.kind /\ row.of = hand[w].job.of /\ row.wave = hand[w].job.wave
  BY <1>2, RowFields
<1> HIDE DEF row, failed
<1>5. \A k \in queue' : GoodJob(k) /\ k.wave = wave /\ (k.kind = "extract" => leaf[k.of] # "none")
  BY <1>1, <1>3, <1>4 DEF TpInv, TpTyped, RowsCurrent
<1>6. \A i, k \in queue' : SameKey(i, k) /\ i.status # "failed" /\ k.status # "failed" => i = k
  BY <1>1, <1>3 DEF TpInv, UniqueKeys
<1>7. \A u \in JobWorkers : u # w /\ Current(u) => Row(hand[u].job) \in queue'
  BY <1>1, OthersRows DEF row
<1>8. ASSUME NEW c \in Leaves, Live(c)
      PROVE  \E k \in queue' : k.kind \in ChunkKinds /\ k.of = c /\ ~FinishingBut(w, k)
  <2>1. PICK i \in queue : i.kind \in ChunkKinds /\ i.of = c /\ ~Finishing(i)
    BY <1>8 DEF Live
  <2>2. \A k : SameKey(i, k) => ~FinishingBut(w, k)
    BY <2>1 DEF Finishing, FinishingBut, SameKey
  <2>3. CASE i = row
    <3>1. failed \in queue' /\ SameKey(i, failed)
      BY <1>1, <1>3, <1>4, <2>3 DEF SameKey
    <3> QED BY <2>1, <2>2, <3>1 DEF SameKey
  <2>4. CASE i # row
    BY <1>1, <2>1, <2>2, <2>4 DEF SameKey
  <2> QED BY <2>3, <2>4
<1>9. spent' \in [Faults -> Nat] /\ wave' = wave
  <2>1. spent' = [spent EXCEPT !["failure"] = @ + 1] /\ spent \in [Faults -> Nat]
    BY DEF JobFails, Spend, TpInv, TpTyped
  <2>2. spent' \in [Faults -> Nat]
    BY <2>1 DEF Faults
  <2>3. spent'["reset"] = spent["reset"] /\ spent'["purge"] = spent["purge"]
    BY <2>1 DEF Faults
  <2> QED BY <2>2, <2>3 DEF wave
<1>10. GoodHand(Free) /\ Free.at = "idle" /\ Free.job.wave <= wave
  BY FreeGood, WaveNat
<1>11. overtaken' = overtaken /\ overtaken \subseteq Leaves
  BY <1>1 DEF TpInv, TpTyped
<1> QED BY <1>1, <1>5, <1>6, <1>7, <1>8, <1>9, <1>10, <1>11, TurnStep

\* The row of a job goes and what it led to is queued, or was refused by a job of its key.
LEMMA SettleStep ==
  ASSUME TpInv, NEW w \in JobWorkers, SettleJob(w)
  PROVE  TpInv'
<1> DEFINE row == Row(hand[w].job)
           q == queue \ {row}
           next == hand[w].next
<1>1. /\ hand[w].at = "settle"
      /\ queue' = Enqueue(q, next)
      /\ hand' = [hand EXCEPT ![w] = Free]
      /\ overtaken' = overtaken \cup RefusedByRunning(q, next)
      /\ UNCHANGED <<leaf, scores, tree, buffers, summaries, resetting, spent, torn, inflight>>
  BY DEF SettleJob
<1>2. /\ GoodHand(hand[w]) /\ hand[w].job \in JobRec
      /\ \A n \in next : GoodJob(n) /\ n.status = "ready"
      /\ \A n \in next : n.kind \in ChunkKinds =>
           hand[w].job.kind = "extract" /\ n.kind # "extract" /\ n.of = hand[w].job.of
      /\ \A m, n \in next : SameKey(m, n) => m = n
  BY HeldFacts DEF GoodHand, GoodJob, ForChunk
<1>3. row.kind = hand[w].job.kind /\ row.of = hand[w].job.of /\ row.wave = hand[w].job.wave
  BY <1>2, RowFields
<1>4. q \subseteq queue /\ \A k \in queue : k = row \/ k \in q
  OBVIOUS
<1> HIDE DEF row, q, next
<1>5. q \subseteq queue' /\ \A k \in queue' \ q : \E n \in next :
        /\ k = Stamped(n) /\ GoodJob(k) /\ k.wave = wave /\ k.kind = n.kind /\ k.kind # "extract"
        /\ k.of = n.of
  <2>1. q \subseteq queue' /\ \A k \in queue' \ q : \E n \in next : k = Stamped(n)
    BY <1>1, <1>2, EnqueueFacts
  <2>2. \A n \in next : n.kind # "extract"
    BY <1>2 DEF ChunkKinds
  <2> QED BY <1>2, <2>1, <2>2, StampedFields
<1>6. \A k \in queue' : GoodJob(k) /\ k.wave = wave /\ (k.kind = "extract" => leaf[k.of] # "none")
  BY <1>4, <1>5 DEF TpInv, TpTyped, RowsCurrent
<1>7. \A i, k \in queue' : SameKey(i, k) /\ i.status # "failed" /\ k.status # "failed" => i = k
  <2>1. \A i, k \in q : SameKey(i, k) /\ i.status # "failed" /\ k.status # "failed" => i = k
    BY <1>4 DEF TpInv, UniqueKeys
  <2> QED BY <1>1, <1>2, <2>1, EnqueueUnique
<1>8. \A u \in JobWorkers : u # w /\ Current(u) => Row(hand[u].job) \in q
  BY <1>1, OthersRows DEF q, row
<1>9. overtaken \subseteq overtaken' /\ overtaken' \subseteq Leaves
  BY <1>1 DEF RefusedByRunning, TpInv, TpTyped
<1>10. ASSUME NEW c \in Leaves, Live(c)
       PROVE  c \in overtaken' \/ \E k \in queue' : k.kind \in ChunkKinds /\ k.of = c /\ ~FinishingBut(w, k)
  <2>1. PICK i \in queue : i.kind \in ChunkKinds /\ i.of = c /\ ~Finishing(i)
    BY <1>10 DEF Live
  <2>2. \A k : SameKey(i, k) => ~FinishingBut(w, k)
    BY <2>1 DEF Finishing, FinishingBut, SameKey
  <2>3. CASE i # row
    BY <1>4, <1>5, <2>1, <2>2, <2>3 DEF SameKey
  <2>4. CASE i = row
    <3>1. Current(w)
      BY <1>1, <1>3, <2>4 DEF Current, TpInv, RowsCurrent
    <3>2. SameKey(hand[w].job, i)
      BY <1>3, <2>4 DEF SameKey
    <3>3. ForChunk(hand[w]) # {}
      BY <1>1, <2>1, <3>1, <3>2 DEF Finishing
    <3>4. PICK n \in next : n.kind \in ChunkKinds
      BY <3>3 DEF ForChunk, next
    <3>5. n.of = c /\ n.of \in Leaves
      BY <1>2, <1>3, <2>1, <2>4, <3>4
    <3>6. CASE ~\E k \in q : SameKey(n, k) /\ k.status # "failed"
      <4>1. Stamped(n) \in queue'
        BY <1>1, <1>2, <3>6, EnqueueFacts
      <4>2. Stamped(n).kind = n.kind /\ Stamped(n).of = c
        BY <1>2, <3>5, StampedFields
      <4>3. ASSUME FinishingBut(w, Stamped(n)) PROVE FALSE
        <5>1. PICK u \in JobWorkers : u # w /\ Current(u) /\ SameKey(hand[u].job, Stamped(n))
          BY <4>3 DEF FinishingBut
        <5>2. Row(hand[u].job) \in q
          BY <1>8, <5>1
        <5>3. /\ Row(hand[u].job).status = "running"
              /\ Row(hand[u].job).kind = hand[u].job.kind /\ Row(hand[u].job).of = hand[u].job.of
          BY HeldFacts, RowFields DEF GoodJob
        <5> QED BY <3>5, <3>6, <4>2, <5>1, <5>2, <5>3 DEF SameKey
      <4> QED BY <3>4, <4>1, <4>2, <4>3
    <3>7. CASE \E k \in q : SameKey(n, k) /\ k.status # "failed"
      <4>1. PICK k \in q : SameKey(n, k) /\ k.status # "failed"
        BY <3>7
      <4>2. CASE k.status = "running"
        <5>1. n.of \in RefusedByRunning(q, next)
          BY <3>4, <3>5, <4>1, <4>2 DEF RefusedByRunning, Running
        <5> QED BY <1>1, <3>5, <5>1
      <4>3. CASE k.status # "running"
        <5>1. ASSUME FinishingBut(w, k) PROVE FALSE
          <6>1. PICK u \in JobWorkers : u # w /\ Current(u) /\ SameKey(hand[u].job, k)
            BY <5>1 DEF FinishingBut
          <6>2. Row(hand[u].job) \in q
            BY <1>8, <6>1
          <6>3. /\ Row(hand[u].job).status = "running"
                /\ Row(hand[u].job).kind = hand[u].job.kind /\ Row(hand[u].job).of = hand[u].job.of
            BY HeldFacts, RowFields DEF GoodJob
          <6>4. Row(hand[u].job) = k
            BY <1>4, <4>1, <6>1, <6>2, <6>3 DEF SameKey, TpInv, UniqueKeys
          <6> QED BY <4>3, <6>3, <6>4
        <5> QED BY <1>5, <3>4, <3>5, <4>1, <5>1 DEF SameKey
      <4> QED BY <4>2, <4>3
    <3> QED BY <3>6, <3>7
  <2> QED BY <2>3, <2>4
<1>11. GoodHand(Free) /\ Free.at = "idle" /\ Free.job.wave <= wave
  BY FreeGood, WaveNat
<1>12. wave' = wave /\ spent' \in [Faults -> Nat]
  BY <1>1 DEF wave, TpInv, TpTyped
<1>13. \A u \in JobWorkers : u # w /\ Current(u) => Row(hand[u].job) \in queue'
  BY <1>5, <1>8
<1> QED BY <1>1, <1>6, <1>7, <1>9, <1>10, <1>11, <1>12, <1>13, TurnStep

-----------------------------------------------------------------------------
(* The tables are emptied, and the process dies. *)

LEMMA EmptiedStep ==
  ASSUME TpInv, NEW f \in {"reset", "purge"}, Spend(f),
         summaries' = {}, buffers' = {}, queue' = {}, tree' = 0,
         inflight' = inflight \cup UNION {HeldBy(w) : w \in JobWorkers},
         UNCHANGED <<hand, torn, overtaken>>,
         leaf' \in [Leaves -> Statuses], resetting' \in BOOLEAN, scores' \subseteq scores,
         \A c \in scores' : leaf'[c] = leaf[c],
         resetting' \/ \A c \in Leaves : leaf'[c] = "none"
  PROVE  TpInv'
<1>1. spent' \in [Faults -> Nat] /\ wave' = wave + 1
  <2>1. spent' = [spent EXCEPT ![f] = @ + 1] /\ spent \in [Faults -> Nat]
    BY DEF Spend, TpInv, TpTyped
  <2>2. spent' \in [Faults -> Nat]
    BY <2>1 DEF Faults
  <2>3. CASE f = "reset"
    BY <2>1, <2>3 DEF Faults, wave
  <2>4. CASE f = "purge"
    BY <2>1, <2>4 DEF Faults, wave
  <2> QED BY <2>2, <2>3, <2>4
<1>2. \A w \in JobWorkers : hand[w].job.wave \in Nat /\ hand[w].job.wave <= wave
  BY HeldFacts DEF TpInv, TpTyped, GoodJob, JobRec
<1>3. \A w \in JobWorkers : ~Current(w)' /\ hand'[w].job.wave <= wave'
  BY <1>1, <1>2, WaveNat DEF Current
<1>4. \A w \in JobWorkers : HeldBy(w) \subseteq Leaves /\ HeldBy(w) \subseteq inflight'
  <2> SUFFICES ASSUME NEW w \in JobWorkers PROVE HeldBy(w) \subseteq Leaves
    OBVIOUS
  <2>1. hand[w].items \subseteq Leaves /\ GoodJob(hand[w].job)
    BY HeldFacts
  <2>2. hand[w].job.kind \notin {"seal", "flush"} => hand[w].job.of \in Leaves
    BY <2>1 DEF GoodJob, JobRec, Kinds, ChunkKinds
  <2> QED BY <2>1, <2>2 DEF HeldBy
<1>5. inflight \subseteq inflight' /\ inflight' \subseteq Leaves
  BY <1>4 DEF TpInv, TpTyped
<1>6. TpTyped'
  BY <1>1, <1>3, <1>5 DEF TpInv, TpTyped
<1>7. UniqueKeys' /\ RowsCurrent' /\ HeldRows' /\ HeldOnce' /\ HeldCurrent' /\ DroppedOvertaken'
  BY <1>3 DEF UniqueKeys, RowsCurrent, HeldRows, HeldOnce, HeldCurrent, DroppedOvertaken
<1>8. HeldExplained'
  <2> SUFFICES ASSUME NEW w \in JobWorkers
               PROVE  /\ hand[w].at \in {"score", "push"} => hand[w].job.of \in inflight'
                      /\ hand[w].at \in {"summarise", "document"} => hand[w].items \subseteq inflight'
    BY DEF HeldExplained
  <2>1. hand[w].at \in {"score", "push"} => hand[w].job.kind \notin {"seal", "flush"}
    BY HeldFacts DEF GoodHand
  <2>2. hand[w].at \in {"score", "push"} => hand[w].job.of \in HeldBy(w)
    BY <2>1 DEF HeldBy
  <2>3. hand[w].at \in {"summarise", "document"} => hand[w].items \subseteq HeldBy(w)
    BY DEF HeldBy
  <2> QED BY <2>2, <2>3, <1>4
<1>9. OrphansFromInflight'
  BY <1>5 DEF TpInv, OrphansFromInflight
<1>10. KeptHasWay'
  BY DEF KeptHasWay, Secured
<1> QED BY <1>6, <1>7, <1>8, <1>9, <1>10 DEF TpInv

LEMMA ResetStep == ASSUME TpInv, ResetClears PROVE TpInv'
<1>1. leaf' \in [Leaves -> Statuses] /\ resetting' \in BOOLEAN /\ resetting'
  BY DEF ResetClears, TpInv, TpTyped
<1> QED BY <1>1, EmptiedStep DEF ResetClears

LEMMA PurgeStep == ASSUME TpInv, purge_all PROVE TpInv'
<1>1. leaf' \in [Leaves -> Statuses] /\ resetting' \in BOOLEAN /\ scores' = {}
  BY DEF purge_all, Statuses, TpInv, TpTyped
<1>2. \A c \in Leaves : leaf'[c] = "none"
  BY DEF purge_all
<1> QED BY <1>1, <1>2, EmptiedStep DEF purge_all

LEMMA CrashStep == ASSUME TpInv, TpCrash PROVE TpInv'
<1>1. spent' \in [Faults -> Nat] /\ wave' = wave
  <2>1. spent' = [spent EXCEPT !["crash"] = @ + 1] /\ spent \in [Faults -> Nat]
    BY DEF TpCrash, Spend, TpInv, TpTyped
  <2>2. spent' \in [Faults -> Nat]
    BY <2>1 DEF Faults
  <2>3. spent'["reset"] = spent["reset"] /\ spent'["purge"] = spent["purge"]
    BY <2>1 DEF Faults
  <2> QED BY <2>2, <2>3 DEF wave
<1>2. \A w \in JobWorkers : hand'[w] = Free /\ GoodHand(hand'[w]) /\ hand'[w].job.wave <= wave /\ hand'[w].at = "idle"
  BY FreeGood, WaveNat DEF TpCrash
<1>3. hand' \in [JobWorkers -> HandRec]
  BY FreeGood DEF TpCrash, GoodHand
<1>4. \A w \in JobWorkers : ~Current(w)'
  BY <1>2 DEF Current
<1>5. UNCHANGED <<leaf, scores, tree, buffers, summaries, queue, inflight, overtaken>>
  BY DEF TpCrash
<1>6. resetting' = FALSE /\ torn' = (torn \/ resetting)
  BY DEF TpCrash
<1>7. TpTyped'
  BY <1>1, <1>2, <1>3, <1>5, <1>6 DEF TpInv, TpTyped
<1>8. UniqueKeys' /\ RowsCurrent'
  BY <1>1, <1>5 DEF TpInv, UniqueKeys, RowsCurrent
<1>9. HeldRows' /\ HeldOnce' /\ HeldCurrent' /\ DroppedOvertaken'
  BY <1>4 DEF HeldRows, HeldOnce, HeldCurrent, DroppedOvertaken
<1>10. HeldExplained'
  BY <1>2 DEF HeldExplained
<1>11. OrphansFromInflight'
  BY <1>5 DEF TpInv, OrphansFromInflight
<1>12. \A j : ~Finishing(j)'
  BY <1>4 DEF Finishing
<1>13. KeptHasWay'
  BY <1>5, <1>6, <1>12 DEF TpInv, KeptHasWay, Secured, Live
<1> QED BY <1>7, <1>8, <1>9, <1>10, <1>11, <1>13 DEF TpInv

-----------------------------------------------------------------------------
LEMMA TpInitial == ASSUME TpInit PROVE TpInv
<1>1. \A w \in JobWorkers : hand[w] = Free /\ GoodHand(hand[w]) /\ hand[w].at = "idle" /\ hand[w].job.wave = 0
  BY FreeGood DEF TpInit
<1>2. hand \in [JobWorkers -> HandRec]
  BY FreeGood DEF TpInit, GoodHand
<1>3. spent \in [Faults -> Nat] /\ wave = 0
  BY DEF TpInit, wave, Faults
<1>4. TpTyped
  <2>1. resetting \in BOOLEAN /\ torn \in BOOLEAN
    BY DEF TpInit
  <2>2. leaf \in [Leaves -> Statuses]
    BY DEF TpInit, Statuses
  <2>3. \A w \in JobWorkers : GoodHand(hand[w]) /\ hand[w].job.wave <= wave
    BY <1>1, <1>3
  <2>4. scores = {} /\ tree = 0 /\ buffers = {} /\ summaries = {} /\ queue = {} /\ inflight = {} /\ overtaken = {}
    BY DEF TpInit
  <2> QED BY <1>2, <1>3, <2>1, <2>2, <2>3, <2>4 DEF TpTyped
<1>5. \A w \in JobWorkers : ~Current(w)
  BY <1>1 DEF Current
<1>6. UniqueKeys /\ RowsCurrent /\ HeldRows /\ HeldOnce /\ HeldCurrent /\ DroppedOvertaken
  BY <1>5 DEF TpInit, UniqueKeys, RowsCurrent, HeldRows, HeldOnce, HeldCurrent, DroppedOvertaken
<1>7. HeldExplained
  BY <1>1 DEF HeldExplained
<1>8. OrphansFromInflight /\ KeptHasWay
  BY DEF TpInit, OrphansFromInflight, KeptHasWay, Secured
<1> QED BY <1>4, <1>6, <1>7, <1>8 DEF TpInv

LEMMA TpStep == ASSUME TpInv, [TpNext]_tpVars PROVE TpInv'
<1>1. CASE TpNext
  <2>1. ASSUME NEW c \in Leaves, IngestLeaf(c) PROVE TpInv'
    BY <2>1, IngestStep
  <2>2. ASSUME NEW w \in JobWorkers, Claim(w) PROVE TpInv'
    BY <2>2, ClaimStep
  <2>3. ASSUME NEW w \in JobWorkers, SettleJob(w) PROVE TpInv'
    BY <2>3, SettleStep
  <2>4. ASSUME NEW w \in JobWorkers, JobFails(w) PROVE TpInv'
    BY <2>4, JobFailsStep
  <2>5. ASSUME NEW w \in JobWorkers, Delegates(w) PROVE TpInv'
    BY <2>5, ExtractReadsStep, ExtractWritesStep, AppendReadsStep, AppendNodeStep, SealReadsStep,
       SealWritesStep, DocumentReadsStep, SealDocumentStep, FlushStep DEF Delegates
  <2>6. CASE Maintenance
    BY <2>6, FlushPendingStep, RetryStep, RecoverStep, ResetStep, RequeueStep, PurgeStep DEF Maintenance
  <2>7. CASE TpCrash
    BY <2>7, CrashStep
  <2> QED BY <1>1, <2>1, <2>2, <2>3, <2>4, <2>5, <2>6, <2>7 DEF TpNext
<1>2. CASE UNCHANGED tpVars
  <2>1. UNCHANGED <<leaf, scores, tree, buffers, summaries, queue, hand, resetting, spent, torn, inflight, overtaken>>
    BY <1>2 DEF tpVars
  <2>2. \A j \in queue : GoodJob(j) /\ j.wave = wave /\ (j.kind = "extract" => leaf[j.of] # "none")
    BY DEF TpInv, TpTyped, RowsCurrent
  <2>3. ~torn /\ ~resetting =>
          \A c \in Leaves : \/ leaf[c] = "none" \/ c \in overtaken
                            \/ <<tree, c>> \in buffers \cup summaries
                            \/ \E j \in queue : j.kind \in ChunkKinds /\ j.of = c /\ ~Finishing(j)
    BY DEF TpInv, KeptHasWay, Secured, Live
  <2> QED BY <2>1, <2>2, <2>3, QueueStep DEF TpInv, TpTyped, UniqueKeys, HeldRows
<1> QED BY <1>1, <1>2

\* For any workers, chunks, faults and seal size: once the queue has run dry, every
\* chunk that scoring keeps is in the present tree, unless a crash tore a reset or
\* its follow-up was refused; and derived rows without their source are the work of
\* who was in flight when the tables were emptied (HostQueueDelegates,
\* reset_derived_index, purge_all).
THEOREM PipelineCorrect == TpSpec => []PipelineSound
<1>1. TpInit => TpInv
  BY TpInitial
<1>2. TpInv /\ [TpNext]_tpVars => TpInv'
  BY TpStep
<1>3. ASSUME TpInv PROVE PipelineSound
  <2>1. TpTypeOK
    <3>1. \A w \in JobWorkers : hand[w].at \in HandAt
      BY <1>3, HeldFacts DEF HandRec
    <3>2. \A j \in queue : j.kind \in Kinds /\ j.status \in {"ready", "running", "failed"}
      BY <1>3 DEF TpInv, TpTyped, GoodJob, JobRec
    <3> QED BY <1>3, <3>1, <3>2 DEF TpInv, TpTyped, UniqueKeys, TpTypeOK, Trees
  <2>2. NothingStranded
    BY <1>3 DEF TpInv, KeptHasWay, Secured, Live, NothingStranded, Quiet
  <2> QED BY <1>3, <2>1, <2>2 DEF TpInv, PipelineSound
<1>4. TpInv => PipelineSound
  BY <1>3
<1> QED BY <1>1, <1>2, <1>4, PTL DEF TpSpec
=============================================================================
