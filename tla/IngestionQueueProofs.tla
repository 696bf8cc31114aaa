------------------------- MODULE IngestionQueueProofs -------------------------
(***************************************************************************)
(* Proofs about IngestionQueue, for every set of callers and every channel  *)
(* capacity. The safety properties are not inductive by themselves: the     *)
(* gauge can only be balanced when the buffer holds no job twice and the    *)
(* receiver's fate is known (ChannelInv), and the snapshot can only be       *)
(* trusted when every extracting party owns the run lock (LockInv).          *)
(***************************************************************************)
EXTENDS IngestionQueue, FiniteSetTheorems, TLAPS

\* The run lock is owned by exactly the party whose progress says so.
LockInv ==
    /\ runLock = Worker <=> worker \in {"locked", "dequeued", "running", "completed"}
    /\ \A s \in SyncCalls : runLock = s <=> sync[s] \in {"locked", "running"}

\* The buffer holds accepted jobs, each once; it is empty once the receiver
\* is gone, and only a worker that died strands jobs.
ChannelInv ==
    /\ \A i \in 1..Len(chan) : call[chan[i]] = "accepted"
    /\ \A i, j \in 1..Len(chan) : chan[i] = chan[j] => i = j
    /\ rxAlive <=> worker \notin {"stopped", "died"}
    /\ ~rxAlive => chan = <<>>
    /\ ~txAlive => \A c \in Calls : call[c] \notin {"bumped", "undo"}
    /\ worker = "stopped" => ~txAlive
    /\ worker # "died" => stranded = {}
    /\ worker \in {"received", "locked", "dequeued", "running", "completed"}
          <=> job # NoOne

IInv == TypeOK /\ LockInv /\ ChannelInv /\ DepthAccurate /\ SnapshotTruthful

USE CapacityAssumption, PartiesAssumption

-----------------------------------------------------------------------------

\* The number of jobs in a buffer that holds none twice is its length: what
\* is stranded when the receiver is dropped is what the gauge still counts.
LEMMA RangeCardinality ==
    ASSUME NEW S, NEW q \in Seq(S),
           \A i, j \in 1..Len(q) : q[i] = q[j] => i = j
    PROVE  /\ IsFiniteSet({q[i] : i \in 1..Len(q)})
           /\ Cardinality({q[i] : i \in 1..Len(q)}) = Len(q)
<1> DEFINE R == {q[i] : i \in 1..Len(q)}
           f == [i \in 1..Len(q) |-> q[i]]
<1>1. f \in Bijection(1..Len(q), R)
  BY DEF Bijection, Injection, Surjection, IsInjective
<1>2. ExistsBijection(1..Len(q), R)
  BY <1>1 DEF ExistsBijection
<1>3. IsFiniteSet(1..Len(q)) /\ Cardinality(1..Len(q)) = Len(q)
  <2>1. Len(q) \in Nat /\ 1 \in Int /\ Len(q) \in Int
    OBVIOUS
  <2>2. /\ IsFiniteSet(1..Len(q))
        /\ Cardinality(1..Len(q)) = IF 1 > Len(q) THEN 0 ELSE Len(q) - 1 + 1
    BY <2>1, FS_Interval
  <2> QED
    BY <2>1, <2>2
<1> QED
  BY <1>2, <1>3, FS_Bijection

\* Moving one submit out of the counted states lowers the count by one.
LEMMA PendingLeave ==
    ASSUME TypeOK, NEW c \in Calls, call[c] \in {"bumped", "undo"},
           NEW st \in CallStates, st \notin {"bumped", "undo"},
           call' = [call EXCEPT ![c] = st]
    PROVE  Cardinality(Pending') = Cardinality(Pending) - 1
<1>1. Pending' = Pending \ {c}
  BY DEF Pending, TypeOK
<1>2. c \in Pending /\ IsFiniteSet(Pending)
  BY FS_Subset DEF Pending
<1> QED
  BY <1>1, <1>2, FS_RemoveElement

LEMMA PendingFinite == IsFiniteSet(Pending) /\ Cardinality(Pending) \in Nat
BY FS_Subset, FS_CardinalityType DEF Pending

LEMMA InitInv == Init => IInv
<1> SUFFICES ASSUME Init PROVE IInv
  OBVIOUS
<1>1. Pending = {}
  BY DEF Init, Pending
<1>2. DepthAccurate
  BY <1>1, FS_EmptySet DEF Init, DepthAccurate, Held
<1> QED
  BY <1>2 DEF Init, IInv, TypeOK, LockInv, ChannelInv, SnapshotTruthful,
              CallStates, SyncStates, WorkerStates

-----------------------------------------------------------------------------

\* Every step keeps the parts of the invariant other than the gauge.
LEMMA StepShape ==
    ASSUME IInv, [Next]_vars
    PROVE  LockInv' /\ ChannelInv' /\ SnapshotTruthful'
<1> USE DEF IInv, TypeOK, LockInv, ChannelInv, SnapshotTruthful, CallStates,
            SyncStates, WorkerStates
<1>1. ASSUME NEW c \in Calls, Submit(c)
      PROVE  LockInv' /\ ChannelInv' /\ SnapshotTruthful'
  <2>1. CASE Enqueue(c)
    BY <2>1 DEF Enqueue
  <2>2. CASE TrySendOk(c)
    BY <2>2 DEF TrySendOk
  <2>3. CASE TrySendFails(c)
    BY <2>3 DEF TrySendFails
  <2>4. CASE UndoEnqueue(c)
    BY <2>4 DEF UndoEnqueue
  <2> QED
    BY <1>1, <2>1, <2>2, <2>3, <2>4 DEF Submit
<1>2. ASSUME NEW s \in SyncCalls, IngestDoc(s)
      PROVE  LockInv' /\ ChannelInv' /\ SnapshotTruthful'
  <2>1. CASE SyncBegin(s)
    BY <2>1 DEF SyncBegin
  <2>2. CASE SyncAcquire(s)
    BY <2>2 DEF SyncAcquire
  <2>3. CASE SyncStart(s)
    BY <2>3 DEF SyncStart
  <2>4. CASE SyncFinish(s)
    BY <2>4 DEF SyncFinish
  <2> QED
    BY <1>2, <2>1, <2>2, <2>3, <2>4 DEF IngestDoc
<1>3. CASE Receive
  BY <1>3 DEF Receive
<1>4. CASE WorkerAcquire
  BY <1>4 DEF WorkerAcquire
<1>5. CASE WorkerDequeue
  BY <1>5 DEF WorkerDequeue
<1>6. CASE WorkerStart
  BY <1>6 DEF WorkerStart
<1>7. CASE WorkerComplete
  BY <1>7 DEF WorkerComplete
<1>8. CASE WorkerRelease
  BY <1>8 DEF WorkerRelease
<1>9. CASE WorkerStops
  BY <1>9 DEF WorkerStops
<1>10. CASE WorkerDies
  BY <1>10 DEF WorkerDies
<1>11. CASE DropClient
  BY <1>11 DEF DropClient
<1>12. CASE UNCHANGED vars
  BY <1>12 DEF vars
<1>13. CASE Terminated
  BY <1>12, <1>13 DEF Terminated
<1> QED
  BY <1>1, <1>2, <1>3, <1>4, <1>5, <1>6, <1>7, <1>8, <1>9, <1>10, <1>11,
     <1>12, <1>13 DEF Next, WorkerLoop

-----------------------------------------------------------------------------

\* Every step keeps the gauge balanced: a bump and its try_send, a refusal and
\* its undo, a reception and its decrement cancel out term by term.
LEMMA StepGauge ==
    ASSUME IInv, [Next]_vars
    PROVE  DepthAccurate'
<1> USE DEF DepthAccurate, Held
<1>0. /\ chan \in Seq(Calls) /\ Len(chan) \in Nat /\ depth \in Nat
      /\ Cardinality(Pending) \in Nat /\ IsFiniteSet(Pending)
      /\ stranded \subseteq Calls /\ Cardinality(stranded) \in Nat
  <2>1. IsFiniteSet(stranded) /\ stranded \subseteq Calls
    BY FS_Subset DEF IInv, TypeOK
  <2> QED
    BY <2>1, PendingFinite, FS_CardinalityType DEF IInv, TypeOK
<1>1. ASSUME NEW c \in Calls, Submit(c) PROVE DepthAccurate'
  <2>1. CASE Enqueue(c)
    <3>1. Pending' = Pending \cup {c} /\ c \notin Pending
      BY <2>1 DEF Enqueue, Pending, IInv, TypeOK
    <3>2. Cardinality(Pending') = Cardinality(Pending) + 1
      BY <3>1, <1>0, FS_AddElement
    <3> QED
      BY <2>1, <3>2, <1>0 DEF Enqueue, IInv
  <2>2. CASE TrySendOk(c)
    <3>1. Cardinality(Pending') = Cardinality(Pending) - 1
      BY <2>2, PendingLeave DEF TrySendOk, IInv, CallStates
    <3>2. Len(chan') = Len(chan) + 1
      BY <2>2, <1>0 DEF TrySendOk
    <3> QED
      BY <2>2, <3>1, <3>2, <1>0 DEF TrySendOk, IInv
  <2>3. CASE TrySendFails(c)
    <3>1. Pending' = Pending
      BY <2>3 DEF TrySendFails, Pending, IInv, TypeOK
    <3> QED
      BY <2>3, <3>1 DEF TrySendFails, IInv
  <2>4. CASE UndoEnqueue(c)
    <3>1. Cardinality(Pending') = Cardinality(Pending) - 1
      BY <2>4, PendingLeave DEF UndoEnqueue, IInv, CallStates
    <3> QED
      BY <2>4, <3>1, <1>0 DEF UndoEnqueue, IInv
  <2> QED
    BY <1>1, <2>1, <2>2, <2>3, <2>4 DEF Submit
<1>2. ASSUME NEW s \in SyncCalls, IngestDoc(s) PROVE DepthAccurate'
  BY <1>2 DEF IngestDoc, SyncBegin, SyncAcquire, SyncStart, SyncFinish,
              Pending, IInv
<1>3. CASE Receive
  <2>1. Len(chan') = Len(chan) - 1 /\ Pending' = Pending
    BY <1>3, <1>0 DEF Receive, Pending
  <2> QED
    BY <1>3, <2>1, <1>0 DEF Receive, IInv
<1>4. CASE WorkerDequeue
  <2>1. Pending' = Pending
    BY <1>4 DEF WorkerDequeue, Pending
  <2> QED
    BY <1>4, <2>1, <1>0 DEF WorkerDequeue, IInv
<1>5. CASE WorkerDies
  <2>1. Cardinality(stranded) = 0 /\ Pending' = Pending
    BY <1>5, FS_EmptySet DEF WorkerDies, Pending, IInv, ChannelInv
  <2>2. Cardinality(stranded') = Len(chan)
    BY <1>5, <1>0, RangeCardinality DEF WorkerDies, IInv, ChannelInv
  <2>3. Len(chan') = 0 /\ Held = 0 /\ Held' = 0 /\ depth' = depth
    BY <1>5 DEF WorkerDies
  <2> HIDE DEF Held
  <2> QED
    BY <2>1, <2>2, <2>3, <1>0 DEF IInv
<1>6. ASSUME \/ WorkerAcquire \/ WorkerStart \/ WorkerComplete
             \/ WorkerRelease \/ WorkerStops \/ DropClient
      PROVE  DepthAccurate'
  <2>1. Pending' = Pending /\ Held' = Held
    BY <1>6 DEF WorkerAcquire, WorkerStart, WorkerComplete, WorkerRelease,
                WorkerStops, DropClient, Pending
  <2> QED
    BY <1>6, <2>1 DEF WorkerAcquire, WorkerStart, WorkerComplete,
                      WorkerRelease, WorkerStops, DropClient, IInv
<1>7. CASE UNCHANGED vars
  BY <1>7 DEF vars, Pending, IInv
<1>8. CASE Terminated
  BY <1>7, <1>8 DEF Terminated
<1> QED
  BY <1>1, <1>2, <1>3, <1>4, <1>5, <1>6, <1>7, <1>8 DEF Next, WorkerLoop

\* Types are kept; that the usize gauge stays a natural number is the gauge
\* equation one step later.
LEMMA StepType ==
    ASSUME IInv, [Next]_vars
    PROVE  TypeOK'
<1>1. DepthAccurate'
  BY StepGauge
<1> DEFINE Shape ==
      /\ chan \in Seq(Calls)
      /\ rxAlive \in BOOLEAN
      /\ txAlive \in BOOLEAN
      /\ runLock \in SyncCalls \cup {Worker, NoOne}
      /\ snap \in [running : BOOLEAN,
                   current : Calls \cup SyncCalls \cup {NoOne},
                   last    : Calls \cup SyncCalls \cup {NoOne}]
      /\ call \in [Calls -> CallStates]
      /\ sync \in [SyncCalls -> SyncStates]
      /\ worker \in WorkerStates
      /\ job \in Calls \cup {NoOne}
      /\ stranded \subseteq Calls
<1>2. Shape'
  <2> USE DEF CallStates, SyncStates, WorkerStates
  <2>0. Shape
    BY DEF IInv, TypeOK
  <2>1. ASSUME NEW c \in Calls, Submit(c) PROVE Shape'
    BY <2>0, <2>1 DEF Submit, Enqueue, TrySendOk, TrySendFails, UndoEnqueue
  <2>2. ASSUME NEW s \in SyncCalls, IngestDoc(s) PROVE Shape'
    <3>1. CASE SyncStart(s)
      BY <2>0, <3>1 DEF SyncStart
    <3>2. CASE SyncFinish(s)
      BY <2>0, <3>2 DEF SyncFinish
    <3>3. CASE SyncBegin(s) \/ SyncAcquire(s)
      BY <2>0, <3>3 DEF SyncBegin, SyncAcquire
    <3> QED
      BY <2>2, <3>1, <3>2, <3>3 DEF IngestDoc
  <2>3. CASE Receive
    BY <2>0, <2>3 DEF Receive
  <2>4. CASE WorkerStart
    BY <2>0, <2>4 DEF WorkerStart
  <2>5. CASE WorkerComplete
    BY <2>0, <2>5 DEF WorkerComplete
  <2>6. CASE WorkerDies
    <3>1. stranded' \subseteq Calls
      BY <2>0, <2>6 DEF WorkerDies
    <3>2. chan' \in Seq(Calls)
      BY <2>6 DEF WorkerDies
    <3> QED
      BY <2>0, <2>6, <3>1, <3>2 DEF WorkerDies
  <2>7. CASE WorkerAcquire \/ WorkerDequeue \/ WorkerRelease \/ WorkerStops
             \/ DropClient
    BY <2>0, <2>7 DEF WorkerAcquire, WorkerDequeue, WorkerRelease,
                      WorkerStops, DropClient
  <2>8. CASE UNCHANGED vars
    BY <2>0, <2>8 DEF vars
  <2>9. CASE Terminated
    BY <2>8, <2>9 DEF Terminated
  <2> QED
    BY <2>1, <2>2, <2>3, <2>4, <2>5, <2>6, <2>7, <2>8, <2>9
       DEF Next, WorkerLoop
<1>3. depth' \in Nat
  <2>1. Cardinality(Pending') \in Nat /\ Cardinality(stranded') \in Nat
    <3>1. Pending' \subseteq Calls /\ stranded' \subseteq Calls
      BY <1>2 DEF Pending
    <3> QED
      BY <3>1, FS_Subset, FS_CardinalityType
  <2>2. Len(chan') \in Nat /\ Held' \in Nat
    BY <1>2 DEF Held
  <2> QED
    BY <1>1, <2>1, <2>2 DEF DepthAccurate
<1> QED
  BY <1>2, <1>3 DEF TypeOK

-----------------------------------------------------------------------------

\* The inductive invariant holds in every behaviour of the queue.
THEOREM Invariance == Spec => []IInv
<1>1. IInv /\ [Next]_vars => IInv'
  BY StepType, StepShape, StepGauge DEF IInv
<1> QED
  BY InitInv, <1>1, PTL DEF Spec

\* Every variable keeps its type; in particular `queue_depth`, a usize that
\* `dequeue` decrements without a check, never wraps below zero.
THEOREM TypeCorrect == Spec => []TypeOK
BY Invariance, PTL DEF IInv

\* The gauge the status RPC reports is exactly the number of jobs waiting,
\* for any number of submitters, any capacity and a worker that may die.
THEOREM GaugeCorrect == Spec => []DepthAccurate
BY Invariance, PTL DEF IInv

\* At most one extraction runs at a time, and its party holds the run lock.
THEOREM SingleExtraction == Spec => []OneExtraction
<1>1. IInv => OneExtraction
  BY DEF IInv, LockInv, TypeOK, OneExtraction, Extracting
<1> QED
  BY <1>1, Invariance, PTL

\* The status snapshot names the document being extracted, or says idle.
THEOREM SnapshotCorrect == Spec => []SnapshotTruthful
BY Invariance, PTL DEF IInv

\* A worker that stopped because the client is gone left nothing behind: with
\* no sender there is no submit under way, and the gauge counts nothing else.
THEOREM ShutdownDrains == Spec => []DrainedOnShutdown
<1>1. IInv => DrainedOnShutdown
  <2> SUFFICES ASSUME IInv, worker = "stopped"
               PROVE  depth = 0 /\ chan = <<>> /\ stranded = {}
    BY DEF DrainedOnShutdown
  <2>1. chan = <<>> /\ stranded = {} /\ Held = 0
    BY DEF IInv, ChannelInv, Held
  <2>2. Pending = {}
    BY DEF IInv, ChannelInv, Pending
  <2> QED
    BY <2>1, <2>2, FS_EmptySet DEF IInv, DepthAccurate
<1> QED
  BY <1>1, Invariance, PTL

\* The five facts together, the invariant the runs check.
THEOREM QueueCorrect == Spec => []QueueSound
BY TypeCorrect, GaugeCorrect, SingleExtraction, SnapshotCorrect, ShutdownDrains, PTL
   DEF QueueSound
=============================================================================
