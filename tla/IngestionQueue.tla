---------------------------- MODULE IngestionQueue ----------------------------
(***************************************************************************)
(* The background ingestion queue of a memory client                        *)
(* (tinymemory-core/src/ingestion/queue.rs, state.rs) together with the two *)
(* ways a client reaches it (store/client.rs): `put_doc`, which submits a   *)
(* job after the document has been written, and `ingest_doc`, which runs    *)
(* the extraction itself under the same singleton run lock.                 *)
(*                                                                          *)
(* Every member of Calls is one `submit` of one document, and every member  *)
(* of SyncCalls one `ingest_doc`; `submit` is two steps (the atomic bump of *)
(* the depth, then try_send) with the undo of a refused send as a third.    *)
(***************************************************************************)
EXTENDS Integers, Sequences, FiniteSets

CONSTANTS
    Calls,      \* one element per call of IngestionQueue::submit
    SyncCalls,  \* one element per call of MemoryClient::ingest_doc
    Worker,     \* the ingestion_worker task, as an owner of the run lock
    NoOne,      \* "nobody" as a lock owner, "none" as a job
    Capacity    \* capacity of the mpsc channel

\* start_worker_with_capacity asserts the capacity is positive.
ASSUME CapacityAssumption == Capacity \in Nat \ {0}
ASSUME PartiesAssumption ==
    /\ IsFiniteSet(Calls) /\ IsFiniteSet(SyncCalls)
    /\ Calls \cap SyncCalls = {}
    /\ Worker \notin Calls \cup SyncCalls
    /\ NoOne \notin Calls \cup SyncCalls \cup {Worker}

VARIABLES
    chan,      \* the channel's buffer: jobs accepted and not yet received
    rxAlive,   \* the receiver half exists (the worker task has not ended)
    txAlive,   \* some clone of the handle exists (the client is not dropped)
    depth,     \* IngestionStateInner.queue_depth
    runLock,   \* owner of run_lock
    snap,      \* IngestionStatusSnapshot: running, current, last
    call,      \* progress of every submit
    sync,      \* progress of every ingest_doc
    worker,    \* progress of the worker loop
    job,       \* the job the worker has received
    stranded   \* jobs that were in the buffer when the receiver was dropped

vars == <<chan, rxAlive, txAlive, depth, runLock, snap, call, sync, worker,
          job, stranded>>

CallStates == {"ready", "bumped", "undo", "accepted", "refused"}
SyncStates == {"ready", "waiting", "locked", "running", "done"}
WorkerStates == {"recv", "received", "locked", "dequeued", "running",
                 "completed", "stopped", "died"}

TypeOK ==
    /\ chan \in Seq(Calls)
    /\ rxAlive \in BOOLEAN
    /\ txAlive \in BOOLEAN
    /\ depth \in Nat
    /\ runLock \in SyncCalls \cup {Worker, NoOne}
    /\ snap \in [running : BOOLEAN,
                 current : Calls \cup SyncCalls \cup {NoOne},
                 last    : Calls \cup SyncCalls \cup {NoOne}]
    /\ call \in [Calls -> CallStates]
    /\ sync \in [SyncCalls -> SyncStates]
    /\ worker \in WorkerStates
    /\ job \in Calls \cup {NoOne}
    /\ stranded \subseteq Calls

Init ==
    /\ chan = <<>>
    /\ rxAlive = TRUE
    /\ txAlive = TRUE
    /\ depth = 0
    /\ runLock = NoOne
    /\ snap = [running |-> FALSE, current |-> NoOne, last |-> NoOne]
    /\ call = [c \in Calls |-> "ready"]
    /\ sync = [s \in SyncCalls |-> "ready"]
    /\ worker = "recv"
    /\ job = NoOne
    /\ stranded = {}

-----------------------------------------------------------------------------
(* IngestionQueue::submit                                                    *)

\* Faulty variant: the job is sent without bumping the depth.
EnqueueUncounted(c) ==
    /\ call[c] = "ready"
    /\ txAlive
    /\ call' = [call EXCEPT ![c] = "bumped"]
    /\ UNCHANGED <<chan, rxAlive, txAlive, depth, runLock, snap, sync, worker,
                   job, stranded>>

\* self.state.enqueue()
Enqueue(c) ==
    /\ call[c] = "ready"
    /\ txAlive
    /\ depth' = depth + 1
    /\ call' = [call EXCEPT ![c] = "bumped"]
    /\ UNCHANGED <<chan, rxAlive, txAlive, runLock, snap, sync, worker, job,
                   stranded>>

\* try_send succeeds: there is room and the receiver still exists.
TrySendOk(c) ==
    /\ call[c] = "bumped"
    /\ rxAlive
    /\ Len(chan) < Capacity
    /\ chan' = Append(chan, c)
    /\ call' = [call EXCEPT ![c] = "accepted"]
    /\ UNCHANGED <<rxAlive, txAlive, depth, runLock, snap, sync, worker, job,
                   stranded>>

\* try_send fails with Full or Closed: the job is dropped.
TrySendFails(c) ==
    /\ call[c] = "bumped"
    /\ ~rxAlive \/ Len(chan) >= Capacity
    /\ call' = [call EXCEPT ![c] = "undo"]
    /\ UNCHANGED <<chan, rxAlive, txAlive, depth, runLock, snap, sync, worker,
                   job, stranded>>

\* Faulty variant: a refused job's bump is never taken back.
UndoForgotten(c) ==
    /\ call[c] = "undo"
    /\ call' = [call EXCEPT ![c] = "refused"]
    /\ UNCHANGED <<chan, rxAlive, txAlive, depth, runLock, snap, sync, worker,
                   job, stranded>>

\* ... and both failure arms take the bump back before returning false.
UndoEnqueue(c) ==
    /\ call[c] = "undo"
    /\ depth' = depth - 1
    /\ call' = [call EXCEPT ![c] = "refused"]
    /\ UNCHANGED <<chan, rxAlive, txAlive, runLock, snap, sync, worker, job,
                   stranded>>

-----------------------------------------------------------------------------
(* ingestion_worker                                                          *)

\* rx.recv().await yields a job.
Receive ==
    /\ worker = "recv"
    /\ chan # <<>>
    /\ job' = Head(chan)
    /\ chan' = Tail(chan)
    /\ worker' = "received"
    /\ UNCHANGED <<rxAlive, txAlive, depth, runLock, snap, call, sync,
                   stranded>>

\* Faulty variant: `let _ = state.acquire().await` drops the guard at once.
AcquireAndDrop ==
    /\ worker = "received"
    /\ runLock = NoOne
    /\ worker' = "locked"
    /\ UNCHANGED <<chan, rxAlive, txAlive, depth, runLock, snap, call, sync,
                   job, stranded>>

\* state.acquire().await
WorkerAcquire ==
    /\ worker = "received"
    /\ runLock = NoOne
    /\ runLock' = Worker
    /\ worker' = "locked"
    /\ UNCHANGED <<chan, rxAlive, txAlive, depth, snap, call, sync, job,
                   stranded>>

\* state.dequeue(), only after the lock is held
WorkerDequeue ==
    /\ worker = "locked"
    /\ depth' = depth - 1
    /\ worker' = "dequeued"
    /\ UNCHANGED <<chan, rxAlive, txAlive, runLock, snap, call, sync, job,
                   stranded>>

\* state.mark_running(..) and the start of extract_graph
WorkerStart ==
    /\ worker = "dequeued"
    /\ snap' = [snap EXCEPT !.running = TRUE, !.current = job]
    /\ worker' = "running"
    /\ UNCHANGED <<chan, rxAlive, txAlive, depth, runLock, call, sync, job,
                   stranded>>

\* extract_graph returns, Ok or Err alike: state.mark_completed(..)
WorkerComplete ==
    /\ worker = "running"
    /\ snap' = [running |-> FALSE, current |-> NoOne, last |-> job]
    /\ worker' = "completed"
    /\ UNCHANGED <<chan, rxAlive, txAlive, depth, runLock, call, sync, job,
                   stranded>>

\* Faulty variant: the guard outlives the loop iteration.
GuardLeaked ==
    /\ worker = "completed"
    /\ job' = NoOne
    /\ worker' = "recv"
    /\ UNCHANGED <<chan, rxAlive, txAlive, depth, runLock, snap, call, sync,
                   stranded>>

\* the guard is dropped at the end of the loop body
WorkerRelease ==
    /\ worker = "completed"
    /\ runLock' = NoOne
    /\ job' = NoOne
    /\ worker' = "recv"
    /\ UNCHANGED <<chan, rxAlive, txAlive, depth, snap, call, sync, stranded>>

\* Faulty variant: the loop ends as soon as the senders are gone.
StopsUndrained ==
    /\ worker = "recv"
    /\ ~txAlive
    /\ worker' = "stopped"
    /\ rxAlive' = FALSE
    /\ UNCHANGED <<chan, txAlive, depth, runLock, snap, call, sync, job,
                   stranded>>

\* recv() yields None: every sender is gone and the buffer is drained.
WorkerStops ==
    /\ worker = "recv"
    /\ chan = <<>>
    /\ ~txAlive
    /\ worker' = "stopped"
    /\ rxAlive' = FALSE
    /\ UNCHANGED <<chan, txAlive, depth, runLock, snap, call, sync, job,
                   stranded>>

\* The worker task unwinds out of extract_graph: the guard and the receiver
\* are dropped with it, mark_completed is never reached, and the buffered jobs
\* are lost. This is what the Closed arm of `submit` exists for.
WorkerDies ==
    /\ worker = "running"
    /\ worker' = "died"
    /\ rxAlive' = FALSE
    /\ runLock' = NoOne
    /\ stranded' = {chan[i] : i \in 1..Len(chan)}
    /\ chan' = <<>>
    /\ job' = NoOne
    /\ UNCHANGED <<txAlive, depth, snap, call, sync>>

-----------------------------------------------------------------------------
(* MemoryClient::ingest_doc                                                  *)

SyncBegin(s) ==
    /\ sync[s] = "ready"
    /\ txAlive
    /\ sync' = [sync EXCEPT ![s] = "waiting"]
    /\ UNCHANGED <<chan, rxAlive, txAlive, depth, runLock, snap, call, worker,
                   job, stranded>>

SyncAcquire(s) ==
    /\ sync[s] = "waiting"
    /\ runLock = NoOne
    /\ runLock' = s
    /\ sync' = [sync EXCEPT ![s] = "locked"]
    /\ UNCHANGED <<chan, rxAlive, txAlive, depth, snap, call, worker, job,
                   stranded>>

SyncStart(s) ==
    /\ sync[s] = "locked"
    /\ snap' = [snap EXCEPT !.running = TRUE, !.current = s]
    /\ sync' = [sync EXCEPT ![s] = "running"]
    /\ UNCHANGED <<chan, rxAlive, txAlive, depth, runLock, call, worker, job,
                   stranded>>

\* mark_completed, then the guard goes out of scope on return. Nothing else
\* may run between them on the lock, and the snapshot is only read under its
\* own RwLock, so the two are one step.
SyncFinish(s) ==
    /\ sync[s] = "running"
    /\ snap' = [running |-> FALSE, current |-> NoOne, last |-> s]
    /\ runLock' = NoOne
    /\ sync' = [sync EXCEPT ![s] = "done"]
    /\ UNCHANGED <<chan, rxAlive, txAlive, depth, call, worker, job, stranded>>

\* The last MemoryClient is dropped; calls borrow it, so none is in progress.
DropClient ==
    /\ txAlive
    /\ \A c \in Calls : call[c] \notin {"bumped", "undo"}
    /\ \A s \in SyncCalls : sync[s] \in {"ready", "done"}
    /\ txAlive' = FALSE
    /\ UNCHANGED <<chan, rxAlive, depth, runLock, snap, call, sync, worker,
                   job, stranded>>

\* Nothing is left to do: the client is gone and so is the worker.
Terminated == ~txAlive /\ ~rxAlive /\ UNCHANGED vars

-----------------------------------------------------------------------------

Submit(c) == Enqueue(c) \/ TrySendOk(c) \/ TrySendFails(c) \/ UndoEnqueue(c)

WorkerLoop == \/ Receive \/ WorkerAcquire \/ WorkerDequeue \/ WorkerStart
              \/ WorkerComplete \/ WorkerRelease \/ WorkerStops

IngestDoc(s) == SyncBegin(s) \/ SyncAcquire(s) \/ SyncStart(s) \/ SyncFinish(s)

Next ==
    \/ \E c \in Calls : Submit(c)
    \/ \E s \in SyncCalls : IngestDoc(s)
    \/ WorkerLoop
    \/ WorkerDies
    \/ DropClient
    \/ Terminated

Spec == Init /\ [][Next]_vars

(***************************************************************************)
(* Fairness: tokio polls every runnable task, and its Mutex is a FIFO        *)
(* queue, so a task that waits for run_lock is not overtaken for ever        *)
(* (strong fairness of the two acquisitions). Extraction is assumed to       *)
(* return; calls need not begin and the client need not be dropped.          *)
(***************************************************************************)
Fairness ==
    /\ WF_vars(WorkerLoop)
    /\ SF_vars(WorkerAcquire)
    /\ \A c \in Calls :
          WF_vars(TrySendOk(c) \/ TrySendFails(c) \/ UndoEnqueue(c))
    /\ \A s \in SyncCalls :
          /\ SF_vars(SyncAcquire(s))
          /\ WF_vars(SyncStart(s) \/ SyncFinish(s))

FairSpec == Spec /\ Fairness

-----------------------------------------------------------------------------
(* Properties                                                                *)

\* Jobs whose bump of the depth has not been taken back yet.
Pending == {c \in Calls : call[c] \in {"bumped", "undo"}}

\* The jobs a worker holds without having decremented the depth for them.
Held == IF worker \in {"received", "locked"} THEN 1 ELSE 0

\* `queue_depth` is exactly the jobs waiting: those being submitted, those in
\* the buffer, the one received but not yet dequeued, and, once the worker has
\* died, those stranded in the dropped buffer. The bump comes before try_send
\* and the decrement after the lock, so the usize counter never wraps below
\* zero however submitters, worker and refusals interleave.
DepthAccurate ==
    depth = Cardinality(Pending) + Len(chan) + Held + Cardinality(stranded)

\* At most one extraction runs at a time, over the worker and every
\* synchronous ingest (state.rs: "must not run more than once concurrently").
Extracting ==
    {s \in SyncCalls : sync[s] \in {"locked", "running"}}
      \cup (IF worker \in {"locked", "dequeued", "running", "completed"}
            THEN {Worker} ELSE {})

OneExtraction == \A p, q \in Extracting : p = q /\ runLock = p

\* The status snapshot names the document that is being extracted, and says
\* idle when none is, as long as the worker has not died: mark_running and
\* mark_completed of two parties never cross.
SnapshotTruthful ==
    worker # "died" =>
        /\ snap.running <=> (worker = "running"
                             \/ \E s \in SyncCalls : sync[s] = "running")
        /\ worker = "running" => snap.current = job
        /\ \A s \in SyncCalls : sync[s] = "running" => snap.current = s
        /\ ~snap.running => snap.current = NoOne

\* A worker that stops because the client was dropped has left nothing
\* behind: every job accepted by try_send has been through the worker, and
\* the gauge reads zero.
DrainedOnShutdown ==
    worker = "stopped" => depth = 0 /\ chan = <<>> /\ stranded = {}

\* Every accepted job is extracted, unless the worker dies first.
Waiting(c) == call[c] = "accepted" /\ (job = c \/ \E i \in 1..Len(chan) : chan[i] = c)
AcceptedIsExtracted ==
    \A c \in Calls : Waiting(c) ~> (snap.last = c \/ worker = "died")

\* Every ingest_doc that waits for the run lock gets it.
SyncCompletes == \A s \in SyncCalls : (sync[s] = "waiting") ~> (sync[s] = "done")

\* What the submitters, the worker and the synchronous ingests keep between them:
\* the gauge, the single extraction, the snapshot and the drained shutdown.
QueueSound ==
  TypeOK /\ DepthAccurate /\ OneExtraction /\ SnapshotTruthful /\ DrainedOnShutdown
=============================================================================
