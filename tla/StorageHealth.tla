---------------------------- MODULE StorageHealth ----------------------------
(***************************************************************************)
(* How the memory-tree workers judge the health of their storage: the       *)
(* error arms of the worker loop (tinymemory-core/src/queue/worker.rs), the *)
(* corruption escalation every detector shares (corruption/mod.rs) and the  *)
(* process-wide storage flag the status surfaces read (tree/health/mod.rs). *)
(*                                                                          *)
(* Workers poll; a poll ends in success or in one class of error. The       *)
(* ingest sinks and the start-up integrity check only ever take the         *)
(* corruption path. Each atomic operation on a latch or on the flag is an   *)
(* action. The disk and the database image are the environment.             *)
(***************************************************************************)
EXTENDS Integers, FiniteSets

CONSTANTS
    Workers,        \* job worker tasks
    Sinks,          \* ingest sinks and the start-up check
    MaxOutages,     \* bound on the times the disk fails
    MaxCorruptions  \* bound on the times the image is damaged

ASSUME HealthAssumption ==
    /\ Workers \cap Sinks = {}
    /\ MaxOutages \in Nat /\ MaxCorruptions \in Nat

Detectors == Workers \cup Sinks

VARIABLES
    disk,            \* "ok", or "down": EIO, ENOSPC or EROFS on every access
    image,           \* "ok" or "corrupt"
    degraded,        \* STORAGE_DEGRADED
    ioLatch,         \* STORAGE_IO_REPORTED
    corruptLatch,    \* CORRUPT_REPORTED
    at,              \* [Detectors -> where the task is]
    outages, damages, \* failures of the environment so far
    ioReports,       \* host-I/O reports sent
    ioRecoveries,    \* recovery edges seen by the workers
    stray            \* a recovery attempt failed on an image that was sound again

env  == <<disk, image, outages, damages>>
vars == <<disk, image, degraded, ioLatch, corruptLatch, at, outages, damages,
          ioReports, ioRecoveries, stray>>

Places == {"poll", "sleep", "succeeded", "clear", "ioMark", "ioLatch",
           "report", "mark", "recover", "settle", "unlatch"}

FlagsOK ==
    /\ degraded \in BOOLEAN /\ ioLatch \in BOOLEAN /\ corruptLatch \in BOOLEAN
    /\ stray \in BOOLEAN

TypeOK ==
    /\ FlagsOK
    /\ disk \in {"ok", "down"} /\ image \in {"ok", "corrupt"}
    /\ at \in [Detectors -> Places]
    /\ outages \in 0..MaxOutages /\ damages \in 0..MaxCorruptions
    /\ ioReports \in Nat /\ ioRecoveries \in Nat

Init ==
    /\ disk = "ok" /\ image = "ok"
    /\ degraded = FALSE /\ ioLatch = FALSE /\ corruptLatch = FALSE
    /\ at = [d \in Detectors |-> "poll"]
    /\ outages = 0 /\ damages = 0
    /\ ioReports = 0 /\ ioRecoveries = 0
    /\ stray = FALSE

-----------------------------------------------------------------------------
(* The environment                                                          *)

DiskFails ==
    /\ disk = "ok" /\ outages < MaxOutages
    /\ disk' = "down" /\ outages' = outages + 1
    /\ UNCHANGED <<image, degraded, ioLatch, corruptLatch, at, damages, ioReports,
                   ioRecoveries, stray>>

DiskReturns ==
    /\ disk = "down"
    /\ disk' = "ok"
    /\ UNCHANGED <<image, degraded, ioLatch, corruptLatch, at, outages, damages, ioReports,
                   ioRecoveries, stray>>

ImageDamaged ==
    /\ image = "ok" /\ damages < MaxCorruptions
    /\ image' = "corrupt" /\ damages' = damages + 1
    /\ UNCHANGED <<disk, degraded, ioLatch, corruptLatch, at, outages, ioReports,
                   ioRecoveries, stray>>

-----------------------------------------------------------------------------
(* The worker loop                                                          *)

Goto(d, place) == at' = [at EXCEPT ![d] = place]

\* run_once succeeds; on a damaged image it may, if it walks no damaged page.
PollSucceeds(d) ==
    /\ d \in Workers /\ at[d] = "poll"
    /\ disk = "ok"
    /\ Goto(d, "succeeded")
    /\ UNCHANGED <<env, degraded, ioLatch, corruptLatch, ioReports, ioRecoveries, stray>>

\* STORAGE_IO_REPORTED.swap(false)
SwapIoLatch(d) ==
    /\ at[d] = "succeeded"
    /\ ioLatch' = FALSE
    /\ IF ioLatch
       THEN Goto(d, "clear") /\ ioRecoveries' = ioRecoveries + 1
       ELSE Goto(d, "sleep") /\ UNCHANGED ioRecoveries
    /\ UNCHANGED <<env, degraded, corruptLatch, ioReports, stray>>

\* Faulty variant: the recovery edge is consumed without clearing the flag.
ClearForgotten(d) ==
    /\ at[d] = "clear"
    /\ Goto(d, "sleep")
    /\ UNCHANGED <<env, degraded, ioLatch, corruptLatch, ioReports, ioRecoveries, stray>>

\* clear_storage_degraded on the recovery edge
ClearDegraded(d) ==
    /\ at[d] = "clear"
    /\ degraded' = FALSE
    /\ Goto(d, "sleep")
    /\ UNCHANGED <<env, ioLatch, corruptLatch, ioReports, ioRecoveries, stray>>

\* Busy, transient I/O, disk full and unclassified errors change no state.
PollTolerated(d) ==
    /\ d \in Workers /\ at[d] = "poll"
    /\ Goto(d, "sleep")
    /\ UNCHANGED <<env, degraded, ioLatch, corruptLatch, ioReports, ioRecoveries, stray>>

\* is_host_io_error
PollHostIo(d) ==
    /\ d \in Workers /\ at[d] = "poll"
    /\ disk = "down"
    /\ Goto(d, "ioMark")
    /\ UNCHANGED <<env, degraded, ioLatch, corruptLatch, ioReports, ioRecoveries, stray>>

MarkHostIo(d) ==
    /\ at[d] = "ioMark"
    /\ degraded' = TRUE
    /\ Goto(d, "ioLatch")
    /\ UNCHANGED <<env, ioLatch, corruptLatch, ioReports, ioRecoveries, stray>>

\* Faulty variant: the flag is set without the latch that will clear it.
ReportUnlatched(d) ==
    /\ at[d] = "ioLatch"
    /\ UNCHANGED ioLatch
    /\ ioReports' = IF ioLatch THEN ioReports ELSE ioReports + 1
    /\ Goto(d, "sleep")
    /\ UNCHANGED <<env, degraded, corruptLatch, ioRecoveries, stray>>

\* STORAGE_IO_REPORTED.swap(true), and a report when it was clear
ReportHostIo(d) ==
    /\ at[d] = "ioLatch"
    /\ ioLatch' = TRUE
    /\ ioReports' = IF ioLatch THEN ioReports ELSE ioReports + 1
    /\ Goto(d, "sleep")
    /\ UNCHANGED <<env, degraded, corruptLatch, ioRecoveries, stray>>

\* The back-off ends, or notify wakes the task
Wake(d) ==
    /\ at[d] = "sleep"
    /\ Goto(d, "poll")
    /\ UNCHANGED <<env, degraded, ioLatch, corruptLatch, ioReports, ioRecoveries, stray>>

-----------------------------------------------------------------------------
(* report_and_recover                                                       *)

\* is_sqlite_corrupt: a worker's poll, a sink's ingest or quick_check fails
DetectCorrupt(d) ==
    /\ at[d] = "poll"
    /\ disk = "ok" /\ image = "corrupt"
    /\ Goto(d, "report")
    /\ UNCHANGED <<env, degraded, ioLatch, corruptLatch, ioReports, ioRecoveries, stray>>

\* CORRUPT_REPORTED.swap(true), and a report when it was clear
ReportCorrupt(d) ==
    /\ at[d] = "report"
    /\ corruptLatch' = TRUE
    /\ Goto(d, "mark")
    /\ UNCHANGED <<env, degraded, ioLatch, ioReports, ioRecoveries, stray>>

MarkCorrupt(d) ==
    /\ at[d] = "mark"
    /\ degraded' = TRUE
    /\ Goto(d, "recover")
    /\ UNCHANGED <<env, ioLatch, corruptLatch, ioReports, ioRecoveries, stray>>

\* recover_corrupt_db: quarantine and rebuild, or quick_check passes by now
Recover(d) ==
    /\ at[d] = "recover"
    /\ disk = "ok"
    /\ image' = "ok"
    /\ Goto(d, "settle")
    /\ UNCHANGED <<disk, degraded, ioLatch, corruptLatch, outages, damages, ioReports,
                   ioRecoveries, stray>>

\* It fails: flag and latch stay as they are.
RecoverFails(d) ==
    /\ at[d] = "recover"
    /\ disk = "down" \/ image = "corrupt"
    /\ stray' = (stray \/ image = "ok")
    /\ Goto(d, "sleep")
    /\ UNCHANGED <<env, degraded, ioLatch, corruptLatch, ioReports, ioRecoveries>>

\* Faulty variant: the flag is not cleared when the recovery settles.
SettleKeepsFlag(d) ==
    /\ at[d] = "settle"
    /\ Goto(d, "unlatch")
    /\ UNCHANGED <<env, degraded, ioLatch, corruptLatch, ioReports, ioRecoveries, stray>>

SettleDegraded(d) ==
    /\ at[d] = "settle"
    /\ degraded' = FALSE
    /\ Goto(d, "unlatch")
    /\ UNCHANGED <<env, ioLatch, corruptLatch, ioReports, ioRecoveries, stray>>

SettleLatch(d) ==
    /\ at[d] = "unlatch"
    /\ corruptLatch' = FALSE
    /\ Goto(d, "sleep")
    /\ UNCHANGED <<env, degraded, ioLatch, ioReports, ioRecoveries, stray>>

Step(d) ==
    \/ SwapIoLatch(d) \/ ClearDegraded(d)
    \/ MarkHostIo(d) \/ ReportHostIo(d) \/ Wake(d)
    \/ ReportCorrupt(d) \/ MarkCorrupt(d) \/ Recover(d) \/ RecoverFails(d)
    \/ SettleDegraded(d) \/ SettleLatch(d)

Poll(d) == PollSucceeds(d) \/ PollHostIo(d) \/ PollTolerated(d) \/ DetectCorrupt(d)

Next ==
    \/ DiskFails \/ DiskReturns \/ ImageDamaged
    \/ \E d \in Detectors : Step(d) \/ Poll(d)

Spec == Init /\ [][Next]_vars

(***************************************************************************)
(* Fairness: the runtime keeps running a task that is not asleep and its    *)
(* timers fire; a worker that polls a healthy disk for ever is not refused  *)
(* by transient errors every time.                                          *)
(***************************************************************************)
Fairness ==
    /\ \A d \in Detectors : WF_vars(Step(d))
    /\ \A d \in Workers : WF_vars(Poll(d)) /\ SF_vars(PollSucceeds(d))

FairSpec == Spec /\ Fairness

-----------------------------------------------------------------------------
(* Properties                                                               *)

\* A persistent host failure "is reported to Sentry once, not on every poll
\* from every worker" (worker.rs:58): a further report needs a recovery edge.
IoReportedOnce == ioReports <= ioRecoveries + 1

Healthy == disk = "ok" /\ image = "ok"

\* No storage banner is left without a latch whose clearing takes it down: with
\* every task between two polls, a set flag has a set latch or damage that is
\* still there to be detected, except after a stray failure.
DegradedHasLatch ==
    degraded /\ (\A d \in Detectors : at[d] \in {"poll", "sleep", "succeeded"})
        => ioLatch \/ corruptLatch \/ image = "corrupt" \/ stray

\* One report per outage, and no banner that nothing would take down.
HealthSound == IoReportedOnce /\ DegradedHasLatch

\* "the degraded flag must not outlive the damage" (corruption/mod.rs:121), and
\* the banner self-heals (worker.rs:142): once disk and image are sound for
\* good the flag goes down for good, whichever task saw the failure and
\* whichever saw the recovery. One case is left: a recovery attempt that fails
\* on an image another detector has already rebuilt leaves the flag behind.
FlagDiesUnlessStray == <>[]Healthy => <>[](~degraded \/ stray)
=============================================================================
