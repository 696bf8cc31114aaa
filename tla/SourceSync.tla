----------------------------- MODULE SourceSync -----------------------------
(***************************************************************************)
(* Memory sources: the registry file (tinymemory-sources registry.rs under *)
(* the write lock of core sources/registry.rs), the caps migration that    *)
(* reads it in one step and writes it in another, the dispatcher that runs *)
(* a source at most once at a time (sources/sync.rs), the periodic         *)
(* scheduler that fires what is due (sync/workspace/periodic.rs) and the   *)
(* scheduler gate that pauses and wakes it (scheduler_gate.rs, module      *)
(* host.rs).                                                               *)
(*                                                                         *)
(* The process may die at any moment: the registry and the audit log       *)
(* survive, the active set, the fired-at map and every task do not.  The   *)
(* loop may tick at any moment: at its own pace, or woken by the gate.     *)
(***************************************************************************)
EXTENDS Naturals, FiniteSets

CONSTANTS
  Sources,       \* source ids
  Composio,      \* those of kind composio, which this dispatcher only refuses
  NoEntry,       \* no such source in the registry
  Never,         \* no such moment
  Interval,      \* effective_interval_secs
  MaxTime,       \* bound: value of the clock
  MaxRuns,       \* bound: sync runs started
  MaxEdits       \* bound: edits of the registry

ASSUME SourceSyncAssumption ==
  /\ Interval \in Nat \ {0} /\ Composio \subseteq Sources
  /\ {MaxTime, MaxRuns, MaxEdits} \subseteq Nat /\ Never \notin Nat

Entry == [enabled : BOOLEAN, capped : BOOLEAN]
Waiting == [pc |-> "waiting"]
NoMigration == [pc |-> "none"]

VARIABLES
  registry,  \* [[memory_sources]] of the config file
  acked,     \* history: what the callers of the registry were told
  snapshot,  \* memory_sources of the engine's config, as it was when the process began
  exposed,   \* history: sources whose entry the caps migration has not read
  edits,     \* bound: edits so far
  migrator,  \* the caps migration; it holds the write lock while under way
  active,    \* ACTIVE_SYNCS
  tasks,     \* the runs in flight, as [run, src, pc, treeFailed]
  runs,      \* bound: runs started so far
  lastOk,    \* audit log: when each source last succeeded
  fired,     \* LAST_FIRED_AT
  tick,      \* the loop: waiting, or firing the sources found due
  gate,      \* what the gate tells the loop: open, paused by the user, or overridden
  now,       \* the clock
  started    \* history: when the loop last started a run of each source

registryVars == <<registry, acked, snapshot, exposed, edits, migrator>>
runVars == <<active, tasks, runs>>
loopVars == <<fired, tick, started>>
ssVars == <<registryVars, runVars, lastOk, loopVars, gate, now>>

(***************************************************************************)
(* The registry.  An operation lists the file, edits and replaces it under *)
(* the lock of the crate and the mutation lock of the registry's handles,  *)
(* hence in one step; a failed write leaves the file alone.  The caps      *)
(* migration holds the first lock only, from its read to its write.        *)
(***************************************************************************)

\* Faulty variant: the migration leaves the write lock alone.
LockIgnored == TRUE

\* memory_sources_write_guard: nobody else is between its read and its write.
LockFree == migrator = NoMigration

\* One operation on the entry of s: the caller is told of it.
Edit(s, entry) ==
  /\ LockFree /\ edits < MaxEdits
  /\ edits' = edits + 1
  /\ registry' = [registry EXCEPT ![s] = entry] /\ acked' = [acked EXCEPT ![s] = entry]
  /\ exposed' = exposed \ {s}
  /\ UNCHANGED <<snapshot, migrator>>

\* add: an id that exists is refused.
AddSource(s, e) == registry[s] = NoEntry /\ Edit(s, e)

\* update: the patch is validated and applied to the entry.
UpdateSource(s, on) ==
  registry[s] # NoEntry /\ Edit(s, [registry[s] EXCEPT !.enabled = on])

\* remove and remove_composio_source_by_connection_id.
RemoveSource(s) == registry[s] # NoEntry /\ Edit(s, NoEntry)

\* upsert_composio_source: only the label of an existing connection changes; a new
\* one is enabled with the caps of its toolkit.
UpsertComposioSource(s) ==
  /\ s \in Composio
  /\ Edit(s, IF registry[s] = NoEntry THEN [enabled |-> TRUE, capped |-> TRUE] ELSE registry[s])

\* apply_all_in: every source on, every cap off.
ApplyAllIn ==
  /\ LockFree /\ edits < MaxEdits
  /\ edits' = edits + 1
  /\ registry' = [s \in Sources |->
       IF registry[s] = NoEntry THEN NoEntry ELSE [enabled |-> TRUE, capped |-> FALSE]]
  /\ acked' = registry' /\ exposed' = {}
  /\ UNCHANGED <<snapshot, migrator>>

\* Another handle of the registry, which takes the mutation lock only: the migration may
\* have read the list already.
OutsideWrites(s, entry) ==
  /\ edits < MaxEdits /\ edits' = edits + 1
  /\ registry' = [registry EXCEPT ![s] = entry] /\ acked' = [acked EXCEPT ![s] = entry]
  /\ exposed' = IF migrator = NoMigration THEN exposed \ {s} ELSE exposed \cup {s}
  /\ UNCHANGED <<snapshot, migrator>>

\* apply_caps_defaults_to_entries: a composio source without caps gets them and is
\* switched on; one that has them, and the other kinds, keep their switch.
ApplyCapsDefaults(entries) ==
  [s \in Sources |->
    IF entries[s] = NoEntry THEN NoEntry
    ELSE IF s \in Composio
    THEN (IF entries[s].capped THEN entries[s] ELSE [enabled |-> TRUE, capped |-> TRUE])
    ELSE [entries[s] EXCEPT !.capped = TRUE]]

\* The engine's config answers version 0 and forgets what it is told, so the gate that
\* would end the migration after its first run is always passed.
composio_source_caps_migration_version == 0
CURRENT_CAPS_MIGRATION_VERSION == 1

\* memory_sources_json: the file, or the snapshot when the file cannot be read.
MemorySourcesJson(readable) == IF readable THEN registry ELSE snapshot

\* apply_composio_source_caps_migration: the lock, the gate, then the read ...
MigrationReads ==
  /\ LockFree /\ migrator = NoMigration
  /\ composio_source_caps_migration_version < CURRENT_CAPS_MIGRATION_VERSION
  /\ \E readable \in BOOLEAN :
       /\ migrator' = [pc |-> "loaded", entries |-> MemorySourcesJson(readable)]
       /\ exposed' = exposed \cup {s \in Sources : MemorySourcesJson(readable)[s] # registry[s]}
  /\ UNCHANGED <<registry, acked, snapshot, edits>>

\* What is over with the migration is a danger no more; what it lost stays lost until the
\* entry is written again.
MigrationOver ==
  /\ migrator' = NoMigration
  /\ exposed' = {s \in exposed : registry'[s] # acked'[s]}

\* ... and the write of the whole list, which releases the lock.
MigrationWrites ==
  /\ migrator.pc = "loaded"
  /\ registry' = ApplyCapsDefaults(migrator.entries)
  /\ acked' = ApplyCapsDefaults(acked)
  /\ MigrationOver
  /\ UNCHANGED <<snapshot, edits>>

\* The list cannot be written.
MigrationFails ==
  /\ migrator.pc = "loaded"
  /\ UNCHANGED <<registry, acked, snapshot, edits>>
  /\ MigrationOver

RegistryStep ==
  /\ \/ \E s \in Sources :
          \/ \E e \in Entry : AddSource(s, e)
          \/ \E on \in BOOLEAN : UpdateSource(s, on)
          \/ RemoveSource(s) \/ UpsertComposioSource(s)
          \/ \E e \in Entry \cup {NoEntry} : OutsideWrites(s, e)
     \/ ApplyAllIn \/ MigrationReads \/ MigrationWrites \/ MigrationFails
  /\ UNCHANGED <<runVars, lastOk, loopVars, gate, now>>

(***************************************************************************)
(* The dispatcher.                                                         *)
(***************************************************************************)

\* Faulty variant: the active set is written and not asked.
DispatchAlways(s, e) ==
  /\ e.enabled /\ runs < MaxRuns
  /\ active' = active \cup {s}
  /\ tasks' = tasks \cup {[run |-> runs + 1, src |-> s, pc |-> "running", treeFailed |-> FALSE]}
  /\ runs' = runs + 1

\* sync_source: a disabled source is an error; one that is being synced is skipped
\* with Ok; otherwise the id enters the active set and a task is spawned.
Dispatch(s, e) ==
  /\ e.enabled
  /\ IF s \in active THEN UNCHANGED <<active, tasks, runs>>
     ELSE /\ runs < MaxRuns
          /\ active' = active \cup {s}
          /\ tasks' = tasks \cup
               {[run |-> runs + 1, src |-> s, pc |-> "running", treeFailed |-> FALSE]}
          /\ runs' = runs + 1

\* A host that links the core asks for a run of what the registry has now.
RequestSync(s) ==
  /\ registry[s] # NoEntry
  /\ Dispatch(s, registry[s])
  /\ UNCHANGED <<registryVars, lastOk, loopVars, gate, now>>

\* run_source_sync of the provider runs the pipeline itself: it asks neither the
\* switch nor the active set, and writes no audit entry.
ProviderRun(s) ==
  /\ registry[s] # NoEntry /\ runs < MaxRuns
  /\ tasks' = tasks \cup {[run |-> runs + 1, src |-> s, pc |-> "direct", treeFailed |-> FALSE]}
  /\ runs' = runs + 1
  /\ UNCHANGED <<registryVars, active, lastOk, loopVars, gate, now>>

\* Faulty variant: the task forgets which source it is about.
AdvanceUnnamed(t, pc, failed) ==
  tasks' = (tasks \ {t}) \cup {[t EXCEPT !.pc = pc, !.src = NoEntry]}

\* The task goes on to pc.
Advance(t, pc, failed) ==
  tasks' = (tasks \ {t}) \cup {[t EXCEPT !.pc = pc, !.treeFailed = failed]}

\* run_source_pipeline_core: a composio source is refused; the others fetch, and may
\* report items that did not reach the tree.
PipelineReturns(t) ==
  /\ t.pc = "running"
  /\ \/ t.src \notin Composio /\ \E failed \in BOOLEAN : Advance(t, "fetched", failed)
     \/ Advance(t, "ended", FALSE)
  /\ UNCHANGED <<active, runs, lastOk>>

\* A direct run ends with its pipeline.
ProviderRunEnds(t) ==
  /\ t.pc = "direct"
  /\ tasks' = tasks \ {t}
  /\ UNCHANGED <<active, runs, lastOk>>

\* Faulty variant: a run whose tree half failed is a success.
VerdictIgnoresTree(t, reconcileFailed) == TRUE

\* run_verdict: success only if nothing failed on the way into the tree.
RunVerdict(t, reconcileFailed) == ~t.treeFailed /\ ~reconcileFailed

\* check_and_rebuild_tree, the verdict, the audit entry (whose append may fail).
ReconcileAndAudit(t) ==
  /\ t.pc = "fetched"
  /\ \E reconcileFailed, appended \in BOOLEAN :
       lastOk' = IF RunVerdict(t, reconcileFailed) /\ appended
                 THEN [lastOk EXCEPT ![t.src] = now] ELSE lastOk
  /\ Advance(t, "ended", t.treeFailed)
  /\ UNCHANGED <<active, runs>>

\* The inner task panics; the outer one joins it.
TaskPanics(t) ==
  /\ t.pc \in {"running", "fetched"}
  /\ Advance(t, "ended", t.treeFailed)
  /\ UNCHANGED <<active, runs, lastOk>>

\* Faulty variant: the id is left in the active set.
ReleaseNothing(t) ==
  /\ t.pc = "ended"
  /\ tasks' = tasks \ {t}
  /\ UNCHANGED <<active, runs, lastOk>>

\* The outer task takes the id out of the active set whatever happened.
Release(t) ==
  /\ t.pc = "ended"
  /\ tasks' = tasks \ {t}
  /\ active' = active \ {t.src}
  /\ UNCHANGED <<runs, lastOk>>

TaskStep ==
  /\ \E t \in tasks :
       \/ PipelineReturns(t) \/ ReconcileAndAudit(t) \/ TaskPanics(t) \/ Release(t)
       \/ ProviderRunEnds(t)
  /\ UNCHANGED <<registryVars, loopVars, gate, now>>

(***************************************************************************)
(* The gate and the loop.                                                  *)
(***************************************************************************)

\* refresh and store_policy: the host's answer is stored (and leaving a pause wakes
\* the loop, which may tick at any moment anyway); without an answer the last policy
\* stands.  A battery pause is not told apart here: it does not stop this loop.
GateRefresh ==
  /\ gate' = IF gate = "open" THEN "paused" ELSE "open"
  /\ UNCHANGED <<registryVars, runVars, lastOk, loopVars, now>>

\* set_manual_override, and the end of its window.
SetManualOverride ==
  /\ gate' = CASE gate = "paused" -> "overridden" [] gate = "overridden" -> "paused"
               [] OTHER -> "open"
  /\ UNCHANGED <<registryVars, runVars, lastOk, loopVars, now>>

\* periodic_pause_reason: only the user's switch (or signing out) pauses the loop.
PeriodicPaused == gate = "paused"

\* cadence_from_audit: the fired-at map, else the audit log, else unknown.
SinceLastSync(s, auditRead) ==
  IF fired[s] # Never THEN fired[s] ELSE IF auditRead THEN lastOk[s] ELSE now

\* connection_is_due.
Due(s, auditRead) ==
  LET at == SinceLastSync(s, auditRead)
  IN  at = Never \/ (at # Never /\ now - at >= Interval)

\* run_one_tick up to the list of due sources.
TickStarts ==
  /\ tick = Waiting
  /\ tick' \in
       IF PeriodicPaused THEN {Waiting}
       ELSE {[pc |-> "firing",
              due |-> {<<s, registry[s]>> : s \in {s \in Sources \ Composio :
                         registry[s] # NoEntry /\ registry[s].enabled /\ Due(s, read)}}]
             : read \in BOOLEAN}
  /\ UNCHANGED <<registryVars, runVars, lastOk, fired, started, gate, now>>

\* Faulty variant: a dispatch is not remembered.
FiredForgotten(s) == fired

\* What the fired-at map becomes when a dispatch of s answered Ok.
FiredAfter(s) == [fired EXCEPT ![s] = now]

\* sync_source with the entry as the tick read it, then the fired-at map, also when
\* the dispatcher skipped a source that is being synced.
TickFires ==
  /\ tick.pc = "firing" /\ tick.due # {}
  /\ \E d \in tick.due :
       /\ Dispatch(d[1], d[2])
       /\ fired' = FiredAfter(d[1])
       /\ started' = IF runs' # runs THEN [started EXCEPT ![d[1]] = now] ELSE started
       /\ tick' = [tick EXCEPT !.due = @ \ {d}]
  /\ UNCHANGED <<registryVars, lastOk, gate, now>>

TickEnds ==
  /\ tick.pc = "firing" /\ tick.due = {}
  /\ tick' = Waiting
  /\ UNCHANGED <<registryVars, runVars, lastOk, fired, started, gate, now>>

TimePasses ==
  /\ now < MaxTime /\ now' = now + 1
  /\ UNCHANGED <<registryVars, runVars, lastOk, loopVars, gate>>

\* The process dies and starts again.
Restart ==
  /\ active' = {} /\ tasks' = {} /\ snapshot' = registry
  /\ fired' = [s \in Sources |-> Never] /\ started' = [s \in Sources |-> Never]
  /\ tick' = Waiting /\ gate' = "open"
  /\ UNCHANGED <<registry, acked, edits, runs, lastOk, now>>
  /\ MigrationOver

SsInit ==
  /\ registry \in [Sources -> {NoEntry, [enabled |-> TRUE, capped |-> FALSE]}]
  /\ acked = registry /\ snapshot = registry /\ exposed = {} /\ edits = 0 /\ migrator = NoMigration
  /\ active = {} /\ tasks = {} /\ runs = 0
  /\ lastOk = [s \in Sources |-> Never] /\ fired = lastOk /\ started = lastOk
  /\ tick = Waiting /\ gate = "open"
  /\ now = 0

SsNext ==
  \/ RegistryStep \/ TaskStep
  \/ \E s \in Sources : RequestSync(s) \/ ProviderRun(s)
  \/ GateRefresh \/ SetManualOverride
  \/ TickStarts \/ TickFires \/ TickEnds
  \/ TimePasses \/ Restart

SsSpec == SsInit /\ [][SsNext]_ssVars

(***************************************************************************)
(* Properties.                                                             *)
(***************************************************************************)

SsTypeOK ==
  /\ registry \in [Sources -> Entry \cup {NoEntry}]
  /\ active \subseteq Sources
  /\ \A t \in tasks : t.src \in Sources /\ t.run \in 1 .. MaxRuns
  /\ lastOk \in [Sources -> 0 .. MaxTime \cup {Never}]
  /\ fired \in [Sources -> 0 .. MaxTime \cup {Never}]

\* No edit of the registry that was acknowledged is undone by the caps migration, which
\* writes back the whole list it read some time before: a removed source stays removed,
\* an added or updated one stays as it was put.  It fails in two cases only, and only for
\* the sources they name: the file could not be read, and the list written over it is the
\* one the process began with; or another handle wrote the entry after the migration's
\* read.
RegistryKeepsAcked == \A s \in Sources : registry[s] = acked[s] \/ s \in exposed

\* A source is never synced by two dispatched tasks at a time, however requests,
\* ticks, panics and restarts interleave (a direct run of the provider is the one
\* that may run beside them).
OneRunPerSource ==
  \A t, u \in tasks : (t.src = u.src /\ "direct" \notin {t.pc, u.pc}) => t = u

\* An id is in the active set only while a task that will take it out lives, also
\* when a run fails or panics: an id left behind would turn every later request and
\* tick into a silent skip until the process restarts.
SlotHasTask == \A s \in active : \E t \in tasks : t.src = s /\ t.pc # "direct"

\* The loop starts two runs of a source at least an interval apart as long as the
\* process lives, even though the runs may fail and the loop may be woken any number
\* of times by the gate and by overrides.
PeriodicSpacing ==
  [][\A s \in Sources :
       (started[s] # Never /\ started'[s] # Never /\ started'[s] # started[s])
         => started'[s] - started[s] >= Interval]_ssVars

\* What the audit log calls a success reached the tree: a run whose tree half failed
\* leaves the source due.
AuditedRunReachedTree ==
  [][\A t \in tasks : t.treeFailed /\ t \notin tasks' => lastOk'[t.src] = lastOk[t.src]]_ssVars

\* One dispatched run per source, and an active id only while its run lives.
RunsSound == SsTypeOK /\ OneRunPerSource /\ SlotHasTask

\* The loop keeps its interval, and only a run that reached the tree resets it.
ScheduleKept == PeriodicSpacing /\ AuditedRunReachedTree
=============================================================================
