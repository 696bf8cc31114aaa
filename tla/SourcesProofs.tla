---------------------------- MODULE SourcesProofs ----------------------------
(***************************************************************************)
(* Memory sources, for any number of sources, items, runs and edits: the   *)
(* registry keeps what it acknowledged beside the caps migration, a source *)
(* has one dispatched run at a time and the loop keeps its interval; the   *)
(* tree holds no item whose document a removal took away before it was     *)
(* read, a batch reaches the tree and a backfill pass accounts for what it *)
(* listed.                                                                 *)
(***************************************************************************)
EXTENDS ConnectorTree, SourceSync, SyncBudget, FiniteSetTheorems, TLAPS

(***************************************************************************)
(* The registry, the dispatcher and the loop.                              *)
(***************************************************************************)

Listing == [Sources -> Entry \cup {NoEntry}]

\* While the migration is under way, what it read is what the file says but for the
\* exposed sources; a source that is not exposed is as its callers were told.
RegInv ==
  /\ registry \in Listing /\ acked \in Listing /\ snapshot \in Listing
  /\ exposed \subseteq Sources
  /\ \A s \in Sources : registry[s] = acked[s] \/ s \in exposed
  /\ \/ migrator = NoMigration
     \/ /\ migrator \in [pc : {"loaded"}, entries : Listing]
        /\ \A s \in Sources : migrator.entries[s] = registry[s] \/ s \in exposed

TaskRec ==
  [run : Nat \ {0}, src : Sources, pc : {"running", "fetched", "ended", "direct"},
   treeFailed : BOOLEAN]

\* The active set is exactly the sources of the dispatched runs.
RunInv ==
  /\ runs \in Nat /\ runs <= MaxRuns
  /\ tasks \subseteq TaskRec /\ \A t \in tasks : t.run <= runs
  /\ active \subseteq Sources
  /\ OneRunPerSource /\ SlotHasTask
  /\ \A t \in tasks : t.pc # "direct" => t.src \in active

Moments == 0 .. MaxTime \cup {Never}

\* A source the tick found due has not been started for an interval.
TickInv ==
  \/ tick = Waiting
  \/ /\ tick \in [pc : {"firing"}, due : SUBSET (Sources \X (Entry \cup {NoEntry}))]
     /\ \A d, e \in tick.due : d[1] = e[1] => d = e
     /\ \A d \in tick.due : started[d[1]] # Never => now - started[d[1]] >= Interval

LoopInv ==
  /\ now \in 0 .. MaxTime
  /\ lastOk \in [Sources -> Moments] /\ fired \in [Sources -> Moments]
  /\ started \in [Sources -> Moments]
  /\ \A s \in Sources : fired[s] # Never => fired[s] <= now
  /\ \A s \in Sources : started[s] # Never => fired[s] # Never /\ started[s] <= fired[s]
  /\ TickInv

SsInv == RegInv /\ RunInv /\ LoopInv

----------------------------------------------------------------------------
\* An entry with its caps, and the list of them, are typed.
LEMMA CapsTyped ==
  ASSUME NEW l \in Listing
  PROVE  ApplyCapsDefaults(l) \in Listing
<1>1. ASSUME NEW s \in Sources, l[s] # NoEntry
      PROVE  /\ l[s] \in Entry /\ [l[s] EXCEPT !.capped = TRUE] \in Entry
             /\ [enabled |-> TRUE, capped |-> TRUE] \in Entry
  <2>1. l[s] \in Entry
    BY <1>1 DEF Listing
  <2> QED BY <2>1 DEF Entry
<1> QED BY <1>1 DEF ApplyCapsDefaults, Listing

\* The caps of an entry depend on that entry alone.
LEMMA CapsLocal ==
  ASSUME NEW k \in Listing, NEW l \in Listing, NEW s \in Sources, k[s] = l[s]
  PROVE  ApplyCapsDefaults(k)[s] = ApplyCapsDefaults(l)[s]
BY DEF ApplyCapsDefaults

\* One operation on an entry, under the lock or beside the migration.
LEMMA EditKeeps ==
  ASSUME RegInv, NEW s \in Sources, NEW e \in Entry \cup {NoEntry},
         Edit(s, e) \/ OutsideWrites(s, e)
  PROVE  RegInv'
<1>1. /\ registry' = [registry EXCEPT ![s] = e] /\ acked' = [acked EXCEPT ![s] = e]
      /\ snapshot' = snapshot /\ migrator' = migrator
  BY DEF Edit, OutsideWrites
<1>2. registry' \in Listing /\ acked' \in Listing
  BY <1>1 DEF RegInv, Listing
<1>3. /\ registry'[s] = e /\ acked'[s] = e
      /\ \A u \in Sources \ {s} : registry'[u] = registry[u] /\ acked'[u] = acked[u]
  BY <1>1 DEF RegInv, Listing
<1>4. \/ migrator = NoMigration /\ exposed' = exposed \ {s}
      \/ migrator # NoMigration /\ exposed' = exposed \cup {s}
  BY DEF Edit, OutsideWrites, LockFree
<1>5. exposed' \subseteq Sources /\ \A u \in Sources : registry'[u] = acked'[u] \/ u \in exposed'
  BY <1>3, <1>4 DEF RegInv
<1>6. CASE migrator = NoMigration
  BY <1>1, <1>2, <1>5, <1>6 DEF RegInv
<1>7. CASE migrator # NoMigration
  <2>1. /\ migrator' \in [pc : {"loaded"}, entries : Listing]
        /\ \A u \in Sources : migrator'.entries[u] = registry'[u] \/ u \in exposed'
    BY <1>1, <1>3, <1>4, <1>7 DEF RegInv
  <2> QED BY <1>1, <1>2, <1>5, <2>1 DEF RegInv
<1> QED BY <1>6, <1>7

\* The migration is over: what its end lost is exposed.
LEMMA OverKeeps ==
  ASSUME RegInv, MigrationOver, registry' \in Listing, acked' \in Listing, snapshot' \in Listing,
         \A s \in Sources : registry'[s] = acked'[s] \/ s \in exposed
  PROVE  RegInv'
BY DEF RegInv, MigrationOver

LEMMA RegKept ==
  ASSUME RegInv, SsNext
  PROVE  RegInv'
<1>1. CASE RegistryStep
  <2>1. ASSUME NEW s \in Sources, NEW e \in Entry, AddSource(s, e) PROVE RegInv'
    BY <2>1, EditKeeps DEF AddSource
  <2>2. ASSUME NEW s \in Sources, NEW on \in BOOLEAN, UpdateSource(s, on) PROVE RegInv'
    <3>1. registry[s] \in Entry
      BY <2>2 DEF UpdateSource, RegInv, Listing
    <3>2. [registry[s] EXCEPT !.enabled = on] \in Entry
      BY <3>1 DEF Entry
    <3> QED BY <2>2, <3>2, EditKeeps DEF UpdateSource
  <2>3. ASSUME NEW s \in Sources, RemoveSource(s) PROVE RegInv'
    BY <2>3, EditKeeps DEF RemoveSource
  <2>4. ASSUME NEW s \in Sources, UpsertComposioSource(s) PROVE RegInv'
    <3>1. [enabled |-> TRUE, capped |-> TRUE] \in Entry
      BY DEF Entry
    <3>2. PICK e \in Entry \cup {NoEntry} :
            e = IF registry[s] = NoEntry THEN [enabled |-> TRUE, capped |-> TRUE] ELSE registry[s]
      BY <3>1 DEF RegInv, Listing
    <3> QED BY <2>4, <3>2, EditKeeps DEF UpsertComposioSource
  <2>5. ASSUME NEW s \in Sources, NEW e \in Entry \cup {NoEntry}, OutsideWrites(s, e) PROVE RegInv'
    BY <2>5, EditKeeps
  <2>6. CASE ApplyAllIn
    <3>1. [enabled |-> TRUE, capped |-> FALSE] \in Entry
      BY DEF Entry
    <3>2. /\ registry' = [s \in Sources |-> IF registry[s] = NoEntry THEN NoEntry
                                            ELSE [enabled |-> TRUE, capped |-> FALSE]]
          /\ acked' = registry' /\ exposed' = {} /\ snapshot' = snapshot
          /\ migrator' = NoMigration
      BY <2>6 DEF ApplyAllIn, LockFree
    <3>3. registry' \in Listing
      BY <3>1, <3>2 DEF Listing
    <3> QED BY <3>2, <3>3 DEF RegInv
  <2>7. CASE MigrationReads
    <3>1. PICK readable \in BOOLEAN :
            /\ migrator' = [pc |-> "loaded", entries |-> MemorySourcesJson(readable)]
            /\ exposed' = exposed \cup {s \in Sources : MemorySourcesJson(readable)[s] # registry[s]}
      BY <2>7 DEF MigrationReads
    <3>2. MemorySourcesJson(readable) \in Listing
      BY DEF MemorySourcesJson, RegInv
    <3>3. UNCHANGED <<registry, acked, snapshot>>
      BY <2>7 DEF MigrationReads
    <3> QED BY <3>1, <3>2, <3>3 DEF RegInv
  <2>8. CASE MigrationWrites
    <3>1. /\ registry' = ApplyCapsDefaults(migrator.entries) /\ acked' = ApplyCapsDefaults(acked)
          /\ MigrationOver /\ snapshot' = snapshot /\ migrator # NoMigration
      BY <2>8 DEF MigrationWrites, NoMigration
    <3>2. migrator.entries \in Listing
      BY <3>1 DEF RegInv
    <3>3. registry' \in Listing /\ acked' \in Listing /\ snapshot' \in Listing
      BY <3>1, <3>2, CapsTyped DEF RegInv
    <3>4. ASSUME NEW s \in Sources, s \notin exposed PROVE registry'[s] = acked'[s]
      <4>1. migrator.entries[s] = acked[s]
        BY <3>1, <3>4 DEF RegInv
      <4> QED BY <3>1, <3>2, <4>1, CapsLocal DEF RegInv
    <3> QED BY <3>1, <3>3, <3>4, OverKeeps
  <2>9. CASE MigrationFails
    BY <2>9, OverKeeps DEF MigrationFails, RegInv
  <2> QED BY <1>1, <2>1, <2>2, <2>3, <2>4, <2>5, <2>6, <2>7, <2>8, <2>9 DEF RegistryStep
<1>2. CASE Restart
  BY <1>2, OverKeeps DEF Restart, RegInv
<1>3. CASE UNCHANGED registryVars
  BY <1>3 DEF registryVars, RegInv
<1> QED
  BY <1>1, <1>2, <1>3
     DEF SsNext, TaskStep, RequestSync, ProviderRun, GateRefresh, SetManualOverride,
         TickStarts, TickFires, TickEnds, TimePasses

----------------------------------------------------------------------------
\* A dispatch starts a run only of a source that has none.
LEMMA DispatchKeeps ==
  ASSUME RunInv, NEW s \in Sources, NEW e, Dispatch(s, e)
  PROVE  RunInv'
<1>1. CASE s \in active
  BY <1>1 DEF Dispatch, RunInv, OneRunPerSource, SlotHasTask
<1>2. CASE s \notin active
  <2>1. runs < MaxRuns /\ active' = active \cup {s} /\ runs' = runs + 1
    BY <1>2 DEF Dispatch
  <2>2. PICK n \in Nat \ {0} : n = runs + 1
    BY DEF RunInv
  <2>3. PICK t \in TaskRec : t = [run |-> n, src |-> s, pc |-> "running", treeFailed |-> FALSE]
    BY DEF TaskRec
  <2>4. tasks' = tasks \cup {t}
    BY <1>2, <2>2, <2>3 DEF Dispatch
  <2>5. t.run = runs + 1 /\ t.src = s /\ t.pc = "running"
    BY <2>2, <2>3
  <2>6. \A u \in tasks : u.pc # "direct" => u.src # s
    BY <1>2 DEF RunInv
  <2>7. OneRunPerSource'
    BY <2>4, <2>5, <2>6 DEF RunInv, OneRunPerSource
  <2>8. SlotHasTask'
    BY <2>1, <2>4, <2>5 DEF RunInv, SlotHasTask
  <2>9. \A u \in tasks' : u.run <= runs'
    BY <2>1, <2>4, <2>5 DEF RunInv, TaskRec
  <2> QED BY <2>1, <2>4, <2>5, <2>7, <2>8, <2>9, SourceSyncAssumption DEF RunInv
<1> QED BY <1>1, <1>2

\* A run goes on under its source, or ends and gives the source free.
LEMMA AdvanceKeeps ==
  ASSUME RunInv, NEW t \in tasks, t.pc # "direct",
         NEW pc \in {"fetched", "ended"}, NEW failed \in BOOLEAN,
         Advance(t, pc, failed), UNCHANGED <<active, runs>>
  PROVE  RunInv'
<1>1. t \in TaskRec
  BY DEF RunInv
<1>2. PICK u \in TaskRec : u = [t EXCEPT !.pc = pc, !.treeFailed = failed]
  BY <1>1 DEF TaskRec
<1>3. u.src = t.src /\ u.run = t.run /\ u.pc # "direct"
  BY <1>1, <1>2 DEF TaskRec
<1>4. tasks' = (tasks \ {t}) \cup {u}
  BY <1>2 DEF Advance
<1>5. OneRunPerSource'
  BY <1>3, <1>4 DEF RunInv, OneRunPerSource
<1>6. SlotHasTask'
  BY <1>3, <1>4 DEF RunInv, SlotHasTask
<1> QED BY <1>3, <1>4, <1>5, <1>6 DEF RunInv

LEMMA RunKept ==
  ASSUME SsInv, SsNext
  PROVE  RunInv'
<1>0. RunInv
  BY DEF SsInv
<1>1. CASE TaskStep
  <2>1. PICK t \in tasks :
          \/ PipelineReturns(t) \/ ReconcileAndAudit(t) \/ TaskPanics(t) \/ Release(t)
          \/ ProviderRunEnds(t)
    BY <1>1 DEF TaskStep
  <2>2. CASE PipelineReturns(t)
    <3>1. PICK pc \in {"fetched", "ended"}, failed \in BOOLEAN : Advance(t, pc, failed)
      BY <2>2 DEF PipelineReturns
    <3> QED BY <1>0, <2>2, <3>1, AdvanceKeeps DEF PipelineReturns
  <2>3. CASE ReconcileAndAudit(t) \/ TaskPanics(t)
    <3>1. PICK pc \in {"fetched", "ended"}, failed \in BOOLEAN :
            pc = "ended" /\ failed = t.treeFailed
      BY <1>0 DEF RunInv, TaskRec
    <3> QED BY <1>0, <2>3, <3>1, AdvanceKeeps DEF ReconcileAndAudit, TaskPanics
  <2>4. CASE Release(t)
    <3>1. t.pc = "ended" /\ tasks' = tasks \ {t} /\ active' = active \ {t.src} /\ runs' = runs
      BY <2>4 DEF Release
    <3>2. \A u \in tasks' : u.pc # "direct" => u.src # t.src
      BY <1>0, <3>1 DEF RunInv, OneRunPerSource
    <3>3. OneRunPerSource' /\ SlotHasTask'
      BY <1>0, <3>1 DEF RunInv, OneRunPerSource, SlotHasTask
    <3> QED BY <1>0, <3>1, <3>2, <3>3 DEF RunInv
  <2>5. CASE ProviderRunEnds(t)
    <3>1. t.pc = "direct" /\ tasks' = tasks \ {t} /\ UNCHANGED <<active, runs>>
      BY <2>5 DEF ProviderRunEnds
    <3>2. OneRunPerSource' /\ SlotHasTask'
      BY <1>0, <3>1 DEF RunInv, OneRunPerSource, SlotHasTask
    <3> QED BY <1>0, <3>1, <3>2 DEF RunInv
  <2> QED BY <2>1, <2>2, <2>3, <2>4, <2>5
<1>2. ASSUME NEW s \in Sources, RequestSync(s) PROVE RunInv'
  BY <1>0, <1>2, DispatchKeeps DEF RequestSync
<1>3. ASSUME NEW s \in Sources, ProviderRun(s) PROVE RunInv'
  <2>1. runs < MaxRuns /\ active' = active /\ runs' = runs + 1
    BY <1>3 DEF ProviderRun
  <2>2. PICK n \in Nat \ {0} : n = runs + 1
    BY <1>0 DEF RunInv
  <2>3. PICK t \in TaskRec : t = [run |-> n, src |-> s, pc |-> "direct", treeFailed |-> FALSE]
    BY DEF TaskRec
  <2>4. tasks' = tasks \cup {t}
    BY <1>3, <2>2, <2>3 DEF ProviderRun
  <2>5. t.run = runs + 1 /\ t.src = s /\ t.pc = "direct"
    BY <2>2, <2>3
  <2>6. OneRunPerSource' /\ SlotHasTask'
    BY <1>0, <2>1, <2>4, <2>5 DEF RunInv, OneRunPerSource, SlotHasTask
  <2>7. \A u \in tasks' : u.run <= runs'
    BY <1>0, <2>1, <2>4, <2>5 DEF RunInv, TaskRec
  <2> QED BY <1>0, <2>1, <2>4, <2>5, <2>6, <2>7, SourceSyncAssumption DEF RunInv
<1>4. CASE TickFires
  <2>1. PICK d \in tick.due : Dispatch(d[1], d[2])
    BY <1>4 DEF TickFires
  <2>2. d[1] \in Sources
    BY <1>4, <2>1 DEF TickFires, SsInv, LoopInv, TickInv, Waiting
  <2>3. PICK s \in Sources : s = d[1]
    BY <2>2
  <2>4. PICK e : e = d[2]
    OBVIOUS
  <2> QED BY <1>0, <2>1, <2>3, <2>4, DispatchKeeps
<1>5. CASE Restart
  BY <1>0, <1>5 DEF Restart, RunInv, OneRunPerSource, SlotHasTask
<1>6. CASE UNCHANGED runVars
  BY <1>0, <1>6 DEF runVars, RunInv, OneRunPerSource, SlotHasTask
<1> QED
  BY <1>1, <1>2, <1>3, <1>4, <1>5, <1>6
     DEF SsNext, RegistryStep, GateRefresh, SetManualOverride, TickStarts, TickEnds, TimePasses

----------------------------------------------------------------------------
\* The loop fires a source at the moment that is written down.
LEMMA FiresAt ==
  ASSUME LoopInv, NEW d \in tick.due, tick.pc = "firing"
  PROVE  /\ d[1] \in Sources /\ now \in Nat
         /\ started[d[1]] # Never => started[d[1]] \in Nat /\ now - started[d[1]] >= Interval
BY SourceSyncAssumption DEF LoopInv, TickInv, Waiting, Moments

LEMMA LoopKept ==
  ASSUME SsInv, SsNext
  PROVE  LoopInv'
<1>0. LoopInv /\ RegInv /\ RunInv
  BY DEF SsInv
<1>1. CASE TickStarts
  <2>1. UNCHANGED <<lastOk, fired, started, now>>
    BY <1>1 DEF TickStarts
  <2>2. CASE tick' = Waiting
    BY <1>0, <2>1, <2>2 DEF LoopInv, TickInv
  <2>3. CASE tick' # Waiting
    <3>1. PICK read \in BOOLEAN :
            tick' = [pc |-> "firing",
                     due |-> {<<s, registry[s]>> : s \in {s \in Sources \ Composio :
                               registry[s] # NoEntry /\ registry[s].enabled /\ Due(s, read)}}]
      BY <1>1, <2>3 DEF TickStarts
    <3> DEFINE D == {s \in Sources \ Composio :
                       registry[s] # NoEntry /\ registry[s].enabled /\ Due(s, read)}
    <3>2. tick'.pc = "firing" /\ tick'.due = {<<s, registry[s]>> : s \in D}
      BY <3>1
    <3>3. \A s \in D : s \in Sources /\ registry[s] \in Entry \cup {NoEntry} /\ Due(s, read)
      BY <1>0 DEF RegInv, Listing
    <3>4. \A s \in D : started[s] # Never => now - started[s] >= Interval
      <4>1. ASSUME NEW s \in D, started[s] # Never PROVE now - started[s] >= Interval
        <5>1. fired[s] # Never /\ started[s] <= fired[s] /\ fired[s] <= now
              /\ fired[s] \in Nat /\ started[s] \in Nat /\ now \in Nat
          BY <1>0, <4>1, <3>3, SourceSyncAssumption DEF LoopInv, Moments
        <5>2. now - fired[s] >= Interval
          BY <3>3, <4>1, <5>1 DEF Due, SinceLastSync
        <5> QED BY <5>1, <5>2, SourceSyncAssumption
      <4> QED BY <4>1
    <3> HIDE DEF D
    <3>5. tick' \in [pc : {"firing"}, due : SUBSET (Sources \X (Entry \cup {NoEntry}))]
      <4>1. {<<s, registry[s]>> : s \in D} \in SUBSET (Sources \X (Entry \cup {NoEntry}))
        BY <3>3
      <4>2. PICK due \in SUBSET (Sources \X (Entry \cup {NoEntry})) : due = {<<s, registry[s]>> : s \in D}
        BY <4>1
      <4>3. tick' = [pc |-> "firing", due |-> due]
        BY <3>1, <4>2 DEF D
      <4> QED BY <4>3
    <3>6. \A d, e \in tick'.due : d[1] = e[1] => d = e
      BY <3>2
    <3>7. \A d \in tick'.due : started[d[1]] # Never => now - started[d[1]] >= Interval
      BY <3>2, <3>4
    <3>8. TickInv'
      BY <2>1, <3>5, <3>6, <3>7 DEF TickInv
    <3> QED BY <1>0, <2>1, <3>8 DEF LoopInv
  <2> QED BY <2>2, <2>3
<1>2. CASE TickFires
  <2>1. PICK d \in tick.due :
          /\ fired' = [fired EXCEPT ![d[1]] = now]
          /\ started' = IF runs' # runs THEN [started EXCEPT ![d[1]] = now] ELSE started
          /\ tick' = [tick EXCEPT !.due = @ \ {d}]
    BY <1>2 DEF TickFires, FiredAfter
  <2>2. tick.pc = "firing" /\ UNCHANGED <<lastOk, now>>
    BY <1>2 DEF TickFires
  <2>3. /\ tick \in [pc : {"firing"}, due : SUBSET (Sources \X (Entry \cup {NoEntry}))]
        /\ \A c, e \in tick.due : c[1] = e[1] => c = e
        /\ \A e \in tick.due : started[e[1]] # Never => now - started[e[1]] >= Interval
    BY <1>0, <2>2 DEF LoopInv, TickInv, Waiting
  <2>4. d[1] \in Sources /\ now \in Nat /\ now \in Moments
    BY <1>0, <2>2, <2>1, FiresAt DEF LoopInv, Moments
  <2>5. fired' \in [Sources -> Moments] /\ started' \in [Sources -> Moments]
    BY <1>0, <2>1, <2>4 DEF LoopInv
  <2>6. \A s \in Sources : IF s = d[1] THEN fired'[s] = now /\ started'[s] \in {now, started[s]}
                           ELSE fired'[s] = fired[s] /\ started'[s] = started[s]
    BY <1>0, <2>1, <2>4 DEF LoopInv
  <2>7. \A s \in Sources : started[s] # Never => started[s] \in Nat /\ fired[s] \in Nat
                                                /\ started[s] <= fired[s] /\ fired[s] <= now
    BY <1>0, SourceSyncAssumption DEF LoopInv, Moments
  <2>8. \A s \in Sources : fired'[s] # Never => fired'[s] <= now
    BY <1>0, <2>4, <2>6 DEF LoopInv
  <2>9. \A s \in Sources : started'[s] # Never => fired'[s] # Never /\ started'[s] <= fired'[s]
    BY <1>0, <2>4, <2>6, <2>7, SourceSyncAssumption DEF LoopInv
  <2>10. TickInv'
    <3>1. tick' \in [pc : {"firing"}, due : SUBSET (Sources \X (Entry \cup {NoEntry}))]
          /\ tick'.due = tick.due \ {d}
      BY <2>1, <2>3
    <3>2. \A e \in tick'.due : e \in tick.due /\ e[1] # d[1] /\ e[1] \in Sources
      BY <2>1, <2>3, <3>1
    <3>3. \A e \in tick'.due : started'[e[1]] # Never => now - started'[e[1]] >= Interval
      BY <2>3, <2>6, <3>2
    <3>4. \A c, e \in tick'.due : c[1] = e[1] => c = e
      BY <2>3, <3>1
    <3> QED BY <2>2, <3>1, <3>3, <3>4 DEF TickInv
  <2> QED BY <1>0, <2>2, <2>5, <2>8, <2>9, <2>10 DEF LoopInv
<1>3. CASE TickEnds
  BY <1>0, <1>3 DEF TickEnds, LoopInv, TickInv
<1>4. CASE TimePasses
  <2>1. now' = now + 1 /\ now < MaxTime /\ UNCHANGED <<lastOk, fired, started, tick>>
    BY <1>4 DEF TimePasses, loopVars
  <2>2. now \in Nat /\ now' \in 0 .. MaxTime /\ now <= now'
    BY <1>0, <2>1, SourceSyncAssumption DEF LoopInv
  <2>3. \A s \in Sources : fired[s] # Never => fired[s] <= now'
    BY <1>0, <2>1, <2>2, SourceSyncAssumption DEF LoopInv, Moments
  <2>4. TickInv'
    <3>1. CASE tick = Waiting
      BY <2>1, <3>1 DEF TickInv
    <3>2. CASE tick # Waiting
      <4>1. tick.pc = "firing" /\ TickInv
        BY <1>0, <3>2 DEF LoopInv, TickInv
      <4>2. \A d \in tick.due : started[d[1]] # Never => now' - started[d[1]] >= Interval
        BY <1>0, <2>1, <4>1, FiresAt, SourceSyncAssumption
      <4> QED BY <2>1, <3>2, <4>1, <4>2 DEF TickInv
    <3> QED BY <3>1, <3>2
  <2> QED BY <1>0, <2>1, <2>2, <2>3, <2>4 DEF LoopInv
<1>5. CASE Restart
  BY <1>0, <1>5, SourceSyncAssumption DEF Restart, LoopInv, TickInv, Moments
<1>6. CASE TaskStep
  <2>1. UNCHANGED <<fired, tick, started, now>>
    BY <1>6 DEF TaskStep, loopVars
  <2>2. lastOk' \in [Sources -> Moments]
    <3>1. PICK t \in tasks : lastOk' = lastOk \/ lastOk' = [lastOk EXCEPT ![t.src] = now]
      BY <1>6 DEF TaskStep, PipelineReturns, ReconcileAndAudit, TaskPanics, Release, ProviderRunEnds
    <3>2. t.src \in Sources /\ now \in Moments
      BY <1>0 DEF RunInv, TaskRec, LoopInv, Moments
    <3> QED BY <1>0, <3>1, <3>2 DEF LoopInv
  <2> QED BY <1>0, <2>1, <2>2 DEF LoopInv, TickInv
<1>7. CASE UNCHANGED <<lastOk, loopVars, now>>
  BY <1>0, <1>7 DEF loopVars, LoopInv, TickInv
<1> QED
  BY <1>1, <1>2, <1>3, <1>4, <1>5, <1>6, <1>7
     DEF SsNext, RegistryStep, RequestSync, ProviderRun, GateRefresh, SetManualOverride

THEOREM SourceInvariant == SsSpec => []SsInv
<1>1. SsInit => SsInv
  <2>1. SUFFICES ASSUME SsInit PROVE SsInv
    OBVIOUS
  <2>2. RegInv
    <3>1. [enabled |-> TRUE, capped |-> FALSE] \in Entry
      BY DEF Entry
    <3> QED BY <2>1, <3>1 DEF SsInit, RegInv, Listing
  <2>3. RunInv
    BY <2>1, SourceSyncAssumption DEF SsInit, RunInv, OneRunPerSource, SlotHasTask
  <2>4. LoopInv
    BY <2>1, SourceSyncAssumption DEF SsInit, LoopInv, TickInv, Moments
  <2> QED BY <2>2, <2>3, <2>4 DEF SsInv
<1>2. SsInv /\ [SsNext]_ssVars => SsInv'
  <2>1. ASSUME SsInv, SsNext PROVE SsInv'
    BY <2>1, RegKept, RunKept, LoopKept DEF SsInv
  <2>2. ASSUME SsInv, UNCHANGED ssVars PROVE SsInv'
    BY <2>2 DEF SsInv, RegInv, RunInv, OneRunPerSource, SlotHasTask, LoopInv, TickInv,
                ssVars, registryVars, runVars, loopVars
  <2> QED BY <2>1, <2>2
<1> QED
  BY <1>1, <1>2, PTL DEF SsSpec

\* The caps migration writes back a whole list it read earlier, and undoes no edit that
\* was acknowledged, whoever edits and whenever it fails or the process dies, but for the
\* sources that an unreadable file or another handle's write exposed.
THEOREM RegistryCorrect == SsSpec => []RegistryKeepsAcked
<1>1. SsInv => RegistryKeepsAcked
  BY DEF SsInv, RegInv, RegistryKeepsAcked
<1> QED
  BY <1>1, SourceInvariant, PTL

\* A source has at most one dispatched run, and is in the active set exactly while
\* that run lives, whatever fails, panics or restarts.
THEOREM RunsCorrect == SsSpec => []RunsSound
<1>1. SsInv => RunsSound
  <2>1. SUFFICES ASSUME SsInv PROVE RunsSound
    OBVIOUS
  <2>2. \A t \in tasks : t.src \in Sources /\ t.run \in 1 .. MaxRuns
    BY <2>1, SourceSyncAssumption DEF SsInv, RunInv, TaskRec
  <2> QED BY <2>1, <2>2 DEF SsInv, RegInv, Listing, RunInv, LoopInv, Moments, RunsSound, SsTypeOK
<1> QED
  BY <1>1, SourceInvariant, PTL

\* The loop starts two runs of a source an interval apart however often it is woken
\* and however its runs end, and a run that did not reach the tree never counts as a
\* success in the audit log.
THEOREM ScheduleCorrect == SsSpec => ScheduleKept
<1> DEFINE Spaced == \A s \in Sources :
                       (started[s] # Never /\ started'[s] # Never /\ started'[s] # started[s])
                         => started'[s] - started[s] >= Interval
           Honest == \A t \in tasks : t.treeFailed /\ t \notin tasks' => lastOk'[t.src] = lastOk[t.src]
<1>1. SsInv /\ [SsNext]_ssVars => [Spaced]_ssVars
  <2>1. SUFFICES ASSUME SsInv, SsNext PROVE Spaced
    OBVIOUS
  <2>2. CASE TickFires
    <3>1. PICK d \in tick.due :
            started' = IF runs' # runs THEN [started EXCEPT ![d[1]] = now] ELSE started
      BY <2>2 DEF TickFires
    <3>2. /\ d[1] \in Sources /\ now \in Nat
          /\ started[d[1]] # Never => started[d[1]] \in Nat /\ now - started[d[1]] >= Interval
      BY <2>1, <2>2, FiresAt DEF SsInv, TickFires
    <3>3. \A s \in Sources : started'[s] = started[s] \/ (s = d[1] /\ started'[s] = now)
      BY <2>1, <3>1, <3>2 DEF SsInv, LoopInv
    <3> QED BY <3>2, <3>3
  <2>3. CASE Restart
    BY <2>3 DEF Restart
  <2>4. CASE started' = started
    BY <2>4
  <2> QED
    BY <2>1, <2>2, <2>3, <2>4
       DEF SsNext, RegistryStep, TaskStep, RequestSync, ProviderRun, GateRefresh, SetManualOverride,
           TickStarts, TickEnds, TimePasses, loopVars
<1>2. SsInv /\ [SsNext]_ssVars => [Honest]_ssVars
  <2>1. SUFFICES ASSUME SsInv, SsNext PROVE Honest
    OBVIOUS
  <2>2. CASE TaskStep
    <3>1. PICK t \in tasks :
            \/ PipelineReturns(t) \/ ReconcileAndAudit(t) \/ TaskPanics(t) \/ Release(t)
            \/ ProviderRunEnds(t)
      BY <2>2 DEF TaskStep
    <3>2. CASE ReconcileAndAudit(t)
      <4>1. tasks \ {t} \subseteq tasks' /\ (t.treeFailed => lastOk' = lastOk)
        BY <3>2 DEF ReconcileAndAudit, Advance, RunVerdict
      <4> QED BY <4>1
    <3>3. CASE ~ReconcileAndAudit(t)
      <4>1. lastOk' = lastOk
        BY <3>1, <3>3 DEF PipelineReturns, TaskPanics, Release, ProviderRunEnds
      <4> QED BY <4>1
    <3> QED BY <3>2, <3>3
  <2>3. CASE lastOk' = lastOk
    BY <2>3
  <2> QED
    BY <2>1, <2>2, <2>3
       DEF SsNext, RegistryStep, RequestSync, ProviderRun, GateRefresh, SetManualOverride,
           TickStarts, TickFires, TickEnds, TimePasses, Restart
<1> QED
  BY <1>1, <1>2, SourceInvariant, PTL DEF SsSpec, ScheduleKept, PeriodicSpacing, AuditedRunReachedTree

(***************************************************************************)
(* The connector tree.                                                     *)
(***************************************************************************)

Named == (Connections \cup {Plain}) \ {Legacy}

SinkRec ==
  [pc : {"put", "tree"}, src : Named, batch : Seq(Items), todo : Seq(Items), written : Seq(Items),
   end : {"ok", "rejected", "write_failed", "corrupt"}, counted : Nat]

ForgetRec == [pc : {"clear", "chunks", "orphans"}, src : Named]

Target == [ns : Spaces, as : Connections]

FillRec ==
  [pc : {"probe", "read", "ingest"}, targets : Seq(Target), as : Connections, ns : Spaces,
   todo : Seq(Items)]

Report ==
  [done : BOOLEAN, dry : BOOLEAN, listed : Nat, scanned : Nat, ingested : Nat, already : Nat,
   skipped : Nat, more_pending : BOOLEAN]

DocsOK ==
  /\ docs \in [Spaces -> Seq(Items)]
  /\ \A ns \in Spaces : IsInjective(docs[ns])
  /\ tree \subseteq Connections \X Items /\ late \subseteq tree /\ left \subseteq tree

ProcsOK ==
  /\ sink \in {NoProc} \cup SinkRec
  /\ forgetter \in {NoProc} \cup ForgetRec
  /\ removals \in Nat /\ (forgetter # NoProc => removals # 0)

\* Chunks without a document are those a removal is about to take, late ones, and those
\* a removal left; of a source whose chunks were just taken, only late ones.
OrphansOK ==
  /\ \A t \in tree :
       \/ Stored(t[1], t[2]) \/ t \in late \/ t \in left
       \/ forgetter.pc = "chunks" /\ forgetter.src = t[1]
  /\ forgetter.pc = "orphans" =>
       \A t \in tree : t[1] = forgetter.src => Stored(t[1], t[2]) \/ t \in late

\* A batch that fares well: its items are still to be written or to be filed, or are
\* in the tree, or are counted.
Missing == {i \in Range(sink.batch) : <<sink.src, i>> \notin tree} \ Range(sink.written)

BatchOK ==
  (sink # NoProc /\ sink.end = "ok" /\ sink.src \in Connections /\ removals = 0) =>
    /\ sink.pc = "put" => Range(sink.batch) \subseteq Range(sink.written) \cup Range(sink.todo)
    /\ sink.pc = "tree" => Cardinality(Missing) <= sink.counted

\* What is listed is counted or still to be looked at.
Left == IF filler.pc \in {"probe", "read", "ingest"} THEN Len(filler.todo) ELSE 0

Charged == IF report.dry THEN report.scanned ELSE 0

Counted == report.already + report.ingested + report.skipped + Charged

FillerOK ==
  \/ filler = NoProc /\ report = NoReport
  \/ filler \in [pc : {"list"}, targets : Seq(Target)]
  \/ filler \in FillRec /\ (filler.pc # "probe" => ~report.dry /\ filler.todo # <<>>)
  \/ filler = [pc |-> "done"]

FillOK ==
  /\ report \in Report /\ report.scanned <= Limit
  /\ FillerOK /\ (report.done => filler.pc = "done")
  /\ ~report.more_pending => report.listed = Counted + Left

CtInv == DocsOK /\ ProcsOK /\ OrphansOK /\ BatchOK /\ FillOK

----------------------------------------------------------------------------
\* A write moves the item to the front and leaves the others as they were.
LEMMA PutFirstOK ==
  ASSUME NEW list \in Seq(Items), IsInjective(list), NEW i \in Items
  PROVE  /\ PutFirst(list, i) \in Seq(Items) /\ IsInjective(PutFirst(list, i))
         /\ Range(PutFirst(list, i)) = Range(list) \cup {i}
<1>0. PICK z \in Nat : z = Len(list) /\ DOMAIN list = 1 .. z
  OBVIOUS
<1>1. PICK n \in Nat : n = Place(list, i) /\ n \in 1 .. z + 1
                      /\ (n <= z => list[n] = i)
                      /\ (n = z + 1 => \A k \in 1 .. z : list[k] # i)
  <2>1. CASE i \in Range(list)
    <3>1. \E q \in DOMAIN list : list[q] = i
      BY <2>1 DEF Range
    <3>2. PICK q \in DOMAIN list : q = Place(list, i) /\ list[q] = i
      BY <2>1, <3>1 DEF Place
    <3> QED BY <1>0, <3>2
  <2>2. CASE i \notin Range(list)
    BY <1>0, <2>2 DEF Place, Range
  <2> QED BY <2>1, <2>2
<1>2. PICK m \in Nat : m = IF n > z THEN n ELSE z
  BY <1>1
<1>3. PICK new : new = [k \in 1 .. m |-> IF k = 1 THEN i ELSE IF k <= n THEN list[k - 1] ELSE list[k]]
  OBVIOUS
<1>4. PutFirst(list, i) = new
  BY <1>0, <1>1, <1>2, <1>3 DEF PutFirst
<1>5. DOMAIN new = 1 .. m /\ DOMAIN list = 1 .. z
  BY <1>0, <1>3
<1>6. \A k \in 1 .. m : /\ k # 1 /\ k <= n => k - 1 \in 1 .. z /\ k - 1 # n /\ new[k] = list[k - 1]
                        /\ k > n => k \in 1 .. z /\ k # n /\ k # 1 /\ new[k] = list[k]
                        /\ k = 1 => new[k] = i
  <2>1. \A k \in 1 .. m : new[k] = IF k = 1 THEN i ELSE IF k <= n THEN list[k - 1] ELSE list[k]
    BY <1>3
  <2>2. n <= z + 1 /\ n >= 1 /\ (n > z => m = n) /\ (n <= z => m = z)
    BY <1>1, <1>2, <1>5
  <2> QED BY <1>5, <2>1, <2>2
<1>7. \A k \in 1 .. m : new[k] \in Items
  <2>1. \A k \in 1 .. z : list[k] \in Items
    BY <1>0
  <2> QED BY <1>1, <1>6, <2>1
<1>8. new \in Seq(Items)
  <2>1. new \in [1 .. m -> Items]
    BY <1>3, <1>5, <1>7
  <2> QED BY <2>1
<1>9. \A j, k \in 1 .. z : list[j] = list[k] => j = k
  BY <1>0 DEF IsInjective
<1>10. \A k \in 1 .. z : list[k] = i => k = n
  BY <1>1, <1>9
<1>11. \A j, k \in 1 .. m : new[j] = new[k] => j = k
  <2>1. ASSUME NEW j \in 1 .. m, NEW k \in 1 .. m, j < k PROVE new[j] # new[k]
    <3>1. new[k] # i
      BY <1>1, <1>6, <1>10, <2>1
    <3>2. CASE j = 1
      BY <1>6, <3>1, <3>2
    <3>3. CASE j # 1
      BY <1>1, <1>6, <1>9, <2>1, <3>3
    <3> QED BY <3>2, <3>3
  <2> QED BY <2>1
<1>12. Range(new) = Range(list) \cup {i}
  <2>0. Range(list) = {list[k] : k \in 1 .. z} /\ Range(new) = {new[k] : k \in 1 .. m}
    BY <1>5, Zenon DEF Range
  <2>1. ASSUME NEW k \in 1 .. m PROVE new[k] = i \/ \E j \in 1 .. z : new[k] = list[j]
    BY <1>1, <1>6
  <2>2. 1 \in 1 .. m /\ new[1] = i
    BY <1>1, <1>2, <1>6
  <2>3. ASSUME NEW k \in 1 .. z PROVE \E j \in 1 .. m : new[j] = list[k]
    <3>1. CASE k < n
      <4>1. k + 1 \in 1 .. m /\ new[k + 1] = list[k]
        BY <1>1, <1>2, <1>6, <3>1
      <4> QED BY <4>1
    <3>2. CASE k = n
      BY <1>1, <2>2, <3>2
    <3>3. CASE k > n
      BY <1>1, <1>2, <1>6, <3>3
    <3> QED BY <1>1, <3>1, <3>2, <3>3
  <2> QED BY <2>0, <2>1, <2>2, <2>3
<1> QED BY <1>4, <1>5, <1>8, <1>11, <1>12 DEF IsInjective

\* The targets of a pass are connections, each with a namespace.
LEMMA TargetsTyped == ResolveTargets \in Seq(Target)
<1> DEFINE n == Cardinality(Registered)
           f == SetToSeq(Registered)
           own == [k \in 1 .. n |-> LET c == SetToSeq(Registered)[k] IN [ns |-> c, as |-> c]]
<1>1. n \in Nat
  BY ConnectorAssumption, FS_CardinalityType
<1>2. f \in [1 .. n -> Registered]
  <2>1. ExistsBijection(1 .. n, Registered)
    BY ConnectorAssumption, FS_CardinalityType
  <2>2. \E g \in [1 .. n -> Registered] : IsInjective(g)
    BY <2>1 DEF ExistsBijection, Bijection, Injection, IsInjective
  <2> QED BY <2>2 DEF SetToSeq
<1>3. \A k \in 1 .. n : f[k] \in Connections /\ f[k] \in Spaces
  BY <1>2, ConnectorAssumption DEF Spaces
<1>4. own = [k \in 1 .. n |-> [ns |-> f[k], as |-> f[k]]]
  OBVIOUS
<1>5. Legacy \in Spaces
  BY DEF Spaces
<1> HIDE DEF f, n
<1>6. own \in [1 .. n -> Target]
  BY <1>3, <1>4 DEF Target
<1>7. own \in Seq(Target)
  BY <1>1, <1>6
<1>8. CASE n = 1
  <2>1. own[1] \in Target
    BY <1>6, <1>8
  <2>2. [ns |-> Legacy, as |-> own[1].as] \in Target
    BY <1>5, <2>1 DEF Target
  <2>3. ResolveTargets = Append(own, [ns |-> Legacy, as |-> own[1].as])
    BY <1>8 DEF ResolveTargets, n
  <2> HIDE DEF own
  <2> QED BY <1>7, <2>2, <2>3
<1>9. CASE n # 1
  <2>1. ResolveTargets = own
    BY <1>9 DEF ResolveTargets, n
  <2> QED BY <1>7, <2>1
<1> QED BY <1>8, <1>9

----------------------------------------------------------------------------
\* Filing an item leaves the listings and the other chunks alone.
LEMMA IngestKeeps ==
  ASSUME DocsOK, OrphansOK, NEW c \in Connections, NEW i \in Items, IngestIntoTree(c, i),
         UNCHANGED <<docs, forgetter, left>>
  PROVE  DocsOK' /\ OrphansOK' /\ tree' = tree \cup {<<c, i>>}
<1>1. tree' = tree \cup {<<c, i>>} /\ late \subseteq late' /\ late' \subseteq late \cup {<<c, i>>}
  BY DEF IngestIntoTree
<1>2. Stored(c, i) \/ <<c, i>> \in tree \/ <<c, i>> \in late'
  BY DEF IngestIntoTree
<1>3. DocsOK'
  BY <1>1 DEF DocsOK
<1>4. \A d, e : Stored(d, e) => Stored(d, e)'
  BY DEF Stored
<1>5. OrphansOK'
  BY <1>1, <1>2, <1>4 DEF OrphansOK
<1> QED BY <1>1, <1>3, <1>5

\* A listing, and every set of its items, is finite.
LEMMA RangeFinite ==
  ASSUME NEW list \in Seq(Items), NEW S, S \subseteq Range(list)
  PROVE  IsFiniteSet(S)
<1>0. PICK z \in Nat : DOMAIN list = 1 .. z
  OBVIOUS
<1>1. list \in Surjection(1 .. z, Range(list))
  BY <1>0 DEF Surjection, Range
<1>2. 1 \in Int /\ z \in Int
  OBVIOUS
<1>3. IsFiniteSet(1 .. z)
  BY <1>2, FS_Interval
<1>4. IsFiniteSet(Range(list))
  BY <1>1, <1>3, FS_Surjection
<1> QED BY <1>4, FS_Subset

\* What a batch has not filed yet does not grow while the tree does.
LEMMA BatchStands ==
  ASSUME ProcsOK, BatchOK, sink' = sink, removals' = removals, tree \subseteq tree'
  PROVE  BatchOK'
<1>1. SUFFICES ASSUME sink # NoProc, sink.end = "ok", sink.src \in Connections, removals = 0,
                      sink.pc = "tree"
               PROVE  Cardinality(Missing') <= sink.counted
  BY DEF BatchOK
<1>2. Missing' \subseteq Missing /\ Missing \subseteq Range(sink.batch)
  BY DEF Missing
<1>3. sink \in SinkRec
  BY <1>1 DEF ProcsOK
<1>4. sink.batch \in Seq(Items) /\ sink.counted \in Nat
  BY <1>3 DEF SinkRec
<1>5. IsFiniteSet(Missing)
  BY <1>2, <1>4, RangeFinite
<1>6. Cardinality(Missing') <= Cardinality(Missing) /\ IsFiniteSet(Missing')
  BY <1>2, <1>5, FS_Subset
<1>7. Cardinality(Missing) \in Nat /\ Cardinality(Missing') \in Nat
  BY <1>5, <1>6, FS_CardinalityType
<1>8. Cardinality(Missing) <= sink.counted
  BY <1>1 DEF BatchOK
<1> QED BY <1>4, <1>6, <1>7, <1>8

\* The head of a listing and the rest of it.
LEMMA HeadAndTail ==
  ASSUME NEW T, NEW list \in Seq(T), list # <<>>
  PROVE  /\ Head(list) \in T /\ Tail(list) \in Seq(T)
         /\ Len(list) \in Nat /\ Len(Tail(list)) = Len(list) - 1
         /\ Range(list) = {Head(list)} \cup Range(Tail(list))
<1>0. PICK z \in Nat : z = Len(list) /\ DOMAIN list = 1 .. z
  OBVIOUS
<1>1. z # 0
  BY <1>0
<1>2. PICK tl : tl = Tail(list)
  OBVIOUS
<1>3. tl \in Seq(T) /\ Len(tl) = z - 1 /\ DOMAIN tl = 1 .. z - 1
  BY <1>0, <1>1, <1>2
<1>4. \A k \in 1 .. z - 1 : tl[k] = list[k + 1]
  BY <1>0, <1>1, <1>2
<1>5. Head(list) = list[1] /\ list[1] \in T
  BY <1>0, <1>1
<1>6. Range(list) = {list[k] : k \in 1 .. z} /\ Range(tl) = {tl[k] : k \in 1 .. z - 1}
  BY <1>0, <1>3, Zenon DEF Range
<1>7. \A k \in 1 .. z : k # 1 => k - 1 \in 1 .. z - 1 /\ tl[k - 1] = list[k]
  BY <1>4
<1>8. \A k \in 1 .. z - 1 : k + 1 \in 1 .. z
  BY <1>0
<1>9. Range(list) = {list[1]} \cup Range(tl)
  BY <1>1, <1>4, <1>6, <1>7, <1>8
<1> QED BY <1>0, <1>2, <1>3, <1>5, <1>9

----------------------------------------------------------------------------
LEMMA FillStands ==
  ASSUME FillOK, UNCHANGED <<filler, report>>
  PROVE  FillOK'
BY DEF FillOK, FillerOK, Left, Counted, Charged

LEMMA TreeStands ==
  ASSUME DocsOK, OrphansOK, UNCHANGED <<docs, tree, late, left, forgetter>>
  PROVE  DocsOK' /\ OrphansOK'
<1>1. \A d, e : Stored(d, e)' = Stored(d, e)
  BY DEF Stored
<1> QED BY <1>1 DEF DocsOK, OrphansOK

LEMMA AcceptBeginKeeps ==
  ASSUME CtInv, NEW s \in Connections \cup {Plain}, AcceptBegin(s)
  PROVE  CtInv'
<1>0. UNCHANGED <<docs, tree, forgetter, filler, report, late, left, removals>> /\ s \in Named
  BY DEF AcceptBegin, Named
<1>1. PICK batch \in SeqOf(Items, MaxBatch), rejected \in BOOLEAN :
        sink' = [pc |-> "put", src |-> s, batch |-> batch, todo |-> batch, written |-> <<>>,
                 end |-> IF rejected THEN "rejected" ELSE "ok", counted |-> 0]
  BY DEF AcceptBegin
<1>2. batch \in Seq(Items)
  BY DEF SeqOf
<1>3. sink' \in SinkRec
  BY <1>0, <1>1, <1>2 DEF SinkRec
<1>4. ProcsOK'
  BY <1>0, <1>3 DEF ProcsOK, CtInv
<1>5. sink'.pc = "put" /\ sink'.batch = sink'.todo
  BY <1>1
<1>6. BatchOK'
  BY <1>5 DEF BatchOK
<1> QED BY <1>0, <1>4, <1>6, FillStands, TreeStands DEF CtInv

LEMMA AcceptPutKeeps ==
  ASSUME CtInv, AcceptPut
  PROVE  CtInv'
<1>0. UNCHANGED <<tree, forgetter, filler, report, late, left, removals>> /\ sink.pc = "put"
  BY DEF AcceptPut
<1>1. sink \in SinkRec
  BY <1>0 DEF CtInv, ProcsOK, NoProc
<1>2. sink.src \in Spaces /\ sink.todo \in Seq(Items) /\ sink.written \in Seq(Items)
      /\ sink.batch \in Seq(Items) /\ sink.counted \in Nat
  BY <1>1 DEF SinkRec, Named, Spaces
<1>3. CASE sink.todo = <<>>
  <2>1. sink' = [sink EXCEPT !.pc = "tree"] /\ docs' = docs
    BY <1>3 DEF AcceptPut
  <2>2. sink' \in SinkRec /\ sink'.pc = "tree" /\ sink'.batch = sink.batch
        /\ sink'.written = sink.written /\ sink'.counted = sink.counted /\ sink'.src = sink.src
        /\ sink'.end = sink.end
    BY <1>1, <2>1 DEF SinkRec
  <2>3. ProcsOK'
    BY <1>0, <2>2 DEF CtInv, ProcsOK
  <2>4. BatchOK'
    <3>1. SUFFICES ASSUME sink.end = "ok", sink.src \in Connections, removals = 0
                   PROVE  Cardinality(Missing') <= sink.counted
      BY <1>0, <2>2 DEF BatchOK
    <3>2. sink # NoProc
      BY <1>0 DEF NoProc
    <3>3. Range(sink.todo) = {}
      BY <1>3 DEF Range
    <3>4. Range(sink.batch) \subseteq Range(sink.written)
      BY <1>0, <3>1, <3>2, <3>3 DEF CtInv, BatchOK
    <3>5. Missing' = {}
      BY <2>2, <3>4 DEF Missing
    <3> QED BY <1>2, <3>5, FS_EmptySet
  <2> QED BY <1>0, <2>1, <2>3, <2>4, FillStands, TreeStands DEF CtInv
<1>4. CASE sink.todo # <<>> /\ docs' = [docs EXCEPT ![sink.src] = PutFirst(@, Head(sink.todo))]
           /\ sink' = [sink EXCEPT !.todo = Tail(@), !.written = Append(@, Head(sink.todo))]
  <2>1. PICK i \in Items, tl \in Seq(Items), w \in Seq(Items) :
          /\ i = Head(sink.todo) /\ tl = Tail(sink.todo) /\ w = Append(sink.written, i)
          /\ Range(sink.todo) = {i} \cup Range(tl)
    <3>1. /\ Head(sink.todo) \in Items /\ Tail(sink.todo) \in Seq(Items)
          /\ Range(sink.todo) = {Head(sink.todo)} \cup Range(Tail(sink.todo))
      BY <1>2, <1>4, HeadAndTail
    <3>2. Append(sink.written, Head(sink.todo)) \in Seq(Items)
      BY <1>2, <3>1
    <3> QED BY <3>1, <3>2
  <2>2. Range(w) = Range(sink.written) \cup {i}
    <3>1. PICK v \in Seq(Items) : v = sink.written
      BY <1>2
    <3>2. PICK z \in Nat : z = Len(v) /\ DOMAIN v = 1 .. z
      OBVIOUS
    <3>3. DOMAIN w = 1 .. z + 1 /\ w[z + 1] = i /\ \A k \in 1 .. z : w[k] = v[k]
      BY <2>1, <3>1, <3>2
    <3>4. Range(v) = {v[k] : k \in 1 .. z} /\ Range(w) = {w[k] : k \in 1 .. z + 1}
      BY <3>2, <3>3, Zenon DEF Range
    <3>5. \A k \in 1 .. z + 1 : k = z + 1 \/ k \in 1 .. z
      BY <3>2
    <3>6. z + 1 \in 1 .. z + 1 /\ \A k \in 1 .. z : k \in 1 .. z + 1
      BY <3>2
    <3> QED BY <3>1, <3>3, <3>4, <3>5, <3>6
  <2>3. sink' = [sink EXCEPT !.todo = tl, !.written = w]
    BY <1>4, <2>1
  <2>4. sink' \in SinkRec /\ sink'.pc = sink.pc /\ sink'.batch = sink.batch
        /\ sink'.written = w /\ sink'.todo = tl /\ sink'.src = sink.src
        /\ sink'.end = sink.end
    BY <1>1, <2>3 DEF SinkRec
  <2>5. ProcsOK'
    BY <1>0, <2>4 DEF CtInv, ProcsOK
  <2>6. BatchOK'
    <3>1. SUFFICES ASSUME sink.end = "ok", sink.src \in Connections, removals = 0
                   PROVE  Range(sink.batch) \subseteq Range(w) \cup Range(tl)
      BY <1>0, <2>4 DEF BatchOK
    <3>2. sink # NoProc
      BY <1>0 DEF NoProc
    <3>3. Range(sink.batch) \subseteq Range(sink.written) \cup Range(sink.todo)
      BY <1>0, <3>1, <3>2 DEF CtInv, BatchOK
    <3> QED BY <2>1, <2>2, <3>3
  <2>7. PICK list \in Seq(Items) : list = docs[sink.src] /\ IsInjective(list)
    BY <1>2 DEF CtInv, DocsOK
  <2>8. PICK new \in Seq(Items) : new = PutFirst(list, i) /\ IsInjective(new)
                                  /\ Range(new) = Range(list) \cup {i}
    BY <2>7, PutFirstOK
  <2>9. docs' = [docs EXCEPT ![sink.src] = new]
    BY <1>4, <2>1, <2>7, <2>8
  <2>10. DocsOK'
    BY <1>0, <1>2, <2>8, <2>9 DEF CtInv, DocsOK
  <2>11. \A ns \in Spaces : Range(docs[ns]) \subseteq Range(docs'[ns])
    BY <1>2, <2>7, <2>8, <2>9 DEF CtInv, DocsOK
  <2>12. \A c \in Connections, e \in Items : Stored(c, e) => Stored(c, e)'
    BY <2>11 DEF Stored, Spaces
  <2>13. OrphansOK'
    <3>1. \A t \in tree : t[1] \in Connections /\ t[2] \in Items
      BY DEF CtInv, DocsOK
    <3> QED BY <1>0, <2>12, <3>1 DEF CtInv, OrphansOK
  <2> QED BY <1>0, <2>5, <2>6, <2>10, <2>13, FillStands DEF CtInv
<1>5. CASE docs' = docs
           /\ sink' = [sink EXCEPT !.pc = "tree", !.todo = <<>>, !.end = "write_failed"]
  <2>0. PICK e \in Seq(Items) : e = <<>>
    <3>1. <<>> \in Seq(Items)
      OBVIOUS
    <3> QED BY <3>1, Zenon
  <2>1. sink' \in SinkRec /\ sink'.end = "write_failed"
    <3>1. sink' = [sink EXCEPT !.pc = "tree", !.todo = e, !.end = "write_failed"]
      BY <1>5, <2>0
    <3> QED BY <1>1, <3>1 DEF SinkRec
  <2>2. ProcsOK' /\ BatchOK'
    BY <1>0, <2>1 DEF CtInv, ProcsOK, BatchOK
  <2> QED BY <1>0, <1>5, <2>2, FillStands, TreeStands DEF CtInv
<1> QED BY <1>3, <1>4, <1>5 DEF AcceptPut

LEMMA AcceptTreeKeeps ==
  ASSUME CtInv, AcceptTree
  PROVE  CtInv'
<1>0. UNCHANGED <<docs, forgetter, filler, report, left, removals>> /\ sink.pc = "tree"
      /\ sink.written # <<>>
  BY DEF AcceptTree
<1>1. sink \in SinkRec /\ sink # NoProc
  BY <1>0 DEF CtInv, ProcsOK, NoProc
<1>2. sink.written \in Seq(Items) /\ sink.batch \in Seq(Items) /\ sink.counted \in Nat
  BY <1>1 DEF SinkRec
<1>3. PICK i \in Items, tl \in Seq(Items) :
        /\ i = Head(sink.written) /\ tl = Tail(sink.written)
        /\ Range(sink.written) = {i} \cup Range(tl)
  <2>1. /\ Head(sink.written) \in Items /\ Tail(sink.written) \in Seq(Items)
        /\ Range(sink.written) = {Head(sink.written)} \cup Range(Tail(sink.written))
    BY <1>0, <1>2, HeadAndTail
  <2> QED BY <2>1
<1>4. PICK rest \in SinkRec :
        /\ rest = [sink EXCEPT !.written = Tail(@)] /\ rest.pc = "tree" /\ rest.end = sink.end
        /\ rest.src = sink.src /\ rest.batch = sink.batch /\ rest.written = tl
        /\ rest.counted = sink.counted
  <2>1. [sink EXCEPT !.written = Tail(@)] = [sink EXCEPT !.written = tl]
    BY <1>3
  <2>2. [sink EXCEPT !.written = tl] \in SinkRec
    BY <1>1 DEF SinkRec
  <2> QED BY <1>0, <1>1, <2>1, <2>2 DEF SinkRec
<1>5. IsFiniteSet(Missing) /\ Cardinality(Missing) \in Nat
  <2>1. Missing \subseteq Range(sink.batch)
    BY DEF Missing
  <2> QED BY <1>2, <2>1, RangeFinite, FS_CardinalityType
<1>6. CASE ~TreeScope(sink.src) /\ sink' = rest /\ UNCHANGED <<tree, late>>
  <2>1. sink'.src \notin Connections /\ sink' \in SinkRec
    BY <1>4, <1>6 DEF TreeScope
  <2>2. ProcsOK' /\ BatchOK'
    BY <1>0, <2>1 DEF CtInv, ProcsOK, BatchOK
  <2> QED BY <1>0, <1>6, <2>2, FillStands, TreeStands DEF CtInv
<1>7. CASE TreeScope(sink.src) /\ IngestIntoTree(sink.src, i) /\ sink' = rest
  <2>1. DocsOK' /\ OrphansOK' /\ tree' = tree \cup {<<sink.src, i>>}
    BY <1>0, <1>7, IngestKeeps DEF CtInv, TreeScope
  <2>2. ProcsOK'
    BY <1>0, <1>4, <1>7 DEF CtInv, ProcsOK
  <2>3. Missing' \subseteq Missing
    BY <1>3, <1>4, <1>7, <2>1 DEF Missing
  <2>4. Cardinality(Missing') <= Cardinality(Missing) /\ Cardinality(Missing') \in Nat
    BY <1>5, <2>3, FS_Subset, FS_CardinalityType
  <2>5. BatchOK'
    BY <1>0, <1>1, <1>2, <1>4, <1>5, <1>7, <2>4 DEF CtInv, BatchOK
  <2> QED BY <1>0, <2>1, <2>2, <2>5, FillStands DEF CtInv
<1>8. CASE TreeScope(sink.src) /\ sink' = [rest EXCEPT !.counted = @ + 1] /\ UNCHANGED <<tree, late>>
  <2>0. PICK n \in Nat : n = sink.counted + 1
    BY <1>2
  <2>1. sink' \in SinkRec /\ sink'.pc = "tree" /\ sink'.end = sink.end /\ sink'.src = sink.src
        /\ sink'.batch = sink.batch /\ sink'.written = tl /\ sink'.counted = sink.counted + 1
    <3>1. sink' = [rest EXCEPT !.counted = n]
      BY <1>4, <1>8, <2>0
    <3> QED BY <1>4, <2>0, <3>1 DEF SinkRec
  <2>2. ProcsOK'
    BY <1>0, <2>1 DEF CtInv, ProcsOK
  <2>3. Missing' \subseteq Missing \cup {i}
    BY <1>3, <1>8, <2>1 DEF Missing
  <2>4. IsFiniteSet(Missing \cup {i}) /\ Cardinality(Missing \cup {i}) <= Cardinality(Missing) + 1
        /\ Cardinality(Missing \cup {i}) \in Nat
    <3>1. PICK M : M = Missing
      OBVIOUS
    <3>2. IsFiniteSet(M) /\ Cardinality(M) \in Nat
      BY <1>5, <3>1
    <3>3. /\ IsFiniteSet(M \cup {i})
          /\ Cardinality(M \cup {i}) = IF i \in M THEN Cardinality(M) ELSE Cardinality(M) + 1
      BY <3>2, FS_AddElement
    <3> QED BY <3>1, <3>2, <3>3
  <2>5. Cardinality(Missing') <= Cardinality(Missing \cup {i}) /\ Cardinality(Missing') \in Nat
    <3>1. PICK M : M = Missing \cup {i}
      OBVIOUS
    <3>2. IsFiniteSet(M) /\ Missing' \in SUBSET M
      BY <2>3, <2>4, <3>1
    <3> QED BY <3>1, <3>2, FS_Subset, FS_CardinalityType
  <2>6. BatchOK'
    BY <1>0, <1>1, <1>2, <1>5, <2>1, <2>4, <2>5 DEF CtInv, BatchOK
  <2> QED BY <1>0, <1>8, <2>2, <2>6, FillStands, TreeStands DEF CtInv
<1>9. CASE sink' = [rest EXCEPT !.written = <<>>, !.end = "corrupt"] /\ UNCHANGED <<tree, late>>
  <2>0. PICK e \in Seq(Items) : e = <<>>
    <3>1. <<>> \in Seq(Items)
      OBVIOUS
    <3> QED BY <3>1, Zenon
  <2>1. sink' \in SinkRec /\ sink'.end = "corrupt"
    <3>1. sink' = [rest EXCEPT !.written = e, !.end = "corrupt"]
      BY <1>9, <2>0
    <3> QED BY <1>4, <3>1 DEF SinkRec
  <2>2. ProcsOK' /\ BatchOK'
    BY <1>0, <2>1 DEF CtInv, ProcsOK, BatchOK
  <2> QED BY <1>0, <1>9, <2>2, FillStands, TreeStands DEF CtInv
<1> QED BY <1>3, <1>4, <1>6, <1>7, <1>8, <1>9 DEF AcceptTree

LEMMA AcceptEndKeeps ==
  ASSUME CtInv, AcceptEnd
  PROVE  CtInv'
<1>0. UNCHANGED <<docs, tree, forgetter, filler, report, late, left, removals>> /\ sink' = NoProc
  BY DEF AcceptEnd
<1>1. ProcsOK' /\ BatchOK'
  BY <1>0 DEF CtInv, ProcsOK, BatchOK
<1> QED BY <1>0, <1>1, FillStands, TreeStands DEF CtInv

----------------------------------------------------------------------------
LEMMA ForgetListKeeps ==
  ASSUME CtInv, NEW s \in Connections \cup {Plain}, ForgetList(s)
  PROVE  CtInv'
<1>0. UNCHANGED <<docs, tree, sink, filler, report, late, left>> /\ removals' = removals + 1
      /\ forgetter = NoProc /\ s \in Named
      /\ forgetter' = [pc |-> IF docs[s] = <<>> THEN "chunks" ELSE "clear", src |-> s]
  BY DEF ForgetList, Named
<1>1. forgetter' \in ForgetRec /\ forgetter'.pc # "orphans"
  BY <1>0 DEF ForgetRec
<1>2. removals \in Nat /\ removals' \in Nat /\ removals' # 0
  BY <1>0 DEF CtInv, ProcsOK
<1>3. ProcsOK' /\ BatchOK' /\ DocsOK'
  BY <1>0, <1>1, <1>2 DEF CtInv, ProcsOK, BatchOK, DocsOK
<1>4. \A t \in tree : Stored(t[1], t[2])' = Stored(t[1], t[2])
  BY <1>0 DEF Stored
<1>5. forgetter.pc # "chunks"
  BY <1>0 DEF NoProc
<1>6. OrphansOK'
  BY <1>0, <1>1, <1>4, <1>5 DEF CtInv, OrphansOK
<1> QED BY <1>0, <1>3, <1>6, FillStands DEF CtInv

\* The documents of a source are cleared: what is in the tree is stored as before, late,
\* left, or of that source.
LEMMA ClearingKeeps ==
  ASSUME CtInv, forgetter.pc = "clear", docs' = Cleared(forgetter.src), UNCHANGED <<tree, late>>
  PROVE  /\ docs' \in [Spaces -> Seq(Items)] /\ \A ns \in Spaces : IsInjective(docs'[ns])
         /\ \A t \in tree : Stored(t[1], t[2])' \/ t \in late \/ t \in left \/ t[1] = forgetter.src
<1>1. forgetter \in ForgetRec /\ docs' = [docs EXCEPT ![forgetter.src] = <<>>]
  BY DEF CtInv, ProcsOK, NoProc, Cleared
<1>2. forgetter.src \in Spaces /\ forgetter.src # Legacy
  BY <1>1, ConnectorAssumption DEF ForgetRec, Named, Spaces
<1>3. <<>> \in Seq(Items) /\ IsInjective(<<>>)
  BY DEF IsInjective
<1>4. docs' \in [Spaces -> Seq(Items)] /\ \A ns \in Spaces : IsInjective(docs'[ns])
  BY <1>1, <1>2, <1>3 DEF CtInv, DocsOK
<1>5. ASSUME NEW t \in tree
      PROVE  Stored(t[1], t[2])' \/ t \in late \/ t \in left \/ t[1] = forgetter.src
  <2>1. t[1] \in Connections /\ Legacy \in Spaces /\ t[1] \in Spaces
    BY DEF CtInv, DocsOK, Spaces
  <2>2. t[1] # forgetter.src => docs'[t[1]] = docs[t[1]]
    BY <1>1, <2>1 DEF CtInv, DocsOK
  <2>3. docs'[Legacy] = docs[Legacy]
    BY <1>1, <1>2, <2>1 DEF CtInv, DocsOK
  <2>4. Stored(t[1], t[2]) \/ t \in late \/ t \in left
    BY DEF CtInv, OrphansOK
  <2> QED BY <2>2, <2>3, <2>4 DEF Stored
<1> QED BY <1>4, <1>5

LEMMA ForgetClearKeeps ==
  ASSUME CtInv, ForgetClear
  PROVE  CtInv'
<1>0. UNCHANGED <<tree, sink, filler, report, late, left, removals>> /\ forgetter.pc = "clear"
      /\ forgetter' = [forgetter EXCEPT !.pc = "chunks"] /\ docs' = Cleared(forgetter.src)
  BY DEF ForgetClear
<1>1. forgetter \in ForgetRec
  BY <1>0 DEF CtInv, ProcsOK, NoProc
<1>2. forgetter' \in ForgetRec /\ forgetter'.pc = "chunks" /\ forgetter'.src = forgetter.src
      /\ forgetter # NoProc
  BY <1>0, <1>1 DEF ForgetRec, NoProc
<1>4. removals # 0 /\ removals \in Nat
  BY <1>2 DEF CtInv, ProcsOK
<1>5. ProcsOK' /\ BatchOK'
  BY <1>0, <1>2, <1>4 DEF CtInv, ProcsOK, BatchOK
<1>7. DocsOK'
  BY <1>0, ClearingKeeps DEF CtInv, DocsOK
<1>9. OrphansOK'
  BY <1>0, <1>2, ClearingKeeps DEF OrphansOK
<1> QED BY <1>0, <1>5, <1>7, <1>9, FillStands DEF CtInv

LEMMA ForgetChunksKeeps ==
  ASSUME CtInv, ForgetChunks
  PROVE  CtInv'
<1>0. UNCHANGED <<docs, sink, filler, report, removals>> /\ forgetter.pc = "chunks"
      /\ forgetter' = [forgetter EXCEPT !.pc = "orphans"]
      /\ tree' = {t \in tree : t[1] # forgetter.src}
      /\ late' = late \cap tree' /\ left' = left \cap tree'
  BY DEF ForgetChunks, WithoutSource
<1>1. forgetter # NoProc /\ forgetter \in ForgetRec
  BY <1>0 DEF NoProc, CtInv, ProcsOK
<1>2. removals # 0 /\ removals \in Nat
  BY <1>1 DEF CtInv, ProcsOK
<1>3. forgetter' \in ForgetRec /\ forgetter'.pc = "orphans" /\ forgetter'.src = forgetter.src
  BY <1>0, <1>1 DEF ForgetRec
<1>4. ProcsOK' /\ BatchOK'
  BY <1>0, <1>2, <1>3 DEF CtInv, ProcsOK, BatchOK
<1>5. DocsOK'
  BY <1>0 DEF CtInv, DocsOK
<1>6. \A t \in tree : Stored(t[1], t[2])' = Stored(t[1], t[2])
  BY <1>0 DEF Stored
<1>7. OrphansOK'
  BY <1>0, <1>3, <1>6 DEF CtInv, OrphansOK
<1> QED BY <1>0, <1>4, <1>5, <1>7, FillStands DEF CtInv

LEMMA ForgetOrphansKeeps ==
  ASSUME CtInv, ForgetOrphans
  PROVE  CtInv'
<1>0. UNCHANGED <<docs, tree, sink, filler, report, late, left, removals>>
      /\ forgetter.pc = "orphans" /\ forgetter' = NoProc
  BY DEF ForgetOrphans
<1>5. BatchOK'
  BY <1>0, BatchStands DEF CtInv
<1>1. ProcsOK' /\ BatchOK' /\ DocsOK'
  BY <1>0, <1>5 DEF CtInv, ProcsOK, DocsOK
<1>2. \A t \in tree : Stored(t[1], t[2])' = Stored(t[1], t[2])
  BY <1>0 DEF Stored
<1>3. forgetter'.pc # "orphans"
  BY <1>0 DEF NoProc
<1>4. OrphansOK'
  BY <1>0, <1>2, <1>3 DEF CtInv, OrphansOK
<1> QED BY <1>0, <1>1, <1>4, FillStands DEF CtInv

\* A removal is cut short before its chunks, or after its documents: what it left is
\* remembered.
LEMMA CutKeeps ==
  ASSUME CtInv, forgetter' = NoProc, UNCHANGED <<docs, tree, late>>,
         left' = IF forgetter.pc = "chunks" THEN left \cup ChunksOf(forgetter.src) ELSE left
  PROVE  DocsOK' /\ OrphansOK'
<1>1. DocsOK'
  BY DEF CtInv, DocsOK, ChunksOf
<1>2. \A t \in tree : Stored(t[1], t[2])' = Stored(t[1], t[2])
  BY DEF Stored
<1>3. forgetter'.pc # "orphans"
  BY DEF NoProc
<1>4. OrphansOK'
  BY <1>2, <1>3 DEF CtInv, OrphansOK, ChunksOf
<1> QED BY <1>1, <1>4

LEMMA ForgetFailsKeeps ==
  ASSUME CtInv, ForgetFails
  PROVE  CtInv'
<1>0. UNCHANGED <<tree, sink, filler, report, late, removals>> /\ forgetter # NoProc
      /\ forgetter' = NoProc
  BY DEF ForgetFails
<1>1. removals # 0 /\ removals \in Nat
  BY <1>0 DEF CtInv, ProcsOK
<1>2. ProcsOK' /\ BatchOK'
  BY <1>0, <1>1 DEF CtInv, ProcsOK, BatchOK
<1>3. CASE docs' = docs /\ left' = IF forgetter.pc = "chunks" THEN left \cup ChunksOf(forgetter.src)
                                                              ELSE left
  BY <1>0, <1>2, <1>3, CutKeeps, FillStands DEF CtInv
<1>4. CASE /\ forgetter.pc = "clear" /\ docs' = Cleared(forgetter.src)
           /\ left' = left \cup ChunksOf(forgetter.src)
  <2>1. DocsOK'
    BY <1>0, <1>4, ClearingKeeps DEF CtInv, DocsOK, ChunksOf
  <2>2. forgetter'.pc # "orphans"
    BY <1>0 DEF NoProc
  <2>3. OrphansOK'
    BY <1>0, <1>4, <2>2, ClearingKeeps DEF OrphansOK, ChunksOf
  <2> QED BY <1>0, <1>2, <2>1, <2>3, FillStands DEF CtInv
<1> QED BY <1>3, <1>4 DEF ForgetFails

LEMMA ForgetMatchingKeeps ==
  ASSUME CtInv, NEW c \in Connections, ForgetMatching(c)
  PROVE  CtInv'
<1>0. UNCHANGED <<docs, sink, forgetter, filler, report>> /\ removals' = removals + 1
      /\ tree' \subseteq tree /\ late' = late \cap tree' /\ left' = left \cap tree'
  BY DEF ForgetMatching, WithoutSource
<1>1. removals \in Nat /\ removals' \in Nat /\ removals' # 0
  BY <1>0 DEF CtInv, ProcsOK
<1>2. ProcsOK' /\ BatchOK'
  BY <1>0, <1>1 DEF CtInv, ProcsOK, BatchOK
<1>3. DocsOK'
  BY <1>0 DEF CtInv, DocsOK
<1>4. \A t \in tree : Stored(t[1], t[2])' = Stored(t[1], t[2])
  BY <1>0 DEF Stored
<1>5. OrphansOK'
  BY <1>0, <1>4 DEF CtInv, OrphansOK
<1> QED BY <1>0, <1>2, <1>3, <1>5, FillStands DEF CtInv

----------------------------------------------------------------------------
\* Only a dry pass is done with a document it charges, and charges below the limit.
CountsUnder(field) == field = "scanned" => report.dry /\ report.scanned < Limit

\* The sum of a report's counters.
LEMMA CountedIs ==
  ASSUME NEW a \in Nat, NEW b \in Nat, NEW c \in Nat, NEW d \in Nat,
         report.already = a, report.ingested = b, report.skipped = c, Charged = d
  PROVE  Counted = a + b + c + d /\ Counted \in Nat
BY DEF Counted

LEMMA CountedNext ==
  ASSUME NEW a \in Nat, NEW b \in Nat, NEW c \in Nat, NEW d \in Nat,
         report'.already = a, report'.ingested = b, report'.skipped = c, Charged' = d
  PROVE  Counted' = a + b + c + d
BY DEF Counted

\* A document that is done with moves from what is left to what is counted.
LEMMA FillNextKeeps ==
  ASSUME FillOK, filler.pc \in {"probe", "read", "ingest"}, filler.todo # <<>>,
         NEW field \in {"already", "ingested", "skipped", "scanned"},
         CountsUnder(field), FillNext(field)
  PROVE  FillOK'
<1>1. filler \in FillRec /\ report \in Report /\ ~report.done
  BY DEF FillOK, FillerOK, NoProc
<1>2. filler.todo \in Seq(Items)
  BY <1>1 DEF FillRec
<1>3. Tail(filler.todo) \in Seq(Items) /\ Len(filler.todo) \in Nat
      /\ Len(Tail(filler.todo)) = Len(filler.todo) - 1
  BY <1>2, HeadAndTail
<1>4. PICK tl \in Seq(Items), z \in Nat : tl = Tail(filler.todo) /\ z = Len(filler.todo)
  BY <1>3
<1>5. filler' = [filler EXCEPT !.pc = "probe", !.todo = tl]
  BY <1>4 DEF FillNext
<1>6. filler' \in FillRec /\ filler'.pc = "probe" /\ filler'.todo = tl
  BY <1>1, <1>5 DEF FillRec
<1>7. Left = z /\ Left' = z - 1
  BY <1>3, <1>4, <1>6 DEF Left
<1>8. report' = [report EXCEPT ![field] = @ + 1]
  BY DEF FillNext
<1>9. /\ report' \in Report /\ report'.scanned <= Limit /\ ~report'.done
      /\ report'.listed = report.listed /\ report'.more_pending = report.more_pending
      /\ Counted' = Counted + 1 /\ Counted \in Nat
  <2>1. /\ report.already \in Nat /\ report.ingested \in Nat /\ report.skipped \in Nat
        /\ report.scanned \in Nat /\ report.scanned <= Limit /\ Limit \in Nat
    BY <1>1, ConnectorAssumption DEF Report, FillOK
  <2>a. PICK a \in Nat, b \in Nat, c \in Nat :
          a = report.already /\ b = report.ingested /\ c = report.skipped
    BY <2>1
  <2>2. CASE field = "already"
    <3>1. PICK n \in Nat : n = report.already + 1
      BY <2>1
    <3>2. report' = [report EXCEPT !.already = n]
      BY <1>8, <2>2, <3>1
    <3>3. report' \in Report
      BY <1>1, <3>2 DEF Report
    <3>4. /\ report'.listed = report.listed /\ report'.scanned = report.scanned /\ report'.ingested = report.ingested
          /\ report'.already = n /\ report'.skipped = report.skipped
      BY <1>1, <3>2 DEF Report
    <3>5. report'.dry = report.dry /\ report'.done = report.done
          /\ report'.more_pending = report.more_pending
      BY <1>1, <3>2 DEF Report
    <3>6. (report'.dry <=> report.dry) /\ (report'.done <=> report.done)
      BY <3>5, Zenon
    <3>7. Charged' = Charged /\ Charged \in Nat
      BY <2>1, <3>4, <3>6 DEF Charged
    <3>8. Counted' = Counted + 1 /\ Counted \in Nat
      <4>1. PICK d \in Nat : d = Charged /\ d = Charged'
        BY <3>7
      <4>2. Counted = a + b + c + d /\ Counted \in Nat
        BY <2>a, <4>1, CountedIs
      <4>3. report'.already = n /\ report'.ingested = b /\ report'.skipped = c
        BY <2>a, <3>4
      <4>4. Counted' = n + b + c + d
        BY <4>1, <4>3, CountedNext
      <4>5. n = a + 1
        BY <2>a, <3>1
      <4> QED BY <4>2, <4>4, <4>5
    <3> QED BY <1>1, <2>1, <3>3, <3>4, <3>5, <3>6, <3>8
  <2>3. CASE field = "ingested"
    <3>1. PICK n \in Nat : n = report.ingested + 1
      BY <2>1
    <3>2. report' = [report EXCEPT !.ingested = n]
      BY <1>8, <2>3, <3>1
    <3>3. report' \in Report
      BY <1>1, <3>2 DEF Report
    <3>4. /\ report'.listed = report.listed /\ report'.scanned = report.scanned /\ report'.ingested = n
          /\ report'.already = report.already /\ report'.skipped = report.skipped
      BY <1>1, <3>2 DEF Report
    <3>5. report'.dry = report.dry /\ report'.done = report.done
          /\ report'.more_pending = report.more_pending
      BY <1>1, <3>2 DEF Report
    <3>6. (report'.dry <=> report.dry) /\ (report'.done <=> report.done)
      BY <3>5, Zenon
    <3>7. Charged' = Charged /\ Charged \in Nat
      BY <2>1, <3>4, <3>6 DEF Charged
    <3>8. Counted' = Counted + 1 /\ Counted \in Nat
      <4>1. PICK d \in Nat : d = Charged /\ d = Charged'
        BY <3>7
      <4>2. Counted = a + b + c + d /\ Counted \in Nat
        <5>1. Charged = d
          BY <4>1
        <5> QED BY <2>a, <5>1, CountedIs
      <4>3. report'.already = a /\ report'.ingested = n /\ report'.skipped = c
        BY <2>a, <3>4
      <4>4. Counted' = a + n + c + d
        BY <4>1, <4>3, CountedNext
      <4>5. n = b + 1
        BY <2>a, <3>1
      <4> QED BY <4>2, <4>4, <4>5
    <3> QED BY <1>1, <2>1, <3>3, <3>4, <3>5, <3>6, <3>8
  <2>4. CASE field = "skipped"
    <3>1. PICK n \in Nat : n = report.skipped + 1
      BY <2>1
    <3>2. report' = [report EXCEPT !.skipped = n]
      BY <1>8, <2>4, <3>1
    <3>3. report' \in Report
      BY <1>1, <3>2 DEF Report
    <3>4. /\ report'.listed = report.listed /\ report'.scanned = report.scanned /\ report'.ingested = report.ingested
          /\ report'.already = report.already /\ report'.skipped = n
      BY <1>1, <3>2 DEF Report
    <3>5. report'.dry = report.dry /\ report'.done = report.done
          /\ report'.more_pending = report.more_pending
      BY <1>1, <3>2 DEF Report
    <3>6. (report'.dry <=> report.dry) /\ (report'.done <=> report.done)
      BY <3>5, Zenon
    <3>7. Charged' = Charged /\ Charged \in Nat
      BY <2>1, <3>4, <3>6 DEF Charged
    <3>8. Counted' = Counted + 1 /\ Counted \in Nat
      <4>1. PICK d \in Nat : d = Charged /\ d = Charged'
        BY <3>7
      <4>2. Counted = a + b + c + d /\ Counted \in Nat
        <5>1. Charged = d
          BY <4>1
        <5> QED BY <2>a, <5>1, CountedIs
      <4>3. report'.already = a /\ report'.ingested = b /\ report'.skipped = n
        BY <2>a, <3>4
      <4>4. Counted' = a + b + n + d
        BY <4>1, <4>3, CountedNext
      <4>5. n = c + 1
        BY <2>a, <3>1
      <4> QED BY <4>2, <4>4, <4>5
    <3> QED BY <1>1, <2>1, <3>3, <3>4, <3>5, <3>6, <3>8
  <2>5. CASE field = "scanned"
    <3>1. PICK n \in Nat : n = report.scanned + 1
      BY <2>1
    <3>2. report' = [report EXCEPT !.scanned = n]
      BY <1>8, <2>5, <3>1
    <3>3. report' \in Report
      BY <1>1, <3>2 DEF Report
    <3>4. /\ report'.listed = report.listed /\ report'.scanned = n /\ report'.ingested = report.ingested
          /\ report'.already = report.already /\ report'.skipped = report.skipped
      BY <1>1, <3>2 DEF Report
    <3>5. report'.dry = report.dry /\ report'.done = report.done
          /\ report'.more_pending = report.more_pending
      BY <1>1, <3>2 DEF Report
    <3>6. (report'.dry <=> report.dry) /\ (report'.done <=> report.done)
      BY <3>5, Zenon
    <3>7. report.dry /\ n <= Limit
      BY <2>1, <2>5, <3>1 DEF CountsUnder
    <3>8. Charged' = n /\ Charged = report.scanned
      BY <3>4, <3>6, <3>7 DEF Charged
    <3>9. Counted' = Counted + 1 /\ Counted \in Nat
      <4>1. PICK d \in Nat : d = Charged /\ d = report.scanned
        BY <2>1, <3>8
      <4>2. Counted = a + b + c + d /\ Counted \in Nat
        <5>1. Charged = d
          BY <4>1
        <5> QED BY <2>a, <5>1, CountedIs
      <4>3. report'.already = a /\ report'.ingested = b /\ report'.skipped = c
        BY <2>a, <3>4
      <4>4. Counted' = a + b + c + n
        BY <3>8, <4>3, CountedNext
      <4>5. n = d + 1
        BY <3>1, <4>1
      <4> QED BY <4>2, <4>4, <4>5
    <3> QED BY <1>1, <3>3, <3>4, <3>5, <3>6, <3>7, <3>9
  <2> QED BY <2>2, <2>3, <2>4, <2>5
<1>10. ~report'.more_pending => report'.listed = Counted' + Left'
  <2>1. SUFFICES ASSUME ~report.more_pending PROVE report'.listed = Counted' + Left'
    BY <1>9
  <2>2. report.listed = Counted + z
    BY <1>7, <2>1 DEF FillOK
  <2> QED BY <1>7, <1>9, <2>2
<1> QED BY <1>6, <1>9, <1>10 DEF FillOK, FillerOK

LEMMA FillAbortsKeeps ==
  ASSUME FillAborts
  PROVE  FillOK'
<1>1. report' \in Report /\ report'.scanned = 0 /\ ~report'.done /\ report' = NoReport
      /\ filler' = NoProc
  BY DEF FillAborts, NoReport, Report
<1>2. Counted' = 0 /\ Left' = 0 /\ report'.listed = 0
  BY <1>1 DEF Counted, Charged, Left, NoReport, NoProc
<1>3. 0 <= Limit
  BY ConnectorAssumption
<1> QED BY <1>1, <1>2, <1>3 DEF FillOK, FillerOK

LEMMA DiesKeeps ==
  ASSUME CtInv, Dies
  PROVE  CtInv'
<1>0. UNCHANGED <<docs, tree, late, removals>> /\ sink' = NoProc /\ forgetter' = NoProc /\ FillAborts
  BY DEF Dies
<1>1. ProcsOK' /\ BatchOK'
  BY <1>0 DEF CtInv, ProcsOK, BatchOK
<1>2. forgetter.pc = "chunks" => forgetter # NoProc
  BY DEF NoProc
<1>3. left' = IF forgetter.pc = "chunks" THEN left \cup ChunksOf(forgetter.src) ELSE left
  BY <1>2 DEF Dies
<1> QED BY <1>0, <1>1, <1>3, CutKeeps, FillAbortsKeeps DEF CtInv

LEMMA FillBeginKeeps ==
  ASSUME CtInv, NEW dry \in BOOLEAN, FillBegin(dry)
  PROVE  CtInv'
<1>0. UNCHANGED <<docs, tree, sink, forgetter, late, left, removals>>
      /\ report' = [NoReport EXCEPT !.dry = dry]
      /\ filler' = [pc |-> "list", targets |-> ResolveTargets]
  BY DEF FillBegin
<1>1. report' \in Report /\ report'.scanned = 0 /\ ~report'.done /\ report'.listed = 0
      /\ report'.already = 0 /\ report'.ingested = 0 /\ report'.skipped = 0
  BY <1>0 DEF NoReport, Report
<1>2. filler' \in [pc : {"list"}, targets : Seq(Target)] /\ filler'.pc = "list"
  BY <1>0, TargetsTyped
<1>3. Counted' = 0 /\ Left' = 0 /\ 0 <= Limit
  BY <1>1, <1>2, ConnectorAssumption DEF Counted, Charged, Left
<1>4. FillOK'
  BY <1>1, <1>2, <1>3 DEF FillOK, FillerOK
<1>5. ProcsOK'
  BY <1>0 DEF CtInv, ProcsOK
<1> QED BY <1>0, <1>4, <1>5, TreeStands, BatchStands DEF CtInv

LEMMA FillListKeeps ==
  ASSUME CtInv, FillList
  PROVE  CtInv'
<1>0. UNCHANGED <<docs, tree, sink, forgetter, late, left, removals>> /\ filler.pc = "list"
      /\ filler.targets # <<>>
  BY DEF FillList
<1>1. filler \in [pc : {"list"}, targets : Seq(Target)] /\ report \in Report /\ ~report.done
  BY <1>0 DEF CtInv, FillOK, FillerOK, NoProc, FillRec
<1>2. Head(filler.targets) \in Target /\ Tail(filler.targets) \in Seq(Target)
  BY <1>0, <1>1, HeadAndTail
<1>3. PICK t \in Target, rest \in Seq(Target) : t = Head(filler.targets) /\ rest = Tail(filler.targets)
  BY <1>2
<1>4. t.as \in Connections /\ t.ns \in Spaces
  BY DEF Target
<1>5. PICK list \in Seq(Items), z \in Nat : list = docs[t.ns] /\ z = Len(list)
  BY <1>4 DEF CtInv, DocsOK
<1>6. Left = 0
  BY <1>0 DEF Left
<1>7. CASE /\ filler' = [pc |-> "probe", targets |-> rest, as |-> t.as, ns |-> t.ns, todo |-> list]
           /\ report' = [report EXCEPT !.listed = @ + z]
  <2>1. PICK n \in Nat : n = report.listed + z
    BY <1>1 DEF Report
  <2>2. report' = [report EXCEPT !.listed = n]
    BY <1>7, <2>1
  <2>3. /\ report' \in Report /\ report'.scanned = report.scanned /\ ~report'.done
        /\ report'.listed = report.listed + z /\ report'.more_pending = report.more_pending
        /\ Counted' = Counted /\ Counted \in Nat /\ report.listed \in Nat
    <3>1. report' \in Report
      BY <1>1, <2>2 DEF Report
    <3>2. /\ report'.done = report.done /\ report'.dry = report.dry /\ report'.listed = n
          /\ report'.scanned = report.scanned /\ report'.ingested = report.ingested
          /\ report'.already = report.already /\ report'.skipped = report.skipped
          /\ report'.more_pending = report.more_pending
      BY <1>1, <2>2 DEF Report
    <3>3. /\ report.already \in Nat /\ report.ingested \in Nat /\ report.skipped \in Nat
          /\ report.scanned \in Nat /\ report.listed \in Nat
      BY <1>1 DEF Report
    <3>4. (report'.dry <=> report.dry) /\ (report'.done <=> report.done)
      BY <3>2, Zenon
    <3>5. Charged' = Charged /\ Charged \in Nat
      BY <3>2, <3>3, <3>4 DEF Charged
    <3>6. Counted' = Counted /\ Counted \in Nat
      <4>1. PICK a \in Nat, b \in Nat, c \in Nat, d \in Nat :
              report.already = a /\ report.ingested = b /\ report.skipped = c /\ Charged = d
        BY <3>3, <3>5
      <4>2. Counted = a + b + c + d /\ Counted \in Nat
        BY <4>1 DEF Counted
      <4>3. Counted' = a + b + c + d
        BY <3>2, <3>5, <4>1, CountedNext
      <4> QED BY <4>2, <4>3
    <3> QED BY <1>1, <2>1, <3>1, <3>2, <3>3, <3>4, <3>6
  <2>4. filler' \in FillRec /\ filler'.pc = "probe" /\ filler'.todo = list
    BY <1>4, <1>7 DEF FillRec
  <2>5. Left' = z
    BY <1>5, <2>4 DEF Left
  <2>6. FillOK'
    BY <1>6, <2>3, <2>4, <2>5 DEF CtInv, FillOK, FillerOK
  <2>7. ProcsOK'
    BY <1>0 DEF CtInv, ProcsOK
  <2> QED BY <1>0, <2>6, <2>7, TreeStands, BatchStands DEF CtInv
<1>8. CASE filler' = [filler EXCEPT !.targets = rest] /\ report' = report
  <2>1. filler' \in [pc : {"list"}, targets : Seq(Target)] /\ filler'.pc = "list"
    BY <1>1, <1>8
  <2>2. Left' = 0 /\ Counted' = Counted
    BY <1>8, <2>1 DEF Left, Counted, Charged
  <2>3. FillOK'
    BY <1>1, <1>6, <1>8, <2>1, <2>2 DEF CtInv, FillOK, FillerOK
  <2>4. ProcsOK'
    BY <1>0 DEF CtInv, ProcsOK
  <2> QED BY <1>0, <2>3, <2>4, TreeStands, BatchStands DEF CtInv
<1> QED BY <1>3, <1>5, <1>7, <1>8 DEF FillList

LEMMA OnlyFill ==
  ASSUME CtInv, UNCHANGED <<docs, tree, sink, forgetter, late, left, removals>>, FillOK'
  PROVE  CtInv'
<1>1. ProcsOK'
  BY DEF CtInv, ProcsOK
<1> QED BY <1>1, TreeStands, BatchStands DEF CtInv

LEMMA FillProbeKeeps ==
  ASSUME CtInv, FillProbe
  PROVE  CtInv'
<1>0. UNCHANGED <<docs, tree, sink, forgetter, late, left, removals>> /\ filler.pc = "probe"
      /\ filler.todo # <<>> /\ FillOK
  BY DEF FillProbe, CtInv
<1>1. filler \in FillRec /\ report \in Report /\ ~report.done /\ report.scanned <= Limit
  BY <1>0 DEF FillOK, FillerOK, NoProc
<1>2. Limit \in Nat /\ report.scanned \in Nat
  BY <1>1, ConnectorAssumption DEF Report
<1>3. CASE FillNext("already") \/ FillNext("skipped")
  <2>1. CountsUnder("already") /\ CountsUnder("skipped")
    BY DEF CountsUnder
  <2>2. FillOK'
    BY <1>0, <1>3, <2>1, FillNextKeeps
  <2> QED BY <1>0, <2>2, OnlyFill
<1>4. CASE FillAborts
  BY <1>0, <1>4, FillAbortsKeeps, OnlyFill
<1>5. CASE /\ filler' = [pc |-> "done"]
           /\ report' = [report EXCEPT !.more_pending = TRUE, !.done = TRUE]
  <2>1. report' \in Report /\ report'.scanned = report.scanned
    BY <1>1, <1>5 DEF Report
  <2>2. report'.more_pending
    BY <1>1, <1>5 DEF Report
  <2>3. filler'.pc = "done"
    BY <1>5
  <2>4. FillOK'
    BY <1>1, <1>5, <2>1, <2>2, <2>3 DEF FillOK, FillerOK
  <2> QED BY <1>0, <2>4, OnlyFill
<1>6. CASE report.scanned < Limit /\ report.dry /\ FillNext("scanned")
  <2>1. CountsUnder("scanned")
    BY <1>6 DEF CountsUnder
  <2>2. FillOK'
    BY <1>0, <1>6, <2>1, FillNextKeeps
  <2> QED BY <1>0, <2>2, OnlyFill
<1>7. CASE /\ report.scanned < Limit /\ ~report.dry /\ filler' = [filler EXCEPT !.pc = "read"]
           /\ report' = [report EXCEPT !.scanned = @ + 1]
  <2>1. PICK n \in Nat : n = report.scanned + 1 /\ n <= Limit
    BY <1>2, <1>7
  <2>2. report' = [report EXCEPT !.scanned = n]
    BY <1>7, <2>1
  <2>3. report' \in Report /\ report'.scanned = n
    BY <1>1, <2>2 DEF Report
  <2>4. report'.dry = report.dry /\ report'.done = report.done
        /\ report'.more_pending = report.more_pending
    BY <1>1, <2>2 DEF Report
  <2>5. (report'.dry <=> report.dry) /\ (report'.done <=> report.done)
        /\ (report'.more_pending <=> report.more_pending)
    BY <2>4, Zenon
  <2>6. Charged = 0 /\ Charged' = 0
    BY <1>7, <2>5 DEF Charged
  <2>7. report'.already = report.already /\ report'.ingested = report.ingested
        /\ report'.skipped = report.skipped /\ report'.listed = report.listed
    BY <1>1, <2>2 DEF Report
  <2>8. Counted' = Counted
    BY <2>6, <2>7 DEF Counted
  <2>9. filler' \in FillRec /\ filler'.pc = "read" /\ filler'.todo = filler.todo
    BY <1>1, <1>7 DEF FillRec
  <2>10. Left' = Left
    BY <1>0, <2>9 DEF Left
  <2>11. FillerOK'
    BY <1>0, <1>7, <2>5, <2>9 DEF FillerOK
  <2>12. ~report'.more_pending => report'.listed = Counted' + Left'
    BY <1>0, <2>5, <2>7, <2>8, <2>10 DEF FillOK
  <2>13. ~report'.done
    BY <1>1, <2>5
  <2>14. FillOK'
    BY <2>1, <2>3, <2>11, <2>12, <2>13 DEF FillOK
  <2> QED BY <1>0, <2>14, OnlyFill
<1> QED BY <1>3, <1>4, <1>5, <1>6, <1>7 DEF FillProbe

LEMMA FillReadKeeps ==
  ASSUME CtInv, FillRead
  PROVE  CtInv'
<1>0. UNCHANGED <<docs, tree, sink, forgetter, late, left, removals>> /\ filler.pc = "read" /\ FillOK
  BY DEF FillRead, CtInv
<1>1. filler \in FillRec /\ report \in Report /\ ~report.done /\ ~report.dry /\ filler.todo # <<>>
  BY <1>0 DEF FillOK, FillerOK, NoProc
<1>2. CASE FillNext("skipped")
  <2>1. CountsUnder("skipped")
    BY DEF CountsUnder
  <2>2. FillOK'
    BY <1>0, <1>1, <1>2, <2>1, FillNextKeeps
  <2> QED BY <1>0, <2>2, OnlyFill
<1>3. CASE filler' = [filler EXCEPT !.pc = "ingest"] /\ report' = report
  <2>1. filler' \in FillRec /\ filler'.pc = "ingest" /\ filler'.todo = filler.todo
    BY <1>1, <1>3 DEF FillRec
  <2>2. Left' = Left /\ Counted' = Counted
    BY <1>0, <1>3, <2>1 DEF Left, Counted, Charged
  <2>3. FillOK'
    BY <1>0, <1>1, <1>3, <2>1, <2>2 DEF FillOK, FillerOK
  <2> QED BY <1>0, <2>3, OnlyFill
<1> QED BY <1>2, <1>3 DEF FillRead

LEMMA FillIngestKeeps ==
  ASSUME CtInv, FillIngest
  PROVE  CtInv'
<1>0. UNCHANGED <<docs, sink, forgetter, left, removals>> /\ filler.pc = "ingest" /\ FillOK
  BY DEF FillIngest, CtInv
<1>1. filler \in FillRec /\ report \in Report /\ ~report.dry /\ filler.todo # <<>>
  BY <1>0 DEF FillOK, FillerOK, NoProc
<1>2. filler.as \in Connections /\ filler.todo \in Seq(Items)
  BY <1>1 DEF FillRec
<1>3. PICK i \in Items : i = Head(filler.todo)
  BY <1>1, <1>2, HeadAndTail
<1>4. CountsUnder("skipped") /\ CountsUnder("already") /\ CountsUnder("ingested")
  BY DEF CountsUnder
<1>5. CASE /\ IngestIntoTree(filler.as, i)
           /\ FillNext(IF AlreadyTreed(filler.as, i) THEN "already" ELSE "ingested")
  <2>1. DocsOK' /\ OrphansOK' /\ tree' = tree \cup {<<filler.as, i>>}
    BY <1>0, <1>2, <1>5, IngestKeeps DEF CtInv
  <2>2. FillNext("already") \/ FillNext("ingested")
    BY <1>5
  <2>3. FillOK'
    BY <1>0, <1>1, <1>4, <2>2, FillNextKeeps
  <2>4. ProcsOK'
    BY <1>0 DEF CtInv, ProcsOK
  <2> QED BY <1>0, <2>1, <2>3, <2>4, BatchStands DEF CtInv
<1>6. CASE FillNext("skipped") /\ UNCHANGED <<tree, late>>
  <2>1. FillOK'
    BY <1>0, <1>1, <1>4, <1>6, FillNextKeeps
  <2> QED BY <1>0, <1>6, <2>1, OnlyFill
<1>7. CASE FillAborts /\ UNCHANGED <<tree, late>>
  BY <1>0, <1>7, FillAbortsKeeps, OnlyFill
<1> QED BY <1>3, <1>5, <1>6, <1>7 DEF FillIngest

LEMMA FillTargetDoneKeeps ==
  ASSUME CtInv, FillTargetDone
  PROVE  CtInv'
<1>0. UNCHANGED <<docs, tree, sink, forgetter, report, late, left, removals>> /\ filler.pc = "probe"
      /\ filler.todo = <<>> /\ filler' = [pc |-> "list", targets |-> filler.targets] /\ FillOK
  BY DEF FillTargetDone, CtInv
<1>1. filler \in FillRec /\ ~report.done
  BY <1>0 DEF FillOK, FillerOK, NoProc
<1>2. filler' \in [pc : {"list"}, targets : Seq(Target)] /\ filler'.pc = "list"
  BY <1>0, <1>1 DEF FillRec
<1>3. Left = 0 /\ Left' = 0
  BY <1>0, <1>2 DEF Left
<1>4. Counted' = Counted
  BY <1>0 DEF Counted, Charged
<1>5. FillOK'
  BY <1>0, <1>1, <1>2, <1>3, <1>4 DEF FillOK, FillerOK
<1> QED BY <1>0, <1>5, OnlyFill

LEMMA FillEndKeeps ==
  ASSUME CtInv, FillEnd
  PROVE  CtInv'
<1>0. UNCHANGED <<docs, tree, sink, forgetter, late, left, removals>> /\ FillOK
  BY DEF FillEnd, CtInv
<1>1. CASE FillAborts
  BY <1>0, <1>1, FillAbortsKeeps, OnlyFill
<1>2. CASE filler.pc = "list" /\ filler' = [pc |-> "done"] /\ report' = [report EXCEPT !.done = TRUE]
  <2>1. report \in Report
    BY <1>0 DEF FillOK
  <2>2. report' \in Report /\ report'.scanned = report.scanned /\ report'.already = report.already
        /\ report'.ingested = report.ingested /\ report'.skipped = report.skipped
        /\ report'.listed = report.listed
    BY <1>2, <2>1 DEF Report
  <2>3. report'.dry = report.dry /\ report'.more_pending = report.more_pending
    BY <1>2, <2>1 DEF Report
  <2>4. (report'.dry <=> report.dry) /\ (report'.more_pending <=> report.more_pending)
    BY <2>3, Zenon
  <2>5. Charged' = Charged
    BY <2>2, <2>4 DEF Charged
  <2>6. Counted' = Counted
    BY <2>2, <2>5 DEF Counted
  <2>7. Left = 0 /\ Left' = 0 /\ filler'.pc = "done"
    BY <1>2 DEF Left
  <2>8. ~report'.more_pending => report'.listed = Counted' + Left'
    BY <1>0, <2>2, <2>4, <2>6, <2>7 DEF FillOK
  <2>9. FillOK'
    BY <1>0, <1>2, <2>2, <2>7, <2>8 DEF FillOK, FillerOK
  <2> QED BY <1>0, <2>9, OnlyFill
<1> QED BY <1>1, <1>2 DEF FillEnd

----------------------------------------------------------------------------
LEMMA CtInitHolds == CtInit => CtInv
<1>1. SUFFICES ASSUME CtInit PROVE CtInv
  OBVIOUS
<1>2. PICK old \in SeqOf(Items, Limit + 1), legacy \in SeqOf(Items \ Poison, 1), c \in Registered :
        /\ IsInjective(old)
        /\ docs = [ns \in Spaces |-> IF ns = c THEN old ELSE IF ns = Legacy THEN legacy ELSE <<>>]
  BY <1>1 DEF CtInit
<1>3. old \in Seq(Items) /\ legacy \in Seq(Items)
  <2>1. PICK m \in 0 .. Limit + 1 : old \in [1 .. m -> Items]
    BY DEF SeqOf
  <2>2. PICK k \in 0 .. 1 : legacy \in [1 .. k -> Items \ Poison]
    BY DEF SeqOf
  <2>3. legacy \in [1 .. k -> Items] /\ m \in Nat /\ k \in Nat
    BY <2>1, <2>2, ConnectorAssumption
  <2> QED BY <2>1, <2>3
<1>4. IsInjective(legacy)
  <2>1. PICK m \in 0 .. 1 : legacy \in [1 .. m -> Items \ Poison]
    BY DEF SeqOf
  <2>2. \A j, k \in 1 .. m : j = k
    BY <2>1
  <2> QED BY <2>1, <2>2 DEF IsInjective
<1>5. IsInjective(<<>>) /\ <<>> \in Seq(Items)
  BY DEF IsInjective
<1>6. tree = {} /\ late = {} /\ left = {} /\ sink = NoProc /\ forgetter = NoProc /\ filler = NoProc
      /\ report = NoReport /\ removals = 0
  BY <1>1 DEF CtInit
<1>7. DocsOK
  BY <1>2, <1>3, <1>4, <1>5, <1>6 DEF DocsOK
<1>8. ProcsOK /\ OrphansOK /\ BatchOK
  BY <1>6 DEF ProcsOK, OrphansOK, BatchOK, NoProc
<1>9. report \in Report /\ report.scanned = 0 /\ ~report.done /\ report.listed = 0
  BY <1>6 DEF NoReport, Report
<1>10. Counted = 0 /\ Left = 0 /\ 0 <= Limit
  BY <1>6, ConnectorAssumption DEF Counted, Charged, Left, NoReport, NoProc
<1>11. FillOK
  BY <1>6, <1>9, <1>10 DEF FillOK, FillerOK
<1> QED BY <1>7, <1>8, <1>11 DEF CtInv

LEMMA CtStepHolds == CtInv /\ [CtNext]_ctVars => CtInv'
<1>1. SUFFICES ASSUME CtInv, [CtNext]_ctVars PROVE CtInv'
  OBVIOUS
<1>2. CASE UNCHANGED ctVars
  <2>1. UNCHANGED <<docs, tree, sink, forgetter, filler, report, late, left, removals>>
    BY <1>2 DEF ctVars
  <2>2. FillOK'
    BY <1>1, <2>1, FillStands DEF CtInv
  <2> QED BY <1>1, <2>1, <2>2, OnlyFill
<1>3. CASE \E s \in Connections \cup {Plain} : AcceptBegin(s) \/ ForgetList(s)
  BY <1>1, <1>3, AcceptBeginKeeps, ForgetListKeeps
<1>4. CASE \E c \in Connections : ForgetMatching(c)
  BY <1>1, <1>4, ForgetMatchingKeeps
<1>5. CASE \E dry \in BOOLEAN : FillBegin(dry)
  BY <1>1, <1>5, FillBeginKeeps
<1>6. CASE SinkStep
  BY <1>1, <1>6, AcceptPutKeeps, AcceptTreeKeeps, AcceptEndKeeps DEF SinkStep
<1>7. CASE ForgetStep
  BY <1>1, <1>7, ForgetClearKeeps, ForgetChunksKeeps, ForgetOrphansKeeps DEF ForgetStep
<1>8. CASE FillStep
  BY <1>1, <1>8, FillListKeeps, FillProbeKeeps, FillReadKeeps, FillIngestKeeps,
     FillTargetDoneKeeps, FillEndKeeps DEF FillStep
<1>9. CASE ForgetFails \/ Dies
  BY <1>1, <1>9, ForgetFailsKeeps, DiesKeeps
<1> QED BY <1>1, <1>2, <1>3, <1>4, <1>5, <1>6, <1>7, <1>8, <1>9 DEF CtNext

THEOREM ConnectorInvariant == CtSpec => []CtInv
BY CtInitHolds, CtStepHolds, PTL DEF CtSpec

\* A forgotten source leaves nothing in the tree but what a batch or a pass had read
\* before its document went and what a removal that failed or died left, which the next
\* removal of the source takes; and a backfill pass accounts for every document it
\* listed (forget_source and backfill_connector_trees), for any connections, items,
\* batches and limit.
THEOREM TreeCorrect == CtSpec => []TreeFollowsDocuments
<1>1. CtInv => TreeFollowsDocuments
  <2>1. SUFFICES ASSUME CtInv PROVE TreeFollowsDocuments
    OBVIOUS
  <2>2. CtTypeOK
    BY <2>1 DEF CtInv, DocsOK, FillOK, CtTypeOK
  <2>3. OrphansAreLate
    <3>1. forgetter = NoProc => forgetter.pc # "chunks"
      BY DEF NoProc
    <3> QED BY <2>1, <3>1 DEF CtInv, OrphansOK, OrphansAreLate
  <2>5. ForgottenIsGone
    BY <2>1 DEF CtInv, OrphansOK, ForgottenIsGone, ChunksOf
  <2>4. ReportAccounts
    <3>1. SUFFICES ASSUME report.done, ~report.more_pending
                   PROVE  report.listed = Counted
      BY DEF ReportAccounts, Counted, Charged
    <3>2. Left = 0
      BY <2>1, <3>1 DEF CtInv, FillOK, Left
    <3>3. report \in Report
      BY <2>1 DEF CtInv, FillOK
    <3>4. Counted \in Nat
      <4>1. /\ report.already \in Nat /\ report.ingested \in Nat /\ report.skipped \in Nat
            /\ report.scanned \in Nat
        BY <3>3 DEF Report
      <4>2. Charged \in Nat
        BY <4>1 DEF Charged
      <4>3. PICK a \in Nat, b \in Nat, c \in Nat, d \in Nat :
              report.already = a /\ report.ingested = b /\ report.skipped = c /\ Charged = d
        BY <4>1, <4>2
      <4> QED BY <4>3, CountedIs
    <3>5. report.listed = Counted + Left
      BY <2>1, <3>1 DEF CtInv, FillOK
    <3> QED BY <3>2, <3>4, <3>5
  <2> QED BY <2>2, <2>3, <2>4, <2>5 DEF TreeFollowsDocuments
<1> QED BY <1>1, ConnectorInvariant, PTL

\* A batch of a connector that ends well has every item in the tree or counted as a
\* failure, unless a removal ran beside it (accept_source_items).
THEOREM BatchCorrect == CtSpec => BatchReachesTree
<1> DEFINE Reaches ==
      (sink # NoProc /\ AcceptEnd /\ sink.end = "ok" /\ sink.src \in Connections /\ removals = 0)
        => Cardinality({i \in Range(sink.batch) : <<sink.src, i>> \notin tree}) <= sink.counted
<1>1. CtInv /\ [CtNext]_ctVars => [Reaches]_ctVars
  <2>1. SUFFICES ASSUME CtInv, CtNext, sink # NoProc, AcceptEnd, sink.end = "ok",
                        sink.src \in Connections, removals = 0
                 PROVE  Cardinality({i \in Range(sink.batch) : <<sink.src, i>> \notin tree})
                          <= sink.counted
    OBVIOUS
  <2>3. sink.pc = "tree" /\ Range(sink.written) = {}
    BY <2>1 DEF AcceptEnd, Range
  <2>4. Missing = {i \in Range(sink.batch) : <<sink.src, i>> \notin tree}
    BY <2>3 DEF Missing
  <2> QED BY <2>1, <2>3, <2>4 DEF CtInv, BatchOK
<1> QED BY <1>1, ConnectorInvariant, PTL DEF CtSpec, BatchReachesTree

(***************************************************************************)
(* The request budget of a connection (SyncBudget).                        *)
(***************************************************************************)

(* A copy counts the requests of its own day, and none was charged to it on a
   later one. *)
CountsItsDay(s, sum) ==
  /\ s \in SyncStates /\ s.date <= today
  /\ s.requests_used = AtMost(sum[s.date])
  /\ \A d \in Days : d > s.date => sum[d] = 0

BudgetTypes ==
  /\ today \in Days /\ runSpent \in Nat
  /\ charged \in [Days -> Nat] /\ keptFor \in [Days -> Nat]
HeldCounts == held # NoState => CountsItsDay(held, charged) /\ held.run_requests = AtMost(runSpent)
KeptCounts ==
  kept # NoState => CountsItsDay(kept, keptFor) /\ kept.run_requests = 0 /\ kept.run_cost = 0
KeptInHeld == held # NoState /\ kept # NoState => kept.synced_ids \subseteq held.synced_ids
BudgetInv == BudgetTypes /\ HeldCounts /\ KeptCounts /\ KeptInHeld

LEMMA NoStateIsNone == NoState \notin SyncStates
  BY BudgetAssumption DEF NoState, SyncStates, Days

LEMMA FreshIsState ==
  ASSUME NEW d \in Days
  PROVE  Fresh(d) \in SyncStates /\ Fresh(d) # NoState
  BY BudgetAssumption, NoStateIsNone DEF Fresh, SyncStates

(* What a copy that counts its day says of the budget is what was charged today. *)
LEMMA CountIsHonest ==
  ASSUME BudgetTypes, NEW s, NEW sum \in [Days -> Nat], CountsItsDay(s, sum)
  PROVE  CountHonest(s, sum)
<1>1. s.limit = DailyLimit /\ s.date \in Days /\ today \in Days
  BY DEF CountsItsDay, SyncStates, BudgetTypes
<1>2. sum[today] \in Nat /\ sum[s.date] \in Nat /\ DailyLimit \in Nat /\ CountMax \in Nat /\ DailyLimit <= CountMax
  BY <1>1, BudgetAssumption
<1>3. CASE s.date = today
  <2>1. s.requests_used = AtMost(sum[today])
    BY <1>3 DEF CountsItsDay
  <2>2. remaining(s) = Saturated(DailyLimit, AtMost(sum[today]))
    BY <2>1, <1>1, <1>3 DEF remaining
  <2> QED
    BY <2>2, <1>2 DEF CountHonest, budget_exhausted, Saturated, AtMost
<1>4. CASE s.date # today
  <2>1. today > s.date
    BY <1>1, <1>4 DEF CountsItsDay, Days
  <2>2. sum[today] = 0
    BY <2>1, <1>1 DEF CountsItsDay
  <2>3. remaining(s) = DailyLimit
    BY <1>1, <1>4 DEF remaining
  <2> QED
    BY <2>2, <2>3, <1>2 DEF CountHonest, budget_exhausted, Saturated
<1> QED
  BY <1>3, <1>4

(* Rolling a copy over keeps what it counts. *)
LEMMA RollKeeps ==
  ASSUME BudgetTypes, NEW s, NEW sum \in [Days -> Nat], CountsItsDay(s, sum)
  PROVE  LET r == roll_over_if_stale(s)
         IN  /\ CountsItsDay(r, sum) /\ r.date = today /\ r.synced_ids = s.synced_ids
             /\ r.run_requests = s.run_requests
<1>1. s \in SyncStates /\ today \in Days /\ CountMax \in Nat
  BY BudgetAssumption DEF CountsItsDay, BudgetTypes
<1>2. CASE s.date = today
  BY <1>2 DEF roll_over_if_stale
<1>3. CASE s.date # today
  <2> DEFINE r == [s EXCEPT !.date = today, !.requests_used = 0]
  <2>1. roll_over_if_stale(s) = r
    BY <1>3 DEF roll_over_if_stale
  <2>0. 0 \in 0 .. CountMax
    BY <1>1
  <2>2. /\ r \in SyncStates /\ r.date = today /\ r.requests_used = 0 /\ r.synced_ids = s.synced_ids
        /\ r.run_requests = s.run_requests
    BY <2>0, <1>1 DEF SyncStates
  <2>3. today > s.date /\ s.date \in Days
    BY <1>1, <1>3 DEF CountsItsDay, SyncStates, Days
  <2>4. sum[today] = 0
    BY <2>3, <1>1 DEF CountsItsDay
  <2>5. \A d \in Days : d > today => sum[d] = 0
    BY <2>3, <1>1 DEF CountsItsDay, Days
  <2>6. AtMost(0) = 0
    BY <1>1 DEF AtMost
  <2>7. CountsItsDay(r, sum)
    BY <2>2, <2>4, <2>5, <2>6, <1>1 DEF CountsItsDay, Days
  <2> QED
    BY <2>1, <2>2, <2>7
<1> QED
  BY <1>2, <1>3

(* Saturating one addition after another is saturating their sum. *)
LEMMA SaturatesOnce ==
  ASSUME NEW a \in Nat, NEW n \in Nat
  PROVE  AtMost(AtMost(a) + n) = AtMost(a + n) /\ AtMost(a) \in 0 .. CountMax
  BY BudgetAssumption DEF AtMost

LEMMA CostAlone ==
  ASSUME NEW s \in SyncStates, NEW cost \in Nat
  PROVE  LET r == [s EXCEPT !.run_cost = @ + cost]
         IN  /\ r \in SyncStates /\ r.date = s.date /\ r.requests_used = s.requests_used
             /\ r.run_requests = s.run_requests /\ r.synced_ids = s.synced_ids
  BY DEF SyncStates

(* An action is charged to today and to the run, and to nothing else. *)
LEMMA RecordCharges ==
  ASSUME BudgetTypes, NEW s, CountsItsDay(s, charged), s.run_requests = AtMost(runSpent),
         NEW attempts \in Nat, NEW cost \in Costs \cup {Unusable}
  PROVE  LET r == record_action(s, attempts, cost)
             n == AtLeastOne(attempts)
         IN  /\ CountsItsDay(r, [charged EXCEPT ![today] = @ + n])
             /\ r.run_requests = AtMost(runSpent + n)
             /\ r.synced_ids = s.synced_ids
<1> DEFINE n == AtLeastOne(attempts)
           o == roll_over_if_stale(s)
           c == [o EXCEPT !.requests_used = AtMost(@ + n), !.run_requests = AtMost(@ + n)]
           r == record_action(s, attempts, cost)
           more == [charged EXCEPT ![today] = @ + n]
<1>1. n \in Nat /\ today \in Days /\ charged \in [Days -> Nat] /\ runSpent \in Nat
  BY DEF AtLeastOne, BudgetTypes
<1>2. CountsItsDay(o, charged) /\ o.date = today /\ o.synced_ids = s.synced_ids /\ o.run_requests = AtMost(runSpent)
  BY <1>1, RollKeeps
<1>3. o \in SyncStates /\ o.requests_used = AtMost(charged[today]) /\ charged[today] \in Nat
  BY <1>1, <1>2 DEF CountsItsDay
<1>4. AtMost(o.requests_used + n) = AtMost(charged[today] + n) /\ AtMost(o.run_requests + n) = AtMost(runSpent + n)
  BY <1>1, <1>2, <1>3, SaturatesOnce
<1>5. AtMost(charged[today] + n) \in 0 .. CountMax /\ AtMost(runSpent + n) \in 0 .. CountMax
  <2>1. charged[today] + n \in Nat /\ runSpent + n \in Nat
    BY <1>1, <1>3
  <2> QED
    BY <2>1, <1>1, SaturatesOnce
<1>6. /\ c \in SyncStates /\ c.date = today /\ c.requests_used = AtMost(charged[today] + n)
      /\ c.run_requests = AtMost(runSpent + n) /\ c.synced_ids = o.synced_ids
      /\ c.run_cost \in Nat
  BY <1>2, <1>3, <1>4, <1>5 DEF SyncStates
<1>7. c = record_requests(s, n)
  BY DEF record_requests
<1>8. /\ r \in SyncStates /\ r.date = today /\ r.requests_used = c.requests_used
      /\ r.run_requests = c.run_requests /\ r.synced_ids = c.synced_ids
  <2>1. CASE cost = Unusable
    BY <2>1, <1>6, <1>7 DEF record_action
  <2>2. CASE cost # Unusable
    <3>1. cost \in Nat
      BY <2>2, BudgetAssumption
    <3>2. r = [c EXCEPT !.run_cost = @ + cost]
      BY <2>2, <1>7 DEF record_action
    <3>3. c \in SyncStates
      BY <1>6
    <3> HIDE DEF c, r
    <3> QED
      BY <3>1, <3>2, <3>3, <1>6, CostAlone
  <2> QED
    BY <2>1, <2>2
<1>9. more[today] = charged[today] + n /\ \A d \in Days : d > today => more[d] = 0
  BY <1>1, <1>2 DEF CountsItsDay, Days
<1>10. CountsItsDay(r, more)
  BY <1>1, <1>6, <1>8, <1>9 DEF CountsItsDay, Days
<1> QED
  BY <1>2, <1>6, <1>8, <1>10

LEMMA BudgetInit == SbInit => BudgetInv
  BY BudgetAssumption
  DEF SbInit, BudgetInv, BudgetTypes, HeldCounts, KeptCounts, KeptInHeld, Uncharged, Days

LEMMA BudgetStep ==
  ASSUME BudgetInv, [SbNext]_sbVars
  PROVE  BudgetInv'
<1> USE DEF BudgetInv
<1>1. CASE LoadState
  <2>1. BudgetTypes' /\ KeptCounts'
    BY <1>1 DEF LoadState, BudgetTypes, KeptCounts, CountsItsDay, Uncharged
  <2>2. CASE kept = NoState
    <3>1. held' = Fresh(today) /\ charged' = Uncharged /\ runSpent' = 0 /\ kept' = NoState /\ today' = today
      BY <1>1, <2>2 DEF LoadState
    <3>2. Fresh(today) \in SyncStates /\ today \in Days /\ AtMost(0) = 0
      BY FreshIsState, BudgetAssumption DEF BudgetTypes, AtMost
    <3>3. CountsItsDay(held, charged)'
      BY <3>1, <3>2 DEF CountsItsDay, Fresh, Uncharged, Days
    <3> QED
      BY <2>1, <3>1, <3>2, <3>3 DEF HeldCounts, KeptInHeld, Fresh
  <2>3. CASE kept # NoState
    <3>1. held' = kept /\ charged' = keptFor /\ runSpent' = 0 /\ kept' = kept /\ today' = today
      BY <1>1, <2>3 DEF LoadState
    <3>2. AtMost(0) = 0
      BY BudgetAssumption DEF AtMost
    <3> QED
      BY <2>1, <2>3, <3>1, <3>2 DEF HeldCounts, KeptCounts, KeptInHeld, CountsItsDay
  <2> QED
    BY <2>2, <2>3
<1>2. CASE SaveState
  <2>1. held \in SyncStates /\ held # NoState /\ CountsItsDay(held, charged)
    BY <1>2 DEF SaveState, HeldCounts, CountsItsDay
  <2>2. /\ kept' = Persisted(held) /\ keptFor' = charged /\ today' = today
        /\ held' = held /\ charged' = charged /\ runSpent' = runSpent
    BY <1>2 DEF SaveState
  <2>3. 0 \in 0 .. CountMax
    BY BudgetAssumption
  <2>4. LET k == Persisted(held)
        IN  /\ k \in SyncStates /\ k.date = held.date /\ k.requests_used = held.requests_used
            /\ k.synced_ids = held.synced_ids
            /\ k.run_requests = 0 /\ k.run_cost = 0
    BY <2>1, <2>3 DEF Persisted, SyncStates
  <2>5. CountsItsDay(kept, keptFor)'
    BY <2>1, <2>2, <2>4 DEF CountsItsDay
  <2>6. BudgetTypes'
    BY <2>2 DEF BudgetTypes
  <2>7. HeldCounts'
    BY <2>2 DEF HeldCounts, CountsItsDay
  <2>8. KeptCounts' /\ KeptInHeld'
    BY <2>2, <2>4, <2>5 DEF KeptCounts, KeptInHeld
  <2> QED
    BY <2>6, <2>7, <2>8
<1>3. CASE RunEnds
  BY <1>3 DEF RunEnds, BudgetTypes, HeldCounts, KeptCounts, KeptInHeld, CountsItsDay
<1>4. CASE RollOver
  <2>1. held # NoState /\ held' = roll_over_if_stale(held) /\ UNCHANGED <<today, kept, charged, keptFor, runSpent>>
    BY <1>4 DEF RollOver
  <2>2. CountsItsDay(held, charged) /\ held.run_requests = AtMost(runSpent) /\ charged \in [Days -> Nat]
    BY <2>1 DEF HeldCounts, BudgetTypes
  <2>3. /\ CountsItsDay(held', charged) /\ held'.synced_ids = held.synced_ids
        /\ held'.run_requests = held.run_requests
    BY <2>1, <2>2, RollKeeps
  <2> QED
    BY <2>1, <2>2, <2>3 DEF BudgetTypes, HeldCounts, KeptCounts, KeptInHeld, CountsItsDay
<1>5. CASE Midnight
  <2>1. /\ today' = today + 1 /\ today < MaxDay
        /\ UNCHANGED <<held, kept, charged, keptFor, runSpent>>
    BY <1>5 DEF Midnight
  <2>2. BudgetTypes'
    BY <2>1, BudgetAssumption DEF BudgetTypes, Days
  <2>3. \A s, sum : CountsItsDay(s, sum) => CountsItsDay(s, sum)'
    BY <2>1, BudgetAssumption DEF CountsItsDay, BudgetTypes, SyncStates, Days
  <2> QED
    BY <2>1, <2>2, <2>3 DEF HeldCounts, KeptCounts, KeptInHeld, CountsItsDay
<1>6. ASSUME NEW attempts \in 0 .. MaxAttempts, NEW cost \in Costs \cup {Unusable},
             RecordAction(attempts, cost)
      PROVE  BudgetInv'
  <2>1. /\ held # NoState /\ held' = record_action(held, attempts, cost)
        /\ charged' = [charged EXCEPT ![today] = @ + AtLeastOne(attempts)]
        /\ runSpent' = runSpent + AtLeastOne(attempts)
        /\ UNCHANGED <<today, kept, keptFor>>
    BY <1>6 DEF RecordAction
  <2>2. CountsItsDay(held, charged) /\ held.run_requests = AtMost(runSpent) /\ attempts \in Nat
    BY <2>1, BudgetAssumption DEF HeldCounts
  <2>3. /\ CountsItsDay(held', charged') /\ held'.run_requests = AtMost(runSpent')
        /\ held'.synced_ids = held.synced_ids
    BY <2>1, <2>2, RecordCharges
  <2>4. BudgetTypes'
    BY <2>1, <2>2 DEF BudgetTypes, AtLeastOne
  <2> QED
    BY <2>1, <2>3, <2>4 DEF HeldCounts, KeptCounts, KeptInHeld, CountsItsDay
<1>7. ASSUME NEW id \in SyncedIds, MarkSynced(id)
      PROVE  BudgetInv'
  <2>1. /\ held # NoState /\ held' = [held EXCEPT !.synced_ids = @ \cup {id}]
        /\ UNCHANGED <<today, kept, charged, keptFor, runSpent>>
    BY <1>7 DEF MarkSynced
  <2>2. held \in SyncStates /\ CountsItsDay(held, charged) /\ held.run_requests = AtMost(runSpent)
    BY <2>1 DEF HeldCounts, CountsItsDay
  <2>3. /\ held' \in SyncStates /\ held'.synced_ids = held.synced_ids \cup {id}
        /\ held'.date = held.date /\ held'.requests_used = held.requests_used
        /\ held'.run_requests = held.run_requests
    BY <2>1, <2>2 DEF SyncStates
  <2>4. CountsItsDay(held, charged)'
    BY <2>1, <2>2, <2>3 DEF CountsItsDay
  <2> QED
    BY <2>1, <2>2, <2>3, <2>4 DEF BudgetTypes, HeldCounts, KeptCounts, KeptInHeld, CountsItsDay
<1>8. CASE UNCHANGED sbVars
  BY <1>8 DEF sbVars, BudgetTypes, HeldCounts, KeptCounts, KeptInHeld, CountsItsDay
<1> QED
  BY <1>1, <1>2, <1>3, <1>4, <1>5, <1>6, <1>7, <1>8 DEF SbNext

(* DailyBudget and SyncState: whatever midnights pass and whichever runs die
   before they save, a copy of the state reports exactly what today's requests
   left of the limit, a run reports only its own requests, and no saved id is
   forgotten. *)
THEOREM BudgetCorrect == SbSpec => []BudgetSound
<1>1. BudgetInv => BudgetSound
  <2> SUFFICES ASSUME BudgetInv PROVE BudgetSound
    OBVIOUS
  <2>1. held # NoState => CountHonest(held, charged)
    BY CountIsHonest DEF BudgetInv, HeldCounts, BudgetTypes
  <2>2. kept # NoState => CountHonest(kept, keptFor)
    BY CountIsHonest DEF BudgetInv, KeptCounts, BudgetTypes
  <2> QED
    BY <2>1, <2>2 DEF BudgetSound, BudgetInv, HeldCounts, KeptCounts, KeptInHeld, CountsItsDay
<1> QED
  BY BudgetInit, BudgetStep, <1>1, PTL DEF SbSpec
==============================================================================
