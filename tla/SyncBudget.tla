----------------------------- MODULE SyncBudget -----------------------------
(***************************************************************************)
(* What a connection remembers between sync runs: the ids it has taken and *)
(* the requests it may still make today                                    *)
(* (tinymemory-bus/src/composio/state.rs).  A run holds a copy of the      *)
(* state; loading and saving it is the driver's, and a run may die before  *)
(* it saves.  The day changes under both copies and nothing resets them.   *)
(***************************************************************************)
EXTENDS Integers

CONSTANTS
  SyncedIds,    \* upstream item ids
  Costs,        \* what a provider may report as cost: cents, or the unusable below
  Unusable,     \* a negative, infinite or NaN cost
  DailyLimit,   \* DEFAULT_DAILY_REQUEST_LIMIT
  CountMax,     \* u32::MAX
  MaxAttempts,  \* bound: attempts a caller reports for one action
  MaxCharged,   \* bound: requests charged to a copy in a day
  MaxDay        \* bound: days

ASSUME BudgetAssumption ==
  /\ CountMax \in Nat /\ DailyLimit \in 0 .. CountMax
  /\ MaxAttempts \in Nat /\ MaxCharged \in Nat /\ MaxDay \in Nat
  /\ Costs \subseteq Nat /\ Unusable \notin Nat

VARIABLES
  today,     \* the UTC day
  held,      \* the state of the run in progress, or NoState
  kept,      \* the row in the driver's key-value store, or NoState
  charged,   \* ghost: requests charged on each day to the copy held
  keptFor,   \* ghost: the same for the row
  runSpent   \* ghost: requests charged by the run in progress

sbVars == <<today, held, kept, charged, keptFor, runSpent>>

Days == 0 .. MaxDay
NoState == [date |-> -1]
Uncharged == [d \in Days |-> 0]

AtMost(n) == IF n > CountMax THEN CountMax ELSE n
Saturated(a, b) == IF a > b THEN a - b ELSE 0

(* SyncState::new.  The cursor and the stamps are the pipeline's to read; nothing
   here depends on them. *)
Fresh(d) ==
  [synced_ids |-> {}, date |-> d, requests_used |-> 0, limit |-> DailyLimit,
   run_requests |-> 0, run_cost |-> 0]

(* Faulty variant: the counter of an earlier day is taken for today's. *)
RemainingStale(s) == Saturated(s.limit, s.requests_used)

(* DailyBudget::remaining: a counter of another day counts for nothing. *)
remaining(s) == IF s.date # today THEN s.limit ELSE Saturated(s.limit, s.requests_used)

budget_exhausted(s) == remaining(s) = 0

roll_over_if_stale(s) ==
  IF s.date # today THEN [s EXCEPT !.date = today, !.requests_used = 0] ELSE s

record_requests(s, count) ==
  LET rolled == roll_over_if_stale(s)
  IN  [rolled EXCEPT !.requests_used = AtMost(@ + count), !.run_requests = AtMost(@ + count)]

(* An action costs one request at least; a cost that is no money is dropped. *)
AtLeastOne(attempts) == IF attempts < 1 THEN 1 ELSE attempts
record_action(s, attempts, cost) ==
  LET counted == record_requests(s, AtLeastOne(attempts))
  IN  IF cost = Unusable THEN counted ELSE [counted EXCEPT !.run_cost = @ + cost]

(* The two counters of the run are skipped by serde. *)
Persisted(s) == [s EXCEPT !.run_requests = 0, !.run_cost = 0]

SbInit ==
  /\ today = 0 /\ held = NoState /\ kept = NoState
  /\ charged = Uncharged /\ keptFor = Uncharged /\ runSpent = 0

(* The row as it is stored; a connection that never synced starts afresh. *)
LoadState ==
  /\ held = NoState
  /\ held' = IF kept = NoState THEN Fresh(today) ELSE kept
  /\ charged' = IF kept = NoState THEN Uncharged ELSE keptFor
  /\ runSpent' = 0
  /\ UNCHANGED <<today, kept, keptFor>>

SaveState ==
  /\ held # NoState
  /\ kept' = Persisted(held) /\ keptFor' = charged
  /\ UNCHANGED <<today, held, charged, runSpent>>

(* The run ends, or dies with what it did not save. *)
RunEnds ==
  /\ held # NoState
  /\ held' = NoState
  /\ UNCHANGED <<today, kept, charged, keptFor, runSpent>>

RollOver ==
  /\ held # NoState
  /\ held' = roll_over_if_stale(held)
  /\ UNCHANGED <<today, kept, charged, keptFor, runSpent>>

RecordAction(attempts, cost) ==
  /\ held # NoState /\ charged[today] + AtLeastOne(attempts) <= MaxCharged
  /\ held' = record_action(held, attempts, cost)
  /\ charged' = [charged EXCEPT ![today] = @ + AtLeastOne(attempts)]
  /\ runSpent' = runSpent + AtLeastOne(attempts)
  /\ UNCHANGED <<today, kept, keptFor>>

MarkSynced(id) ==
  /\ held # NoState
  /\ held' = [held EXCEPT !.synced_ids = @ \cup {id}]
  /\ UNCHANGED <<today, kept, charged, keptFor, runSpent>>

Midnight ==
  /\ today < MaxDay
  /\ today' = today + 1
  /\ UNCHANGED <<held, kept, charged, keptFor, runSpent>>

SbNext ==
  \/ LoadState \/ SaveState \/ RunEnds \/ RollOver \/ Midnight
  \/ \E attempts \in 0 .. MaxAttempts, cost \in Costs \cup {Unusable} : RecordAction(attempts, cost)
  \/ \E id \in SyncedIds : MarkSynced(id)

SbSpec == SbInit /\ [][SbNext]_sbVars

---------------------------------------------------------------------------
SyncStates ==
  [synced_ids : SUBSET SyncedIds, date : Days, requests_used : 0 .. CountMax,
   limit : {DailyLimit}, run_requests : 0 .. CountMax, run_cost : Nat]

(* What a copy of the state says of the budget is what was charged to it today. *)
CountHonest(s, sum) ==
  /\ remaining(s) = Saturated(DailyLimit, sum[today])
  /\ budget_exhausted(s) <=> sum[today] >= DailyLimit

(* Whatever midnights pass between the calls, and whether or not anyone rolled
   the counter over, a connection has today exactly what today's requests left
   of the limit; the run in progress reports what it spent itself and nothing of
   the runs before; and no id that was saved is forgotten by a later run. *)
BudgetSound ==
  /\ held # NoState =>
       /\ CountHonest(held, charged)
       /\ held.run_requests = AtMost(runSpent)
       /\ kept # NoState => kept.synced_ids \subseteq held.synced_ids
  /\ kept # NoState =>
       /\ CountHonest(kept, keptFor)
       /\ kept.run_requests = 0 /\ kept.run_cost = 0
=============================================================================
