-------------------------- MODULE ChannelPersistence --------------------------
(***************************************************************************)
(* The event-bus subscriber that mirrors channel turns into the             *)
(* conversation store (tinymemory-conversations/src/bus.rs). The store is   *)
(* used through its public operations, each of which is atomic towards the  *)
(* others (ConversationStore): list_threads, ensure_thread, get_messages,   *)
(* append_message. A delivery is one call of `handle`, one action per call  *)
(* it makes; the bus may redeliver an event and may run several handlers.   *)
(***************************************************************************)
EXTENDS Integers, Sequences, FiniteSets, Functions

CONSTANTS
    Handlers,      \* concurrent runs of ChannelEventHandler::handle
    Registrars,    \* concurrent calls of register_conversation_persistence_subscriber
    Workspaces,
    Conversations, \* (channel, sender, reply_target, thread_ts)
    Legacy,        \* [Conversations -> thread id before the collision fix]
    Safe,          \* [Conversations -> collision-safe thread id]
    Turns,         \* channel events: [workspace, conversation, id, role]
    MaxDeliveries, \* bound on the deliveries of a behaviour
    Absent

\* "{role}:{message_id}"
PersistedId(e) == <<e.role, e.id>>

ThreadIds == {Legacy[c] : c \in Conversations} \cup {Safe[c] : c \in Conversations}
\* A turn in the thread it goes to.
TurnKeys == Workspaces \X ThreadIds \X {PersistedId(e) : e \in Turns}
Thread == [labels : {"general", "user"}, rows : Seq(Turns)]

\* The collision-safe id either adds a digest of the components or, when no
\* component has an underscore, is the legacy id itself.
ASSUME IdsAssumption ==
    /\ Legacy \in [Conversations -> ThreadIds] /\ Safe \in [Conversations -> ThreadIds]
    /\ \A c, d \in Conversations : Safe[c] = Safe[d] => c = d
    /\ \A e \in Turns : e.workspace \in Workspaces /\ e.conversation \in Conversations
    /\ Absent \notin Workspaces \cup ThreadIds \cup Thread
    /\ MaxDeliveries \in Nat

VARIABLES
    bound,      \* CONVERSATION_PERSISTENCE_WORKSPACE
    registered, \* CONVERSATION_PERSISTENCE_REGISTERED
    subs,       \* subscriptions installed on the bus
    reg,        \* progress of every registration
    store,      \* [workspace -> [thread -> Absent or [labels, rows]]]
    run,        \* progress of every handler
    deliveries, \* deliveries begun so far
    legacyKept, \* threads that were there before the first delivery
    crossed     \* history: turns appended while another handler that had not found
                \* them was about to append them as well

cpVars == <<bound, registered, subs, reg, store, run, deliveries, legacyKept, crossed>>

Free == [step |-> "free", turn |-> Absent, ws |-> Absent, thread |-> Absent]

Delivery ==
    {Free} \cup [step : {"choose"}, turn : Turns, ws : Workspaces, thread : {Absent}]
           \cup [step : {"ensure", "lookup", "append"}, turn : Turns, ws : Workspaces,
                 thread : ThreadIds]

CpTypeOK ==
    /\ bound \in Workspaces \cup {Absent}
    /\ registered \in BOOLEAN
    /\ subs \in Nat
    /\ reg \in [Registrars -> {"ready", "bound", "subscribing", "subscribed", "done"}]
    /\ store \in [Workspaces -> [ThreadIds -> Thread \cup {Absent}]]
    /\ deliveries \in 0..MaxDeliveries
    /\ legacyKept \subseteq ThreadIds
    /\ crossed \subseteq TurnKeys
    /\ run \in [Handlers -> Delivery]

\* A workspace may already hold threads written before the collision fix.
CpInit ==
    /\ bound = Absent
    /\ registered = FALSE
    /\ subs = 0
    /\ reg = [r \in Registrars |-> "ready"]
    /\ legacyKept \in SUBSET {Legacy[c] : c \in Conversations}
    /\ store = [w \in Workspaces |-> [t \in ThreadIds |->
                   IF t \in legacyKept THEN [labels |-> "general", rows |-> <<>>] ELSE Absent]]
    /\ run = [h \in Handlers |-> Free]
    /\ deliveries = 0
    /\ crossed = {}

-----------------------------------------------------------------------------
(* register_conversation_persistence_subscriber                             *)

RegisterBind(r, w) ==
    /\ reg[r] = "ready"
    /\ bound' = w
    /\ reg' = [reg EXCEPT ![r] = "bound"]
    /\ UNCHANGED <<registered, subs, store, run, deliveries, legacyKept, crossed>>

\* `if REGISTERED.get().is_some() { return }`
RegisterCheck(r) ==
    /\ reg[r] = "bound"
    /\ reg' = [reg EXCEPT ![r] = IF registered THEN "done" ELSE "subscribing"]
    /\ UNCHANGED <<bound, registered, subs, store, run, deliveries, legacyKept, crossed>>

\* bus.subscribe_conversation_persistence(subscriber), installed or refused
RegisterSubscribe(r) ==
    /\ reg[r] = "subscribing"
    /\ \/ subs' = subs + 1 /\ reg' = [reg EXCEPT ![r] = "subscribed"]
       \/ subs' = subs /\ reg' = [reg EXCEPT ![r] = "done"]
    /\ UNCHANGED <<bound, registered, store, run, deliveries, legacyKept, crossed>>

RegisterMark(r) ==
    /\ reg[r] = "subscribed"
    /\ registered' = TRUE
    /\ reg' = [reg EXCEPT ![r] = "done"]
    /\ UNCHANGED <<bound, subs, store, run, deliveries, legacyKept, crossed>>

-----------------------------------------------------------------------------
(* handle and persist_channel_turn                                          *)

\* Faulty variant: the event's workspace is not compared with the binding.
HandleAnyWorkspace(h, e) ==
    /\ run[h] = Free
    /\ subs > 0
    /\ deliveries < MaxDeliveries
    /\ deliveries' = deliveries + 1
    /\ run' = [run EXCEPT ![h] = [step |-> "choose", turn |-> e, ws |-> bound, thread |-> Absent]]
    /\ UNCHANGED <<bound, registered, subs, reg, store, legacyKept, crossed>>

\* The bus hands an event to a handler, which snapshots the binding and drops
\* an event that targets another workspace.
Handle(h, e) ==
    /\ run[h] = Free
    /\ subs > 0
    /\ deliveries < MaxDeliveries
    /\ deliveries' = deliveries + 1
    /\ run' = IF e.workspace = bound
              THEN [run EXCEPT ![h] =
                      [step |-> "choose", turn |-> e, ws |-> bound, thread |-> Absent]]
              ELSE run
    /\ UNCHANGED <<bound, registered, subs, reg, store, legacyKept, crossed>>

\* Faulty variant: the legacy id is used for every conversation.
ThreadOfLegacy(w, c) == Legacy[c]

\* A legacy thread that exists keeps receiving its turns. list_threads is only
\* consulted when the two ids differ.
ThreadOf(w, c) ==
    IF Legacy[c] # Safe[c] /\ store[w][Legacy[c]] # Absent THEN Legacy[c] ELSE Safe[c]

Choose(h) ==
    /\ run[h].step = "choose"
    /\ run' = [run EXCEPT ![h].step = "ensure",
                          ![h].thread = ThreadOf(run[h].ws, run[h].turn.conversation)]
    /\ UNCHANGED <<bound, registered, subs, reg, store, deliveries, legacyKept, crossed>>

\* Faulty variant: the upsert carries labels, which replace the stored ones.
Relabelled(entry) == IF entry = Absent THEN [labels |-> "general", rows |-> <<>>]
                     ELSE [entry EXCEPT !.labels = "general"]

\* Faulty variant: a new thread is left without inferred labels.
TouchedUnlabelled(entry) == IF entry = Absent THEN [labels |-> Absent, rows |-> <<>>] ELSE entry

\* ensure_thread with labels: None: inferred on creation, kept afterwards
Touched(entry) == IF entry = Absent THEN [labels |-> "general", rows |-> <<>>] ELSE entry

Ensure(h) ==
    /\ run[h].step = "ensure"
    /\ store' = [store EXCEPT ![run[h].ws][run[h].thread] = Touched(@)]
    /\ run' = [run EXCEPT ![h].step = "lookup"]
    /\ UNCHANGED <<bound, registered, subs, reg, deliveries, legacyKept, crossed>>

\* Faulty variant: no check for a turn that was already persisted.
LookupSkipped(h) ==
    /\ run[h].step = "lookup"
    /\ run' = [run EXCEPT ![h].step = "append"]
    /\ UNCHANGED <<bound, registered, subs, reg, store, deliveries, legacyKept, crossed>>

Holds(entry, e) ==
    entry # Absent /\ \E i \in DOMAIN entry.rows : PersistedId(entry.rows[i]) = PersistedId(e)

\* get_messages (empty for a thread that is gone) and the dedup check on the
\* persisted id
Lookup(h) ==
    /\ run[h].step = "lookup"
    /\ run' = [run EXCEPT ![h] = IF Holds(store[@.ws][@.thread], @.turn) THEN Free
                                 ELSE [@ EXCEPT !.step = "append"]]
    /\ UNCHANGED <<bound, registered, subs, reg, store, deliveries, legacyKept, crossed>>

Appended(entry, e) == IF entry = Absent THEN Absent ELSE [entry EXCEPT !.rows = Append(@, e)]

TurnKey(h) == <<run[h].ws, run[h].thread, PersistedId(run[h].turn)>>

\* append_message; its "thread not found" error is swallowed. Ids built from a
\* role are not minted by the core, so the store does not deduplicate them.
AppendTurn(h) ==
    /\ run[h].step = "append"
    /\ store' = [store EXCEPT ![run[h].ws][run[h].thread] = Appended(@, run[h].turn)]
    /\ run' = [run EXCEPT ![h] = Free]
    /\ crossed' = crossed \cup {TurnKey(k) : k \in {k \in Handlers \ {h} :
                                  run[k].step = "append" /\ TurnKey(k) = TurnKey(h)}}
    /\ UNCHANGED <<bound, registered, subs, reg, deliveries, legacyKept>>

-----------------------------------------------------------------------------
(* What the rest of the host does to the same threads                       *)

UserLabels(w, t) ==
    /\ store[w][t] # Absent
    /\ store[w][t].labels # "user"
    /\ store' = [store EXCEPT ![w][t].labels = "user"]
    /\ UNCHANGED <<bound, registered, subs, reg, run, deliveries, legacyKept, crossed>>

UserDeletes(w, t) ==
    /\ store[w][t] # Absent
    /\ store' = [store EXCEPT ![w][t] = Absent]
    /\ UNCHANGED <<bound, registered, subs, reg, run, deliveries, legacyKept, crossed>>

CpNext ==
    \/ \E r \in Registrars :
          \/ \E w \in Workspaces : RegisterBind(r, w)
          \/ RegisterCheck(r) \/ RegisterSubscribe(r) \/ RegisterMark(r)
    \/ \E h \in Handlers :
          \/ \E e \in Turns : Handle(h, e)
          \/ Choose(h) \/ Ensure(h) \/ Lookup(h) \/ AppendTurn(h)
    \/ \E w \in Workspaces, t \in ThreadIds : UserLabels(w, t) \/ UserDeletes(w, t)

CpSpec == CpInit /\ [][CpNext]_cpVars

-----------------------------------------------------------------------------
(* Properties                                                               *)

\* A turn is only ever written to the workspace it targets, however the
\* binding is switched while handlers are under way.
TurnsStayInWorkspace ==
    \A w \in Workspaces, t \in ThreadIds :
        store[w][t] # Absent => \A e \in Range(store[w][t].rows) : e.workspace = w

\* The legacy id of one conversation is the collision-safe id of another, which only
\* a reply target that itself ends in "_thread:<ts>" or in a digest brings about.
Imitated(t) == \E c, d \in Conversations : c # d /\ Safe[c] = t /\ Legacy[d] = t

\* Turns of two conversations share a thread only where a thread written
\* before the collision fix is carried on, or one id imitates the other: ids that
\* collide do not start a new shared thread, also when the legacy thread is deleted
\* under a handler.
ConversationsNotMixed ==
    \A w \in Workspaces, t \in ThreadIds :
        store[w][t] # Absent =>
            \A e, f \in Range(store[w][t].rows) :
                e.conversation = f.conversation \/ t \in legacyKept \/ Imitated(t)

\* A label the user has set is not reset by a channel turn: only the deletion
\* of the thread takes it away ("`None` preserves any labels the user
\* assigned", bus.rs:324; the older note at store.rs:145-150 says that the subscriber
\* passes labels and resets them, which it no longer does).
UserLabelsKept ==
    [][\A w \in Workspaces, t \in ThreadIds :
          (store[w][t] # Absent /\ store[w][t].labels = "user") =>
              (store'[w][t] = Absent \/ store'[w][t].labels = "user")]_cpVars

\* "redelivery of the same event is a no-op" (bus.rs:278): however many handlers run,
\* a thread holds a persisted id twice only where one delivery appended it between
\* another's dedup read and its append. Neither a redelivery that overlaps at other
\* steps nor a deletion or rebinding under a handler doubles a turn.
RedeliveryIsNoOp ==
    \A w \in Workspaces, t \in ThreadIds :
        store[w][t] # Absent =>
            \A i, j \in DOMAIN store[w][t].rows :
                PersistedId(store[w][t].rows[i]) = PersistedId(store[w][t].rows[j]) =>
                    i = j \/ <<w, t, PersistedId(store[w][t].rows[i])>> \in crossed

\* A thread holds the turns of one workspace and of one conversation, each once
\* unless two deliveries of it crossed.
ThreadsSound ==
  CpTypeOK /\ TurnsStayInWorkspace /\ ConversationsNotMixed /\ RedeliveryIsNoOp
=============================================================================
