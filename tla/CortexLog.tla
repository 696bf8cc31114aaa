----------------------------- MODULE CortexLog -----------------------------
(***************************************************************************)
(* The CortexDB driver (remote/src/cortex.rs and cortex_provider/): a      *)
(* keyed memory over an append-only event log that answers before it       *)
(* indexes.  A store appends an event, a forget appends a tombstone and    *)
(* then removes the events it had listed, a read folds the log to the      *)
(* newest event of each key.  Requests and answers may be lost or late;    *)
(* the hosted wire retries an ingest under one claim, which the service    *)
(* honours at most once.                                                   *)
(***************************************************************************)
EXTENDS Integers, FiniteSets, Bags

CONSTANTS
    Clients,       \* callers with one call each at a time
    CxKeys,        \* the keys of one namespace
    CxValues,
    WriteAttempts, \* HOSTED_WRITE_ATTEMPTS
    MaxCalls       \* bound: calls begun

ASSUME CortexAssumption == WriteAttempts \in Nat \ {0} /\ MaxCalls \in Nat

VARIABLES
    wire,     \* "direct" or "hosted" (CortexWire)
    log,      \* the engine's events
    wal,      \* the last offset given out
    records,  \* idempotency keys the engine has seen: they outlive forgotten events
    claims,   \* Idempotency-Key headers the hosted service has seen
    net,      \* the bag of append requests on their way
    call,     \* what each client is doing
    calls,    \* calls begun
    acked     \* newest offset acknowledged for each key

cxVars == <<wire, log, wal, records, claims, net, call, calls, acked>>

Tomb == "tombstone"

Event == [at : 1 .. MaxCalls, key : CxKeys, val : CxValues \cup {Tomb}, shown : BOOLEAN]

Idle == [kind |-> "idle", step |-> "idle", id |-> 0]

Top(events) == CHOOSE e \in events : \A f \in events : f.at <= e.at

(* The listing carries the indexed events only. *)
events(key) == {e \in log : e.key = key /\ e.shown}

(* The newest event decides; 0 stands for none. *)
fold(found) == IF found = {} THEN 0 ELSE Top(found).at

----------------------------------------------------------------------------
(* Appending. *)

(* A store carries an idempotency key of its own; the one of an ingest is   *)
(* derived from all it ingests, that of a raw event from its id alone, so   *)
(* that repeating it repeats the key.                                       *)
idempotency_key(c) ==
    CASE call[c].kind = "ingest" -> <<0, call[c].key, call[c].val>>
      [] call[c].kind = "event"  -> <<0, call[c].key>>
      [] OTHER                   -> <<call[c].id, call[c].key, call[c].val>>

Request(c) ==
    [id |-> call[c].id, key |-> call[c].key, val |-> call[c].val, idem |-> idempotency_key(c)]

Begin(c, kind, key, val) ==
    /\ call[c].step = "idle"
    /\ calls < MaxCalls
    /\ calls' = calls + 1
    /\ call' = [call EXCEPT ![c] =
                  [kind |-> kind, id |-> calls + 1, key |-> key, attempt |-> 0, ids |-> {},
                   val |-> val, at |-> 0, floor |-> acked[key],
                   step |-> IF kind \in {"get", "delete"} THEN "list" ELSE "send"]]
    /\ UNCHANGED <<wire, log, wal, records, claims, net, acked>>

(* The operations. *)
get(c, key) == Begin(c, "get", key, Tomb)
delete(c, key) == Begin(c, "delete", key, Tomb)
upsert(c, key, val) == Begin(c, "upsert", key, val)
ingest_document(c, key, val) == Begin(c, "ingest", key, val)
ingest_learning(c, key, val) == Begin(c, "ingest", key, val)
ingest_event(c, key, val) == Begin(c, "event", key, val)

Goes(c, step) == call' = [call EXCEPT ![c].step = step] /\ UNCHANGED acked

(* The call returns an error, or it returns and its caller relies on the    *)
(* event it wrote.                                                          *)
Fails(c) == call' = [call EXCEPT ![c] = Idle] /\ UNCHANGED acked

Succeeds(c, at) ==
    /\ call' = [call EXCEPT ![c] = Idle]
    /\ acked' = [acked EXCEPT ![call[c].key] = IF at > @ THEN at ELSE @]

Sent == BagToSet(net)

(* Every attempt puts a copy of its own on the wire. *)
Send(c) ==
    /\ call[c].step = "send"
    /\ net' = net (+) SetToBag({Request(c)})
    /\ call' = [call EXCEPT ![c].step = "wait", ![c].attempt = @ + 1]
    /\ UNCHANGED <<wire, log, wal, records, claims, calls, acked>>

(* The caller's entry changes only if it still waits for this request: a    *)
(* replayed ingest returns, an appended event has yet to be readable.       *)
Answered(r, answer, at) ==
    [c \in Clients |->
        IF call[c].step # "wait" \/ call[c].id # r.id THEN call[c]
        ELSE IF answer = "replayed" THEN Idle
        ELSE [call[c] EXCEPT !.step = answer, !.at = at]]

(* The engine: an idempotency key it has seen is answered as replayed. *)
AppendEvent(r) ==
    IF r.idem \in records
    THEN UNCHANGED <<log, wal, records>>
    ELSE /\ wal' = wal + 1
         /\ log' = log \cup {[at |-> wal + 1, key |-> r.key, val |-> r.val, shown |-> FALSE]}
         /\ records' = records \cup {r.idem}

Claimed(r) == wire = "hosted" /\ r.id \in claims

(* A replay is not waited for: its caller relies on the event that it asked *)
(* for only where the listing carries it by now.                            *)
ReplayAcks(r) ==
    LET at == fold({e \in events(r.key) : e.val = r.val})
    IN IF at > acked[r.key] /\ \E c \in Clients : call[c].step = "wait" /\ call[c].id = r.id
       THEN [acked EXCEPT ![r.key] = at] ELSE acked

(* The request arrives and its answer may or may not reach the caller. *)
Receive(r, delivered) ==
    /\ claims' = IF wire = "hosted" THEN claims \cup {r.id} ELSE claims
    /\ IF Claimed(r) THEN UNCHANGED <<log, wal, records>> ELSE AppendEvent(r)
    /\ call' = IF ~delivered THEN call
               ELSE IF Claimed(r) THEN Answered(r, "conflict", 0)
               ELSE IF r.idem \in records THEN Answered(r, "replayed", 0)
               ELSE Answered(r, "await", wal + 1)
    /\ acked' = IF delivered /\ ~Claimed(r) /\ r.idem \in records THEN ReplayAcks(r) ELSE acked

Arrive(r, delivered) ==
    /\ net' = net (-) SetToBag({r})
    /\ Receive(r, delivered)
    /\ UNCHANGED <<wire, calls>>

(* It is lost, on the hosted wire perhaps behind the service that claimed it. *)
Lose(r, claimed) ==
    /\ claimed => wire = "hosted"
    /\ net' = net (-) SetToBag({r})
    /\ claims' = IF claimed THEN claims \cup {r.id} ELSE claims
    /\ UNCHANGED <<wire, log, wal, records, call, calls, acked>>

(* Only the hosted ingest is sent again, under the claim it has. *)
Retries(c) == wire = "hosted" /\ call[c].kind \in {"ingest", "event"}

RetriesOnceMore(c) == Retries(c) /\ call[c].attempt <= WriteAttempts

MayRetry(c) == Retries(c) /\ call[c].attempt < WriteAttempts

TimeOut(c) ==
    /\ call[c].step = "wait"
    /\ IF MayRetry(c) THEN Goes(c, "send") ELSE Fails(c)
    /\ UNCHANGED <<wire, log, wal, records, claims, net, calls>>

Conflict(c) ==
    /\ call[c].step = "conflict"
    /\ IF Retries(c) /\ call[c].attempt > 1 THEN Goes(c, "recover") ELSE Fails(c)
    /\ UNCHANGED <<wire, log, wal, records, claims, net, calls>>

(* A claim that was already honoured: the event is looked up by its text. *)
recover_unknown_write(c) ==
    /\ call[c].step = "recover"
    /\ \E e \in events(call[c].key) : e.val = call[c].val /\ Succeeds(c, e.at)
    /\ UNCHANGED <<wire, log, wal, records, claims, net, calls>>

Index(e) ==
    /\ ~e.shown
    /\ log' = (log \ {e}) \cup {[e EXCEPT !.shown = TRUE]}
    /\ UNCHANGED <<wire, wal, records, claims, net, call, calls, acked>>

(* The write is acknowledged when the listing carries it. *)
AcceptedIsReadable(c) == TRUE

Readable(c) == \E e \in events(call[c].key) : e.at = call[c].at

await_readable(c) ==
    /\ call[c].step = "await"
    /\ Readable(c)
    /\ IF call[c].kind = "delete" THEN Goes(c, "forget") ELSE Succeeds(c, call[c].at)
    /\ UNCHANGED <<wire, log, wal, records, claims, net, calls>>

(* The deadline of a wait passes, or a listing or the removal fails. *)
GiveUp(c) ==
    /\ call[c].step \in {"await", "recover", "forget", "list"}
    /\ Fails(c)
    /\ UNCHANGED <<wire, log, wal, records, claims, net, calls>>

----------------------------------------------------------------------------
(* Deleting and reading. *)

(* Nothing live: nothing to do.  Otherwise the tombstone goes first. *)
DeleteLists(c) ==
    /\ call[c].kind = "delete"
    /\ call[c].step = "list"
    /\ LET found == events(call[c].key)
       IN call' = IF \A e \in found : e.val = Tomb
                  THEN [call EXCEPT ![c] = Idle]
                  ELSE [call EXCEPT ![c].step = "send", ![c].ids = {e.at : e \in found}]
    /\ UNCHANGED <<wire, log, wal, records, claims, net, calls, acked>>

RemovedByKey(c) == {e \in log : e.key = call[c].key /\ e.at # call[c].at}

Removed(c) == {e \in log : e.at \in call[c].ids}

ForgetEvents(c) ==
    /\ call[c].step = "forget"
    /\ log' = log \ Removed(c)
    /\ Succeeds(c, call[c].at)
    /\ UNCHANGED <<wire, wal, records, claims, net, calls>>

Get(c) ==
    /\ call[c].kind = "get"
    /\ call[c].step = "list"
    /\ call' = [call EXCEPT ![c].step = "answer", ![c].at = fold(events(call[c].key))]
    /\ UNCHANGED <<wire, log, wal, records, claims, net, calls, acked>>

Return(c) ==
    /\ call[c].step = "answer"
    /\ Succeeds(c, 0)
    /\ UNCHANGED <<wire, log, wal, records, claims, net, calls>>

----------------------------------------------------------------------------
CxInit ==
    /\ wire \in {"direct", "hosted"}
    /\ log = {} /\ wal = 0 /\ records = {} /\ claims = {} /\ net = EmptyBag
    /\ call = [c \in Clients |-> Idle]
    /\ calls = 0
    /\ acked = [k \in CxKeys |-> 0]

Calls(c) ==
    \E key \in CxKeys :
        \/ get(c, key) \/ delete(c, key)
        \/ \E val \in CxValues :
               \/ upsert(c, key, val) \/ ingest_event(c, key, val)
               \/ ingest_document(c, key, val) \/ ingest_learning(c, key, val)

ClientStep(c) ==
    \/ Send(c) \/ TimeOut(c) \/ Conflict(c) \/ recover_unknown_write(c) \/ await_readable(c)
    \/ GiveUp(c) \/ DeleteLists(c) \/ ForgetEvents(c) \/ Get(c) \/ Return(c)

CxNext ==
    \/ \E c \in Clients : Calls(c) \/ ClientStep(c)
    \/ \E r \in Sent, b \in BOOLEAN : Arrive(r, b) \/ Lose(r, b)
    \/ \E e \in log : Index(e)

CxSpec == CxInit /\ [][CxNext]_cxVars

----------------------------------------------------------------------------
(* The log holds one event per offset, and every call keeps to its steps    *)
(* and sends its request no more often than the wire allows.                *)
CxTypeOK ==
    /\ log \subseteq Event
    /\ wal \in 0 .. MaxCalls
    /\ \A e, f \in log : e.at = f.at => e = f
    /\ \A e \in log : e.at <= wal
    /\ \A c \in Clients : call[c].kind # "idle" => call[c].attempt <= WriteAttempts
    /\ \A c \in Clients : call[c].step \in
         {"idle", "send", "wait", "await", "conflict", "recover", "list", "forget", "answer"}

(* Read after write: a read that begins after a store, an ingest or a       *)
(* forget of its key was acknowledged answers with that event or a newer    *)
(* one, although the log is indexed late and other calls remove events      *)
(* from it.                                                                 *)
ReadsCurrent ==
    \A c \in Clients : call[c].step = "answer" => call[c].at >= call[c].floor

Held(key) == {e \in log : e.key = key}

(* A call whose request may still be sent, perhaps again. *)
MaySend(c) ==
    \/ call[c].step = "send"
    \/ call[c].step = "list" /\ call[c].kind = "delete"
    \/ call[c].step = "wait" /\ MayRetry(c)

(* What the newest event of each key says. *)
Stored == [k \in CxKeys |-> IF Held(k) = {} THEN Tomb ELSE Top(Held(k)).val]

(* Requests that were sent or may be, and would append if they arrived. *)
Requests == Sent \cup {Request(c) : c \in {d \in Clients : MaySend(d)}}
Live(r) == r.idem \notin records /\ ~Claimed(r)
Outstanding == {[id |-> r.id, key |-> r.key, val |-> r.val] : r \in {q \in Requests : Live(q)}}

Keyed == INSTANCE KeyedStore WITH mem <- Stored, issued <- 1 .. calls, pending <- Outstanding

(* The log implements the keyed memory: each store, ingest and forget takes *)
(* effect when its event is appended and at most once, however often it is  *)
(* sent and however late it arrives; indexing and the removal of events     *)
(* never change what a key holds.                                           *)
AppendsOnce == Keyed!Spec

\* A settled read of the log is the last write it acknowledged.
LogSound == CxTypeOK /\ ReadsCurrent
=============================================================================
