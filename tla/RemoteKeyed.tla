---------------------------- MODULE RemoteKeyed ----------------------------
(***************************************************************************)
(* The drivers that keep (namespace, key) in a service which addresses     *)
(* records by ids of its own (remote/src/common.rs with mem0, supermemory, *)
(* cognee and agentmemory): every store and forget looks the id up first,  *)
(* then writes by it.  Reads are retried, writes are sent once; a write    *)
(* without an answer may have arrived, or arrive later.                    *)
(***************************************************************************)
EXTENDS Integers, FiniteSets

CONSTANTS
    Callers,      \* callers with one call each at a time
    RemoteKeys,   \* the keys of one namespace
    MaxAttempts,  \* attempts a read gets
    RemotePage,   \* records a page of a listing holds (agentmemory's PAGE_SIZE, supermemory's 200)
    WalkPages,    \* the most pages supermemory's listing is followed for (MAX_PAGES)
    MaxBegun      \* bound: calls begun

ASSUME RemoteAssumption ==
    /\ {MaxAttempts, RemotePage, WalkPages, MaxBegun} \subseteq Nat \ {0}
    /\ IsFiniteSet(RemoteKeys)

VARIABLES
    service,    \* which driver and service
    held,       \* the service's records: id, key and the store that wrote them
    lastId,     \* the last id given out
    wires,      \* writes on their way
    req,        \* what each caller is doing
    begun,      \* calls begun; a call's number stands for the content it stores
    expected,   \* the last acknowledged content of each key, 0 for none
    raced,      \* keys two writers worked on at once
    unanswered, \* keys of writes whose outcome the caller never learned
    torn,       \* keys whose store failed between its two writes
    shifted     \* keys looked up page by page while a record was removed

rkVars == <<service, held, lastId, wires, req, begun, expected, raced, unanswered, torn, shifted>>

Services == {"mem0", "supermemory", "cognee", "agentmemory"}

Resting == [kind |-> "none", key |-> CHOOSE k \in RemoteKeys : TRUE, no |-> 0,
            step |-> "rest", tried |-> 0, id |-> 0, offset |-> 0, hits |-> {}]

Records(key) == {r \in held : r.key = key}

----------------------------------------------------------------------------
(* Looking a key up. *)

(* cognee takes the last match of its listing; supermemory's listing is     *)
(* sorted by creation, newest first, and it takes the first; mem0 takes the *)
(* first the service lists, agentmemory the first of all its pages.         *)
mem0_entry(hits) == hits
find_data_id(hits) == {r \in hits : \A q \in hits : q.id <= r.id}
find_entry(hits) == {r \in hits : \A q \in hits : q.id <= r.id}
record(hits) == {r \in hits : \A q \in hits : q.id >= r.id}

Found(hits) ==
    CASE service = "mem0"        -> mem0_entry(hits)
      [] service = "supermemory" -> find_entry(hits)
      [] service = "cognee"      -> find_data_id(hits)
      [] service = "agentmemory" -> record(hits)

(* mem0 and cognee answer a lookup from one listing.  agentmemory's is paged *)
(* by offset and in order of creation, supermemory's by number, newest       *)
(* first: each page is a request of its own, cut from what is held then.     *)
Paged == service \in {"agentmemory", "supermemory"}

Place(r) == Cardinality({q \in held : IF service = "supermemory" THEN q.id >= r.id ELSE q.id <= r.id})

memories(offset) == {r \in held : Paged => Place(r) \in offset + 1 .. offset + RemotePage}

(* agentmemory stops at a page that is not full, supermemory at the number   *)
(* of pages the answer gives.                                                *)
LastPage(offset) ==
    CASE service = "agentmemory" -> Cardinality(memories(offset)) < RemotePage
      [] service = "supermemory" -> offset + RemotePage >= Cardinality(held)
      [] OTHER                   -> TRUE

(* The first match of the walk is taken, whatever later pages hold. *)
Matching(c) ==
    IF req[c].hits # {} THEN req[c].hits ELSE {r \in memories(req[c].offset) : r.key = req[c].key}

RkBegin(c, kind, key) ==
    /\ req[c].step = "rest"
    /\ begun < MaxBegun
    /\ begun' = begun + 1
    /\ req' = [req EXCEPT ![c] = [kind |-> kind, key |-> key, no |-> begun + 1,
                                  step |-> "lookup", tried |-> 0, id |-> 0, offset |-> 0, hits |-> {}]]
    /\ raced' = IF kind # "get" /\ \E d \in Callers : req[d].kind \in {"upsert", "delete"} /\ req[d].key = key
                THEN raced \cup {key} ELSE raced
    /\ UNCHANGED <<service, held, lastId, wires, expected, unanswered, torn, shifted>>

Finish(c) == [req EXCEPT ![c] = Resting]

(* How a request can fail: on its way, or with a status. *)
TransportClass == {"timeout", "dns", "tls", "connect", "other"}

transport_error(class) ==
    CASE class = "timeout"                  -> "Timeout"
      [] class \in {"dns", "tls", "connect"} -> "Unreachable"
      [] class = "other"                    -> "untyped"

Statuses == {400, 401, 403, 404, 422, 429, 500, 502, 503, 504}

status_error(status) ==
    CASE status \in {401, 403}           -> "Unauthorized"
      [] status = 404                    -> "NotFound"
      [] status \in {400, 422}           -> "Invalid"
      [] status \in {429, 502, 503, 504} -> "Unavailable"
      [] OTHER                           -> "Backend"

Failures == {transport_error(class) : class \in TransportClass} \cup {status_error(s) : s \in Statuses}

retryable(failure) == failure \in {"Timeout", "Unreachable", "Unavailable"}

RetriesOnce(c, failure) == retryable(failure)

(* A transient failure is tried again while attempts are left. *)
with_read_retry(c, failure) == retryable(failure) /\ req[c].tried + 1 < MaxAttempts

ReadFails(c, failure) ==
    /\ req[c].step = "lookup"
    /\ req' = IF with_read_retry(c, failure) THEN [req EXCEPT ![c].tried = @ + 1] ELSE Finish(c)
    /\ UNCHANGED <<service, held, lastId, wires, begun, expected, raced, unanswered, torn, shifted>>

(* A page is followed by another, at the offset after it; supermemory's walk *)
(* fails at its limit (ReadFails, untyped).                                  *)
NextPage(c) ==
    /\ req[c].step = "lookup"
    /\ ~LastPage(req[c].offset)
    /\ service = "supermemory" => req[c].offset + RemotePage < WalkPages * RemotePage
    /\ req' = [req EXCEPT ![c].hits = Matching(c), ![c].offset = @ + RemotePage]
    /\ UNCHANGED <<service, held, lastId, wires, begun, expected, raced, unanswered, torn, shifted>>

(* A lookup that finds nothing ends a get and a delete. *)
LookupFindsNone(c) ==
    /\ req[c].step = "lookup"
    /\ LastPage(req[c].offset)
    /\ Matching(c) = {}
    /\ req' = IF req[c].kind = "upsert" THEN [req EXCEPT ![c].step = "add"] ELSE Finish(c)
    /\ UNCHANGED <<service, held, lastId, wires, begun, expected, raced, unanswered, torn, shifted>>

(* A store of a key that has a record: mem0 puts by id, supermemory and     *)
(* cognee patch; agentmemory has no update: it forgets the old record and   *)
(* adds another.                                                            *)
UpsertAdds == "add"

UpsertForgets == "remove"

mem0_upsert == "replace"

supermemory_upsert == "replace"

cognee_upsert == "replace"

agentmemory_upsert == "remove"

UpsertOfHit ==
    CASE service = "mem0"        -> mem0_upsert
      [] service = "supermemory" -> supermemory_upsert
      [] service = "cognee"      -> cognee_upsert
      [] service = "agentmemory" -> agentmemory_upsert

StepOfHit(kind) ==
    CASE kind = "get"    -> "answer"
      [] kind = "delete" -> "remove"
      [] kind = "upsert" -> UpsertOfHit

LookupHits(c) ==
    /\ req[c].step = "lookup"
    /\ LastPage(req[c].offset)
    /\ \E r \in Found(Matching(c)) :
           req' = [req EXCEPT ![c].id = r.id, ![c].step = StepOfHit(req[c].kind),
                              ![c].offset = 0, ![c].hits = {}]
    /\ UNCHANGED <<service, held, lastId, wires, begun, expected, raced, unanswered, torn, shifted>>

GetReturns(c) ==
    /\ req[c].step = "answer"
    /\ req' = Finish(c)
    /\ UNCHANGED <<service, held, lastId, wires, begun, expected, raced, unanswered, torn, shifted>>

----------------------------------------------------------------------------
(* Writing: once, by id. *)

SendOnce(c) ==
    /\ req[c].step \in {"add", "replace", "remove"}
    /\ wires' = wires \cup {[op |-> req[c].step, id |-> req[c].id, key |-> req[c].key, no |-> req[c].no]}
    /\ req' = [req EXCEPT ![c].step = IF @ = "remove" THEN "removing" ELSE "writing"]
    /\ UNCHANGED <<service, held, lastId, begun, expected, raced, unanswered, torn, shifted>>

Waits(c, w) ==
    /\ req[c].no = w.no
    /\ req[c].step = IF w.op = "remove" THEN "removing" ELSE "writing"

(* The id may be gone: the service answers with an error. *)
Applies(w) == w.op # "add" => \E r \in held : r.id = w.id

Effect(w) ==
    IF w.op = "add" THEN held \cup {[id |-> lastId + 1, key |-> w.key, no |-> w.no]}
    ELSE IF w.op = "remove" THEN {r \in held : r.id # w.id}
    ELSE {IF r.id = w.id THEN [r EXCEPT !.no = w.no] ELSE r : r \in held}

(* A store goes on from the removal of the old record to the new one; the    *)
(* answer to a call's last write is its own.                                 *)
Acknowledge(c, w) ==
    IF w.op = "remove" /\ req[c].kind = "upsert"
    THEN req' = [req EXCEPT ![c].step = "add"] /\ UNCHANGED expected
    ELSE /\ req' = Finish(c)
         /\ expected' = [expected EXCEPT ![w.key] = IF w.op = "remove" THEN 0 ELSE w.no]

WriteArrives(w) ==
    /\ wires' = wires \ {w}
    /\ Applies(w)
    /\ held' = Effect(w)
    /\ lastId' = IF w.op = "add" THEN lastId + 1 ELSE lastId
    /\ shifted' = shifted \cup {req[c].key : c \in {d \in Callers : w.op = "remove" /\ req[d].offset > 0}}
    /\ \/ \E c \in Callers : Waits(c, w) /\ Acknowledge(c, w)
       \/ UNCHANGED <<req, expected>>
    /\ UNCHANGED <<service, begun, raced, unanswered, torn>>

(* The service refuses the write and says so. *)
WriteRefused(w) ==
    /\ wires' = wires \ {w}
    /\ \E c \in Callers :
           /\ Waits(c, w)
           /\ req' = Finish(c)
           /\ torn' = IF req[c].id # 0 /\ w.op = "add" THEN torn \cup {w.key} ELSE torn
    /\ UNCHANGED <<service, held, lastId, begun, expected, raced, unanswered, shifted>>

(* The wait ends without an answer; the write may still be on its way. *)
WriteUnanswered(c) ==
    /\ req[c].step \in {"writing", "removing"}
    /\ req' = Finish(c)
    /\ unanswered' = unanswered \cup {<<req[c].key, req[c].step>>}
    /\ UNCHANGED <<service, held, lastId, wires, begun, expected, raced, torn, shifted>>

WriteLost(w) ==
    /\ wires' = wires \ {w}
    /\ UNCHANGED <<service, held, lastId, req, begun, expected, raced, unanswered, torn, shifted>>

----------------------------------------------------------------------------
RkInit ==
    /\ service \in Services
    /\ \E stored \in SUBSET RemoteKeys : \E ids \in [stored -> 1 .. Cardinality(stored)] :
           /\ \A k, l \in stored : ids[k] = ids[l] => k = l
           /\ held = {[id |-> ids[k], key |-> k, no |-> MaxBegun + 1] : k \in stored}
           /\ lastId = Cardinality(stored)
           /\ expected = [k \in RemoteKeys |-> IF k \in stored THEN MaxBegun + 1 ELSE 0]
    /\ wires = {} /\ begun = 0
    /\ req = [c \in Callers |-> Resting]
    /\ raced = {} /\ unanswered = {} /\ torn = {} /\ shifted = {}

RkNext ==
    \/ \E c \in Callers :
         \/ \E key \in RemoteKeys, kind \in {"get", "upsert", "delete"} : RkBegin(c, kind, key)
         \/ \E failure \in Failures : ReadFails(c, failure)
         \/ NextPage(c) \/ LookupFindsNone(c) \/ LookupHits(c) \/ GetReturns(c)
         \/ SendOnce(c) \/ WriteUnanswered(c)
    \/ \E w \in wires : WriteArrives(w) \/ WriteRefused(w) \/ WriteLost(w)

RkSpec == RkInit /\ [][RkNext]_rkVars

----------------------------------------------------------------------------
(* Records and calls stay in their domains, ids are unique, and a read gets *)
(* no more attempts than it may have.                                       *)
RkTypeOK ==
    /\ \A r \in held : r.id \in 1 .. lastId /\ r.key \in RemoteKeys /\ r.no \in 1 .. MaxBegun + 1
    /\ \A r, q \in held : r.id = q.id => r = q
    /\ \A c \in Callers : req[c].tried < MaxAttempts
    /\ \A c \in Callers : req[c].step \in
         {"rest", "lookup", "answer", "add", "replace", "remove", "writing", "removing"}

Busy(key) == \E c \in Callers : req[c].key = key /\ req[c].step # "rest"

Settled(key) == key \notin raced /\ ~Busy(key) /\ ~\E u \in unanswered : u[1] = key

(* A key nobody raced for and whose writes were all answered holds exactly  *)
(* one record, the one last acknowledged, or none after a forget, although  *)
(* the services know nothing of keys.  Two exceptions: agentmemory's store  *)
(* removes before it adds, and may leave the key empty when it fails        *)
(* half-way; and a record removed while a paged listing is walked can hide  *)
(* the key, which is then stored a second time or not forgotten.            *)
SettledKeyExact ==
    \A key \in RemoteKeys : Settled(key) /\ key \notin shifted =>
        \/ {r.no : r \in Records(key)} = {expected[key]} /\ Cardinality(Records(key)) = 1
        \/ Records(key) = {} /\ expected[key] = 0
        \/ Records(key) = {} /\ service = "agentmemory" /\ key \in torn

(* What was last acknowledged for a key nobody raced for is there until it  *)
(* is replaced or forgotten, also when a paged walk missed the key and its  *)
(* store added a second record.                                             *)
SettledKeyKept ==
    \A key \in RemoteKeys : Settled(key) /\ expected[key] # 0 =>
        \/ \E r \in Records(key) : r.no = expected[key]
        \/ service = "agentmemory" /\ key \in torn

(* Where the service updates in place, a store that fails, stays unanswered *)
(* or races with other stores never costs the key its record: while         *)
(* something is acknowledged for it, only a forget can leave it empty.      *)
FailedStoreKeepsOne ==
    \A key \in RemoteKeys :
        /\ service # "agentmemory" /\ expected[key] # 0
        /\ <<key, "removing">> \notin unanswered
        /\ ~\E c \in Callers : req[c].key = key /\ req[c].kind = "delete"
        => Records(key) # {}

\* A key stores one value once its writers are done, keeps what was acknowledged
\* when a page walk missed it, and a failed or raced replacement keeps one of
\* the values.
KeysSound == RkTypeOK /\ SettledKeyExact /\ SettledKeyKept /\ FailedStoreKeepsOne
=============================================================================
