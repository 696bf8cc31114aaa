---------------------------- MODULE DriverProofs ----------------------------
(***************************************************************************)
(* The CortexDB driver is a keyed memory: each store and forget takes      *)
(* effect at most once, what is acknowledged is read, and the removal of   *)
(* old events never shows, for any number of clients, keys, values,        *)
(* attempts and calls.  The drivers that look ids up keep one record per   *)
(* key, for any number of callers, keys, pages and calls.                  *)
(***************************************************************************)
EXTENDS CortexLog, RemoteKeyed, FiniteSetTheorems, WellFoundedInduction, TLAPS

Kinds == {"get", "delete", "upsert", "ingest", "event"}
Steps == {"send", "wait", "await", "conflict", "recover", "list", "forget", "answer"}
Vals == CxValues \cup {Tomb}

CallRec ==
  [kind : Kinds, id : Nat, key : CxKeys, attempt : Nat, ids : SUBSET Nat, val : Vals,
   at : Nat, floor : Nat, step : Steps]

Working(c) == call[c] # Idle

(* A log has one event per offset, up to the last one given out. *)
Events == [at : Nat, key : CxKeys, val : Vals, shown : BOOLEAN]

Well(l, w) ==
  /\ w \in Nat /\ l \subseteq Events
  /\ \A e \in l : 1 <= e.at /\ e.at <= w
  /\ \A e, f \in l : e.at = f.at => e = f

LogOK == Well(log, wal)

Newest(l, e) == e \in l /\ \A f \in l : f.key = e.key => f.at <= e.at

CallsOK ==
  /\ calls \in Nat /\ calls <= MaxCalls
  /\ call \in [Clients -> {Idle} \cup CallRec]
  /\ acked \in [CxKeys -> Nat]
  /\ \A r \in Sent : r.id \in 1 .. calls /\ r.key \in CxKeys /\ r.val \in Vals

(* A call's number names one request. *)
IdsOK ==
  /\ \A c \in Clients : Working(c) => call[c].id \in 1 .. calls
  /\ \A c, d \in Clients : Working(c) /\ Working(d) /\ call[c].id = call[d].id => c = d
  /\ \A r, q \in Sent : r.id = q.id => r = q
  /\ \A r \in Sent, c \in Clients : Working(c) /\ call[c].id = r.id => r = Request(c)

AttemptsOK ==
  \A c \in Clients : Working(c) =>
    /\ call[c].attempt <= WriteAttempts
    /\ call[c].step \in {"send", "list"} => call[c].attempt < WriteAttempts

(* The events a forget listed are of its key, and older than its tombstone. *)
ListedOK ==
  \A c \in Clients : Working(c) =>
    /\ \A i \in call[c].ids : i <= wal
    /\ \A e \in log : e.at \in call[c].ids => e.key = call[c].key
    /\ call[c].step \in {"await", "forget"} => \A i \in call[c].ids : i < call[c].at

(* While a write is waited for, its event or a newer one is in the log; before
   a forget removes anything, one of those is in the listing. *)
Standing ==
  \A c \in Clients : Working(c) =>
    /\ call[c].step \in {"await", "forget"} =>
         \E e \in log : e.key = call[c].key /\ e.at >= call[c].at
    /\ call[c].step = "forget" =>
         \E e \in log : e.key = call[c].key /\ e.at >= call[c].at /\ e.shown

(* What was acknowledged, or something newer, is in the listing. *)
AckedShown ==
  \A k \in CxKeys : acked[k] # 0 => \E e \in log : e.key = k /\ e.shown /\ e.at >= acked[k]

FloorOK == \A c \in Clients : Working(c) => call[c].floor <= acked[call[c].key]

(* Every event is of a call, and no call that may still append has one. *)
Room == wal + Cardinality({p.id : p \in Outstanding}) <= calls

CxBase ==
  /\ LogOK /\ CallsOK /\ IdsOK /\ AttemptsOK /\ ListedOK
  /\ Standing /\ AckedShown /\ FloorOK /\ ReadsCurrent

CxInv == CxBase /\ Room

---------------------------------------------------------------------------
(* Sets of numbers and the newest event.                                   *)

(* A set of numbers with an upper bound has a greatest one: the least bound. *)
LEMMA GreatestOfBounded ==
  ASSUME NEW S, S \subseteq Nat, S # {}, NEW B \in Nat, \A y \in S : y <= B
  PROVE  \E m \in S : \A y \in S : y <= m
<1> DEFINE T == {n \in Nat : \A y \in S : y <= n}
           R == OpToRel(<, Nat)
<1>1. B \in T
  OBVIOUS
<1>2. IsWellFoundedOn(R, Nat)
  BY NatLessThanWellFounded, Zenon DEF R
<1>3. \A x, y \in Nat : y < x => <<y, x>> \in R
  BY Zenon DEF OpToRel
<1> HIDE DEF R
<1>4. \E x \in T : \A y \in T : ~(<<y, x>> \in R)
  <2>1. T \subseteq Nat /\ T # {}
    BY <1>1
  <2> HIDE DEF T
  <2> QED BY <1>2, <2>1, WFMin
<1>5. PICK m \in T : \A y \in T : ~(<<y, m>> \in R)
  BY <1>4
<1>6. m \in S
  <2>1. SUFFICES ASSUME m \notin S PROVE FALSE
    OBVIOUS
  <2>2. PICK s \in S : TRUE
    OBVIOUS
  <2>3. m - 1 \in T
    BY <2>1, <2>2
  <2>4. m \in Nat /\ m - 1 \in Nat /\ m - 1 < m
    BY <2>3
  <2> HIDE DEF T
  <2> QED BY <2>3, <2>4, <1>3, <1>5
<1> QED
  BY <1>6

(* Events that are there have a newest one. *)
LEMMA TopOf ==
  ASSUME NEW l, NEW w, Well(l, w), NEW S, S \subseteq l, S # {}
  PROVE  Top(S) \in S /\ \A f \in S : f.at <= Top(S).at
<1> DEFINE N == {f.at : f \in S}
<1>0. \A e \in l : e.at \in Nat /\ e.at <= w
  BY DEF Well, Events
<1>1. N \subseteq Nat /\ N # {} /\ \A y \in N : y <= w
  BY <1>0
<1>2. \E m \in N : \A y \in N : y <= m
  <2> HIDE DEF N
  <2> QED BY <1>1, GreatestOfBounded DEF Well
<1>3. \E e \in S : \A f \in S : f.at <= e.at
  BY <1>2
<1> QED
  BY <1>3 DEF Top

LEMMA NewestOfKey ==
  ASSUME NEW l, NEW w, Well(l, w), NEW k, \E f \in l : f.key = k
  PROVE  \E e \in l : e.key = k /\ Newest(l, e)
<1> DEFINE S == {f \in l : f.key = k}
<1>1. S # {} /\ S \subseteq l
  OBVIOUS
<1>2. Top(S) \in S /\ \A f \in S : f.at <= Top(S).at
  <2> HIDE DEF S
  <2> QED BY <1>1, TopOf
<1> QED
  BY <1>2 DEF Newest

(* What a log holds under each key. *)
StoredIn(l) ==
  [k \in CxKeys |-> IF {e \in l : e.key = k} = {} THEN Tomb ELSE Top({e \in l : e.key = k}).val]

LEMMA StoredInLog == Stored = StoredIn(log)
BY DEF Stored, StoredIn, Held

(* A key holds what the newest of its events says. *)
LEMMA StoredNewest ==
  ASSUME NEW l, NEW w, Well(l, w), NEW e, Newest(l, e)
  PROVE  e.key \in CxKeys /\ StoredIn(l)[e.key] = e.val
<1> DEFINE S == {f \in l : f.key = e.key}
<1>1. e.key \in CxKeys /\ e \in S /\ S \subseteq l /\ S # {}
  BY DEF Well, Newest, Events
<1>2. Top(S) \in S /\ e.at <= Top(S).at
  <2> HIDE DEF S
  <2> QED BY <1>1, TopOf
<1>3. Top(S).at <= e.at
  BY <1>2 DEF Newest
<1>4. Top(S).at = e.at
  BY <1>1, <1>2, <1>3 DEF Well, Events
<1>5. Top(S) = e
  BY <1>1, <1>2, <1>4 DEF Well
<1> QED
  BY <1>1, <1>5 DEF StoredIn

(* Two logs whose newest events say the same hold the same. *)
LEMMA StoredSame ==
  ASSUME NEW l, NEW w, Well(l, w), NEW m, NEW v, Well(m, v),
         \A f \in m : \E e \in l : e.key = f.key,
         \A e \in l : Newest(l, e) => \E f \in m : Newest(m, f) /\ f.key = e.key /\ f.val = e.val
  PROVE  StoredIn(m) = StoredIn(l)
<1>1. ASSUME NEW k \in CxKeys PROVE StoredIn(m)[k] = StoredIn(l)[k]
  <2>1. CASE \E e \in l : e.key = k
    <3>1. PICK e \in l : e.key = k /\ Newest(l, e)
      BY <2>1, NewestOfKey
    <3>2. PICK f \in m : Newest(m, f) /\ f.key = e.key /\ f.val = e.val
      BY <3>1
    <3> QED BY <3>1, <3>2, StoredNewest
  <2>2. CASE ~\E e \in l : e.key = k
    <3>1. {e \in l : e.key = k} = {} /\ {e \in m : e.key = k} = {}
      BY <2>2
    <3> QED BY <3>1 DEF StoredIn
  <2> QED BY <2>1, <2>2
<1> QED
  BY <1>1 DEF StoredIn

(* A newer event decides for its key. *)
LEMMA StoredAppend ==
  ASSUME NEW l, NEW w, Well(l, w), NEW n \in Events, n.at = w + 1,
         Well(l \cup {n}, w + 1)
  PROVE  StoredIn(l \cup {n}) = [StoredIn(l) EXCEPT ![n.key] = n.val]
<1> DEFINE m == l \cup {n}
<1>0. n.key \in CxKeys
  BY DEF Events
<1>1. Newest(m, n)
  BY DEF Newest, Well, Events
<1>2. StoredIn(m)[n.key] = n.val
  <2>1. Well(m, w + 1)
    OBVIOUS
  <2> HIDE DEF m
  <2> QED BY <1>1, <2>1, StoredNewest
<1>3. ASSUME NEW k \in CxKeys, k # n.key PROVE StoredIn(m)[k] = StoredIn(l)[k]
  <2>1. {e \in m : e.key = k} = {e \in l : e.key = k}
    BY <1>3
  <2> QED BY <2>1 DEF StoredIn
<1> HIDE DEF m
<1>4. StoredIn(m) = [StoredIn(l) EXCEPT ![n.key] = n.val]
  <2>1. DOMAIN StoredIn(m) = CxKeys /\ DOMAIN StoredIn(l) = CxKeys
    BY DEF StoredIn
  <2>2. StoredIn(m) = [k \in CxKeys |-> StoredIn(m)[k]] /\ StoredIn(l) = [k \in CxKeys |-> StoredIn(l)[k]]
    BY DEF StoredIn
  <2> QED BY <1>2, <1>3, <2>1, <2>2
<1> QED
  BY <1>4 DEF m

---------------------------------------------------------------------------
(* What the steps of the calls leave in place.                             *)

(* A call goes on as the call it is. *)
Moved(c) ==
  /\ Working(c) /\ call'[c] \in CallRec
  /\ call'[c].kind = call[c].kind /\ call'[c].id = call[c].id /\ call'[c].key = call[c].key
  /\ call'[c].val = call[c].val /\ call'[c].floor = call[c].floor
  /\ call'[c].attempt <= WriteAttempts
  /\ call'[c].step \in {"send", "list"} => call'[c].attempt < WriteAttempts
  /\ call'[c].step = "answer" => call'[c].at >= call[c].floor

Stays(c) == call'[c] = call[c] \/ call'[c] = Idle \/ Moved(c)

(* The part of the invariant that speaks of the calls alone. *)
CallPart == CallsOK /\ IdsOK /\ AttemptsOK /\ FloorOK /\ ReadsCurrent

(* The part that relates each call to the log. *)
Grounded(c) ==
  /\ \A i \in call[c].ids : i <= wal
  /\ \A e \in log : e.at \in call[c].ids => e.key = call[c].key
  /\ call[c].step \in {"await", "forget"} =>
       /\ \A i \in call[c].ids : i < call[c].at
       /\ \E e \in log : e.key = call[c].key /\ e.at >= call[c].at
  /\ call[c].step = "forget" =>
       \E e \in log : e.key = call[c].key /\ e.at >= call[c].at /\ e.shown

LogPart == LogOK /\ AckedShown /\ \A c \in Clients : Working(c) => Grounded(c)

LEMMA BaseParts == CxBase <=> CallPart /\ LogPart
BY DEF CxBase, CallPart, LogPart, Grounded, ListedOK, Standing

LEMMA BasePartsNext == CxBase' <=> CallPart' /\ LogPart'
BY DEF CxBase, CallPart, LogPart, Grounded, ListedOK, Standing

LEMMA WorkingTyped ==
  ASSUME CallsOK, NEW c \in Clients
  PROVE  /\ Working(c) => call[c] \in CallRec
         /\ Working(c) <=> call[c].step # "idle"
         /\ MaySend(c) => Working(c)
BY DEF CallsOK, Working, CallRec, Steps, Idle, MaySend

(* What is on its way after a step that sends, takes or leaves alone. *)
LEMMA SentKept ==
  ASSUME net' = net
  PROVE  Sent' = Sent
BY DEF Sent

LEMMA SentAdds ==
  ASSUME NEW r, net' = net (+) SetToBag({r})
  PROVE  Sent' = Sent \cup {r}
BY DEF Sent, BagToSet, SetToBag, (+)

LEMMA SentTakes ==
  ASSUME NEW r, net' = net (-) SetToBag({r})
  PROVE  Sent' \subseteq Sent
BY DEF Sent, BagToSet, SetToBag, (-)

(* A call that goes on sends the request it always sent. *)
LEMMA SameRequest ==
  ASSUME NEW c, Stays(c), Working(c)'
  PROVE  Working(c) /\ Request(c)' = Request(c)
BY DEF Stays, Moved, Working, Request, idempotency_key

LEMMA RequestTyped ==
  ASSUME CallPart, NEW c \in Clients, Working(c)
  PROVE  /\ Request(c).id = call[c].id /\ Request(c).id \in 1 .. calls
         /\ Request(c).key \in CxKeys /\ Request(c).val \in Vals
<1>1. call[c] \in CallRec
  BY WorkingTyped DEF CallPart
<1> QED BY <1>1 DEF CallPart, IdsOK, CallRec, Request

(* Calls that go on, return or wait keep their part. *)
LEMMA CallsKept ==
  ASSUME CallPart, calls' = calls, call' \in [Clients -> {Idle} \cup CallRec],
         \A c \in Clients : Stays(c),
         acked' \in [CxKeys -> Nat], \A k \in CxKeys : acked[k] <= acked'[k],
         \A r \in Sent' : r \in Sent \/ \E c \in Clients : Working(c) /\ r = Request(c)
  PROVE  CallPart'
<1>1. CallsOK'
  <2>1. ASSUME NEW r \in Sent' PROVE r.id \in 1 .. calls /\ r.key \in CxKeys /\ r.val \in Vals
    <3>1. CASE r \in Sent
      BY <3>1 DEF CallPart, CallsOK
    <3>2. ASSUME NEW c \in Clients, Working(c), r = Request(c)
          PROVE r.id \in 1 .. calls /\ r.key \in CxKeys /\ r.val \in Vals
      BY <3>2, RequestTyped
    <3> QED BY <3>1, <3>2
  <2> QED BY <2>1 DEF CallPart, CallsOK
<1>2. ASSUME NEW c \in Clients, Working(c)'
      PROVE  /\ Working(c) /\ call[c] \in CallRec /\ call'[c] \in CallRec
             /\ call'[c].id = call[c].id /\ call'[c].key = call[c].key
             /\ Request(c)' = Request(c) /\ call'[c].floor = call[c].floor
  <2>1. Working(c) /\ Request(c)' = Request(c)
    BY <1>2, SameRequest
  <2>2. call[c] \in CallRec
    BY <2>1, WorkingTyped DEF CallPart
  <2> QED BY <1>2, <2>1, <2>2 DEF Stays, Moved, Working
<1>3. IdsOK'
  <2>1. \A c \in Clients : Working(c)' => call'[c].id \in 1 .. calls'
    BY <1>2 DEF CallPart, IdsOK
  <2>2. \A c, d \in Clients : Working(c)' /\ Working(d)' /\ call'[c].id = call'[d].id => c = d
    BY <1>2 DEF CallPart, IdsOK
  <2>3. \A c \in Clients : Working(c) => Request(c).id = call[c].id
    BY RequestTyped
  <2>4. \A r, q \in Sent' : r.id = q.id => r = q
    BY <2>3 DEF CallPart, IdsOK
  <2>5. ASSUME NEW r \in Sent', NEW c \in Clients, Working(c)', call'[c].id = r.id
        PROVE  r = Request(c)'
    BY <1>2, <2>3, <2>5 DEF CallPart, IdsOK
  <2> QED BY <2>1, <2>2, <2>4, <2>5 DEF IdsOK, Working
<1>4. AttemptsOK'
  <2>1. ASSUME NEW c \in Clients, Working(c)'
        PROVE  /\ call'[c].attempt <= WriteAttempts
               /\ call'[c].step \in {"send", "list"} => call'[c].attempt < WriteAttempts
    BY <2>1, <1>2 DEF CallPart, AttemptsOK, Stays, Moved, Working
  <2> QED BY <2>1 DEF AttemptsOK, Working
<1>5. FloorOK'
  <2>1. ASSUME NEW c \in Clients, Working(c)' PROVE call'[c].floor <= acked'[call'[c].key]
    <3>1. call[c].floor <= acked[call[c].key] /\ call[c].key \in CxKeys /\ call[c].floor \in Nat
      BY <1>2, <2>1 DEF CallPart, FloorOK, CallRec
    <3>2. acked[call[c].key] \in Nat /\ acked'[call[c].key] \in Nat
      BY <3>1 DEF CallPart, CallsOK
    <3> QED BY <1>2, <2>1, <3>1, <3>2
  <2> QED BY <2>1 DEF FloorOK, Working
<1>6. ReadsCurrent'
  <2>1. ASSUME NEW c \in Clients, call'[c].step = "answer" PROVE call'[c].at >= call'[c].floor
    <3>1. Working(c)'
      BY <2>1 DEF Working, Idle
    <3> QED BY <1>2, <2>1, <3>1 DEF CallPart, ReadsCurrent, Stays, Moved, Working
  <2> QED BY <2>1 DEF ReadsCurrent
<1> QED
  BY <1>1, <1>3, <1>4, <1>5, <1>6 DEF CallPart

(* Nothing starts to be able to append. *)
LEMMA OutstandingShrinks ==
  ASSUME CallPart, \A c \in Clients : Stays(c), UNCHANGED wire,
         records \subseteq records', claims \subseteq claims',
         \A r \in Sent' : r \in Sent \/ \E c \in Clients : MaySend(c) /\ r = Request(c),
         \A c \in Clients : MaySend(c)' => MaySend(c),
         CallsOK'
  PROVE  Outstanding' \subseteq Outstanding
<1>1. Requests' \subseteq Requests
  <2>1. ASSUME NEW c \in Clients, MaySend(c)' PROVE MaySend(c) /\ Request(c)' = Request(c)
    <3>1. Working(c)'
      BY <2>1 DEF CallsOK, Working, CallRec, Steps, Idle, MaySend
    <3> QED BY <2>1, <3>1, SameRequest
  <2> QED BY <2>1 DEF Requests
<1>2. \A r : Live(r)' => Live(r)
  BY DEF Live, Claimed
<1> QED
  BY <1>1, <1>2 DEF Outstanding

---------------------------------------------------------------------------
(* What a step does to the memory.                                         *)

(* A step that changes nothing that is held. *)
Quiet == calls' = calls /\ wal' = wal /\ Stored' = Stored /\ Outstanding' \subseteq Outstanding

(* A call begins: it may want to append under a number of its own. *)
Begins ==
  /\ calls' = calls + 1 /\ wal' = wal /\ Stored' = Stored
  /\ \/ Outstanding' = Outstanding
     \/ \E p : p.id = calls + 1 /\ Outstanding' = Outstanding \cup {p}

(* A request is appended, and no other append of that call is possible. *)
Applied ==
  /\ calls' = calls /\ wal' = wal + 1
  /\ \E p \in Outstanding :
       /\ Stored' = [Stored EXCEPT ![p.key] = p.val]
       /\ Outstanding' \subseteq Outstanding
       /\ \A q \in Outstanding' : q.id # p.id

LEMMA OutstandingIds ==
  ASSUME CallPart
  PROVE  \A p \in Outstanding : p.id \in 1 .. calls
<1>1. \A r \in Requests : r.id \in 1 .. calls
  <2>1. \A c \in Clients : MaySend(c) => Request(c).id \in 1 .. calls
    BY RequestTyped, WorkingTyped DEF CallPart
  <2> QED BY <2>1 DEF Requests, CallPart, CallsOK
<1> QED
  BY <1>1 DEF Outstanding

(* A call of its own, or nothing: the log never outgrows the calls. *)
LEMMA RoomKept ==
  ASSUME CxInv, Quiet \/ Begins \/ Applied
  PROVE  Room'
<1> DEFINE I == {p.id : p \in Outstanding}
           J == {p.id : p \in Outstanding'}
<1>1. I \subseteq 1 .. calls /\ calls \in Nat /\ wal \in Nat
  BY OutstandingIds, BaseParts DEF CxInv, CallPart, CallsOK, LogPart, LogOK, Well
<1>2. IsFiniteSet(I) /\ Cardinality(I) \in Nat
  <2> HIDE DEF I
  <2>1. 1 \in Int /\ calls \in Int
    BY <1>1
  <2>2. IsFiniteSet(1 .. calls)
    BY <2>1, FS_Interval
  <2>3. IsFiniteSet(I)
    BY <1>1, <2>2, FS_Subset
  <2> QED BY <2>3, FS_CardinalityType
<1>3. wal + Cardinality(I) <= calls
  BY DEF CxInv, Room
<1>4. wal' + Cardinality(J) <= calls'
  <2>1. CASE Quiet
    <3>1. J \subseteq I
      BY <2>1 DEF Quiet
    <3> HIDE DEF I, J
    <3>2. Cardinality(J) <= Cardinality(I) /\ Cardinality(J) \in Nat
      BY <3>1, <1>2, FS_Subset, FS_CardinalityType
    <3> QED BY <3>2, <2>1, <1>1, <1>2, <1>3 DEF Quiet
  <2>2. CASE Begins
    <3>1. J \subseteq I \cup {calls + 1}
      BY <2>2 DEF Begins
    <3> HIDE DEF I, J
    <3>2. IsFiniteSet(I \cup {calls + 1}) /\ Cardinality(I \cup {calls + 1}) <= Cardinality(I) + 1
          /\ Cardinality(I \cup {calls + 1}) \in Nat
      BY <1>2, FS_AddElement, FS_CardinalityType
    <3>3. Cardinality(J) <= Cardinality(I \cup {calls + 1}) /\ Cardinality(J) \in Nat
      BY <3>1, <3>2, FS_Subset, FS_CardinalityType
    <3> QED BY <3>2, <3>3, <2>2, <1>1, <1>2, <1>3 DEF Begins
  <2>3. CASE Applied
    <3>1. PICK p \in Outstanding : Outstanding' \subseteq Outstanding /\ \A q \in Outstanding' : q.id # p.id
      BY <2>3 DEF Applied
    <3>2. p.id \in I /\ J \subseteq I \ {p.id}
      BY <3>1
    <3>3. calls' = calls /\ wal' = wal + 1
      BY <2>3 DEF Applied
    <3> HIDE DEF I, J
    <3>4. IsFiniteSet(I \ {p.id}) /\ Cardinality(I \ {p.id}) = Cardinality(I) - 1
      BY <1>2, <3>2, FS_RemoveElement
    <3>5. Cardinality(J) <= Cardinality(I \ {p.id}) /\ Cardinality(J) \in Nat
      BY <3>2, <3>4, FS_Subset, FS_CardinalityType
    <3> QED BY <3>3, <3>4, <3>5, <1>1, <1>2, <1>3
  <2> QED BY <2>1, <2>2, <2>3
<1> QED
  BY <1>4 DEF Room

(* Every step of the log is a step of the keyed memory. *)
LEMMA KeyedStep ==
  ASSUME CxInv, Quiet \/ Begins \/ Applied
  PROVE  Keyed!Next
<1>0. calls \in Nat
  BY BaseParts DEF CxInv, CallPart, CallsOK
<1>1. CASE Quiet
  BY <1>1 DEF Quiet, Keyed!Next, Keyed!Withdraw
<1>2. CASE Begins
  <2>1. 1 .. calls' = (1 .. calls) \cup {calls + 1} /\ calls + 1 \notin 1 .. calls
    BY <1>0, <1>2 DEF Begins
  <2>2. CASE Outstanding' = Outstanding
    BY <2>1, <2>2, <1>2 DEF Begins, Keyed!Next, Keyed!IssueNothing
  <2>3. CASE \E p : p.id = calls + 1 /\ Outstanding' = Outstanding \cup {p}
    BY <2>1, <2>3, <1>2 DEF Begins, Keyed!Next, Keyed!Issue
  <2> QED BY <1>2, <2>2, <2>3 DEF Begins
<1>3. CASE Applied
  <2>1. PICK p \in Outstanding :
          /\ Stored' = [Stored EXCEPT ![p.key] = p.val]
          /\ Outstanding' \subseteq Outstanding
          /\ \A q \in Outstanding' : q.id # p.id
    BY <1>3 DEF Applied
  <2>2. Outstanding' \subseteq Outstanding \ {p} /\ calls' = calls
    BY <2>1, <1>3 DEF Applied
  <2> QED BY <2>1, <2>2 DEF Keyed!Next, Keyed!Apply
<1> QED BY <1>1, <1>2, <1>3

---------------------------------------------------------------------------
(* The steps.                                                              *)

(* Steps of calls that leave the log and the wire alone. *)
LEMMA ClientMoves ==
  ASSUME CxBase, UNCHANGED <<wire, log, wal, records, claims, net, calls>>,
         NEW c \in Clients, Working(c), NEW x \in {Idle} \cup CallRec,
         call' = [call EXCEPT ![c] = x], x = Idle \/ (Moved(c) /\ Grounded(c)'),
         MaySend(c)' => MaySend(c),
         acked' \in [CxKeys -> Nat], \A k \in CxKeys : acked[k] <= acked'[k], AckedShown'
  PROVE  CxBase' /\ Quiet
<1>1. CallPart /\ LogPart /\ CallsOK
  BY BaseParts DEF CallPart
<1>2. call' \in [Clients -> {Idle} \cup CallRec]
  BY <1>1 DEF CallsOK
<1>3. \A d \in Clients : d # c => call'[d] = call[d]
  BY <1>1 DEF CallsOK
<1>4. call'[c] = x
  BY <1>1 DEF CallsOK
<1>5. \A d \in Clients : Stays(d)
  BY <1>3, <1>4 DEF Stays
<1>6. CallPart' /\ CallsOK'
  BY <1>1, <1>2, <1>5, CallsKept, SentKept DEF CallPart
<1>7. \A d \in Clients : Working(d)' => Grounded(d)'
  <2>1. ASSUME NEW d \in Clients, d # c, Working(d)' PROVE Grounded(d)'
    BY <2>1, <1>1, <1>3 DEF LogPart, Working, Grounded
  <2>2. Working(c)' => Grounded(c)'
    BY <1>4 DEF Working
  <2> QED BY <2>1, <2>2
<1>8. LogPart'
  BY <1>1, <1>7 DEF LogPart, LogOK
<1>9. Outstanding' \subseteq Outstanding
  <2>1. \A d \in Clients : MaySend(d)' => MaySend(d)
    BY <1>3 DEF MaySend, MayRetry, Retries
  <2> QED BY <1>1, <1>5, <1>6, <2>1, OutstandingShrinks, SentKept
<1>10. Stored' = Stored
  BY DEF Stored, Held
<1> QED
  BY <1>6, <1>8, <1>9, <1>10, BasePartsNext DEF Quiet

(* A call that returns without having written is gone. *)
LEMMA ClientLeaves ==
  ASSUME CxBase, UNCHANGED <<wire, log, wal, records, claims, net, calls, acked>>,
         NEW c \in Clients, Working(c), call' = [call EXCEPT ![c] = Idle]
  PROVE  CxBase' /\ Quiet
<1>1. CallsOK /\ AckedShown
  BY DEF CxBase
<1>2. ~MaySend(c)'
  BY <1>1 DEF CallsOK, MaySend, Idle
<1>3. acked' \in [CxKeys -> Nat] /\ (\A k \in CxKeys : acked[k] <= acked'[k]) /\ AckedShown'
  BY <1>1 DEF CallsOK, AckedShown
<1>4. PICK x \in {Idle} \cup CallRec : x = Idle /\ call' = [call EXCEPT ![c] = x]
  OBVIOUS
<1>5. x = Idle \/ (Moved(c) /\ Grounded(c)')
  BY <1>4
<1> QED BY <1>2, <1>3, <1>4, <1>5, ClientMoves

LEMMA ClientGoes ==
  ASSUME CxBase, UNCHANGED <<wire, log, wal, records, claims, net, calls, acked>>,
         NEW c \in Clients, Working(c), NEW x \in CallRec, call' = [call EXCEPT ![c] = x],
         Moved(c), Grounded(c)', MaySend(c)' => MaySend(c)
  PROVE  CxBase' /\ Quiet
<1>1. acked' \in [CxKeys -> Nat] /\ (\A k \in CxKeys : acked[k] <= acked'[k]) /\ AckedShown'
  BY DEF CxBase, CallsOK, AckedShown
<1> QED BY <1>1, ClientMoves

(* What an acknowledgement does to the caller's knowledge. *)
LEMMA AckedRaised ==
  ASSUME CallsOK, NEW c \in Clients, Working(c), NEW n \in Nat,
         acked' = [acked EXCEPT ![call[c].key] = IF n > @ THEN n ELSE @]
  PROVE  /\ acked' \in [CxKeys -> Nat]
         /\ \A k \in CxKeys : acked[k] <= acked'[k]
         /\ \A k \in CxKeys : acked'[k] = acked[k] \/ (k = call[c].key /\ acked'[k] = n)
<1>1. call[c].key \in CxKeys /\ acked \in [CxKeys -> Nat]
  BY WorkingTyped DEF CallRec, CallsOK
<1> QED BY <1>1

(* A call returns and acknowledges an event that is in the listing. *)
LEMMA ClientSucceeds ==
  ASSUME CxBase, UNCHANGED <<wire, log, wal, records, claims, net, calls>>,
         NEW c \in Clients, Working(c), NEW n \in Nat, Succeeds(c, n),
         n # 0 => \E e \in log : e.key = call[c].key /\ e.shown /\ e.at >= n
  PROVE  CxBase' /\ Quiet
<1>1. CallsOK /\ AckedShown
  BY DEF CxBase
<1>2. /\ acked' \in [CxKeys -> Nat]
      /\ \A k \in CxKeys : acked[k] <= acked'[k]
      /\ \A k \in CxKeys : acked'[k] = acked[k] \/ (k = call[c].key /\ acked'[k] = n)
  BY <1>1, AckedRaised DEF Succeeds
<1>3. AckedShown'
  BY <1>1, <1>2 DEF AckedShown
<1>4. ~MaySend(c)'
  BY <1>1 DEF CallsOK, MaySend, Idle, Succeeds
<1>5. PICK x \in {Idle} \cup CallRec : x = Idle /\ call' = [call EXCEPT ![c] = x]
  BY DEF Succeeds
<1>6. x = Idle \/ (Moved(c) /\ Grounded(c)')
  BY <1>5
<1> QED BY <1>2, <1>3, <1>4, <1>5, <1>6, ClientMoves

(* The call of a client at a step of its own. *)
LEMMA AtStep ==
  ASSUME CxBase, NEW c \in Clients, call[c].step # "idle"
  PROVE  /\ Working(c) /\ call[c] \in CallRec /\ Grounded(c)
         /\ call[c].attempt \in Nat /\ call[c].attempt <= WriteAttempts
         /\ call[c].step \in {"send", "list"} => call[c].attempt < WriteAttempts
<1>1. CallPart /\ LogPart /\ CallsOK
  BY BaseParts DEF CallPart
<1>2. Working(c) /\ call[c] \in CallRec
  BY <1>1, WorkingTyped
<1> QED BY <1>1, <1>2 DEF CallPart, LogPart, AttemptsOK, CallRec

LEMMA TimeOutStep ==
  ASSUME CxBase, NEW c \in Clients, TimeOut(c)
  PROVE  CxBase' /\ Quiet
<1>1. call[c].step = "wait" /\ UNCHANGED <<wire, log, wal, records, claims, net, calls, acked>>
  BY DEF TimeOut, Goes, Fails
<1>2. Working(c) /\ call[c] \in CallRec /\ Grounded(c)
  BY <1>1, AtStep
<1>3. CASE MayRetry(c)
  <2>1. PICK x \in CallRec : x = [call[c] EXCEPT !.step = "send"]
    BY <1>2 DEF CallRec, Steps
  <2>2. call' = [call EXCEPT ![c] = x]
    BY <2>1, <1>3 DEF TimeOut, Goes
  <2>3. call'[c] = x
    BY <2>2 DEF CxBase, CallsOK
  <2>4. x.step = "send" /\ x.ids = call[c].ids /\ x.key = call[c].key /\ x.attempt = call[c].attempt
        /\ x.kind = call[c].kind /\ x.id = call[c].id /\ x.val = call[c].val /\ x.floor = call[c].floor
    BY <1>2, <2>1 DEF CallRec
  <2>5. x.attempt \in Nat /\ x.attempt < WriteAttempts
    BY <1>2, <1>3, <2>4 DEF MayRetry, CallRec
  <2>6. Moved(c) /\ Grounded(c)'
    BY <1>1, <1>2, <2>3, <2>4, <2>5, CortexAssumption DEF Moved, Grounded
  <2>7. MaySend(c)
    BY <1>1, <1>3 DEF MaySend
  <2> QED BY <1>1, <1>2, <2>2, <2>6, <2>7, ClientGoes
<1>4. CASE ~MayRetry(c)
  BY <1>1, <1>2, <1>4, ClientLeaves DEF TimeOut, Fails
<1> QED BY <1>3, <1>4

LEMMA ConflictStep ==
  ASSUME CxBase, NEW c \in Clients, Conflict(c)
  PROVE  CxBase' /\ Quiet
<1>1. call[c].step = "conflict" /\ UNCHANGED <<wire, log, wal, records, claims, net, calls, acked>>
  BY DEF Conflict, Goes, Fails
<1>2. Working(c) /\ call[c] \in CallRec /\ Grounded(c) /\ call[c].attempt <= WriteAttempts
  BY <1>1, AtStep
<1>3. CASE Retries(c) /\ call[c].attempt > 1
  <2>1. PICK x \in CallRec : x = [call[c] EXCEPT !.step = "recover"]
    BY <1>2 DEF CallRec, Steps
  <2>2. call' = [call EXCEPT ![c] = x]
    BY <2>1, <1>3 DEF Conflict, Goes
  <2>3. call'[c] = x
    BY <2>2 DEF CxBase, CallsOK
  <2>4. x.step = "recover" /\ x.ids = call[c].ids /\ x.key = call[c].key /\ x.attempt = call[c].attempt
        /\ x.kind = call[c].kind /\ x.id = call[c].id /\ x.val = call[c].val /\ x.floor = call[c].floor
    BY <1>2, <2>1 DEF CallRec
  <2>5. Moved(c) /\ Grounded(c)'
    BY <1>1, <1>2, <2>3, <2>4 DEF Moved, Grounded
  <2>6. ~MaySend(c)'
    BY <2>3, <2>4 DEF MaySend
  <2> QED BY <1>1, <1>2, <2>2, <2>5, <2>6, ClientGoes
<1>4. CASE ~(Retries(c) /\ call[c].attempt > 1)
  BY <1>1, <1>2, <1>4, ClientLeaves DEF Conflict, Fails
<1> QED BY <1>3, <1>4

LEMMA RecoverStep ==
  ASSUME CxBase, NEW c \in Clients, recover_unknown_write(c)
  PROVE  CxBase' /\ Quiet
<1>1. Working(c)
  BY AtStep DEF recover_unknown_write
<1>2. PICK e \in events(call[c].key) : Succeeds(c, e.at)
  BY DEF recover_unknown_write
<1>3. e \in log /\ e.key = call[c].key /\ e.shown /\ e.at \in Nat
  BY <1>2 DEF events, CxBase, LogOK, Well, Events
<1>4. UNCHANGED <<wire, log, wal, records, claims, net, calls>>
  BY DEF recover_unknown_write
<1>5. PICK n \in Nat : n = e.at
  BY <1>3
<1> QED BY <1>1, <1>2, <1>3, <1>4, <1>5, ClientSucceeds

LEMMA ReturnStep ==
  ASSUME CxBase, NEW c \in Clients, Return(c)
  PROVE  CxBase' /\ Quiet
<1>1. Working(c)
  BY AtStep DEF Return
<1>2. PICK n \in Nat : n = 0
  OBVIOUS
<1>3. Succeeds(c, n) /\ UNCHANGED <<wire, log, wal, records, claims, net, calls>>
  BY <1>2 DEF Return
<1> QED BY <1>1, <1>2, <1>3, ClientSucceeds

LEMMA GiveUpStep ==
  ASSUME CxBase, NEW c \in Clients, GiveUp(c)
  PROVE  CxBase' /\ Quiet
<1>1. Working(c)
  BY AtStep DEF GiveUp
<1> QED BY <1>1, ClientLeaves DEF GiveUp, Fails

(* A forget goes on to remove what it listed once its tombstone is read; any
   other write returns. *)
LEMMA AwaitStep ==
  ASSUME CxBase, NEW c \in Clients, await_readable(c)
  PROVE  CxBase' /\ Quiet
<1>1. call[c].step = "await" /\ Readable(c)
      /\ UNCHANGED <<wire, log, wal, records, claims, net, calls>>
  BY DEF await_readable
<1>2. Working(c) /\ call[c] \in CallRec /\ Grounded(c) /\ call[c].attempt <= WriteAttempts
  BY <1>1, AtStep
<1>3. PICK e \in log : e.key = call[c].key /\ e.shown /\ e.at = call[c].at
  BY <1>1 DEF Readable, events
<1>4. e.at >= call[c].at
  BY <1>2, <1>3 DEF CallRec
<1>5. CASE call[c].kind = "delete"
  <2>1. PICK x \in CallRec : x = [call[c] EXCEPT !.step = "forget"]
    BY <1>2 DEF CallRec, Steps
  <2>2. call' = [call EXCEPT ![c] = x] /\ UNCHANGED acked
    BY <2>1, <1>5 DEF await_readable, Goes
  <2>3. call'[c] = x
    BY <2>2 DEF CxBase, CallsOK
  <2>4. x.step = "forget" /\ x.ids = call[c].ids /\ x.key = call[c].key /\ x.attempt = call[c].attempt
        /\ x.kind = call[c].kind /\ x.id = call[c].id /\ x.val = call[c].val /\ x.floor = call[c].floor
        /\ x.at = call[c].at
    BY <1>2, <2>1 DEF CallRec
  <2>5. Moved(c)
    BY <1>1, <1>2, <2>3, <2>4 DEF Moved
  <2>6. Grounded(c)'
    BY <1>1, <1>2, <1>3, <1>4, <2>3, <2>4 DEF Grounded
  <2>7. ~MaySend(c)'
    BY <2>3, <2>4 DEF MaySend
  <2> QED BY <1>1, <1>2, <2>2, <2>5, <2>6, <2>7, ClientGoes
<1>6. CASE call[c].kind # "delete"
  <2>1. PICK n \in Nat : n = call[c].at
    BY <1>2 DEF CallRec
  <2>2. Succeeds(c, n)
    BY <1>6, <2>1 DEF await_readable
  <2> QED BY <1>1, <1>2, <1>3, <1>4, <2>1, <2>2, ClientSucceeds
<1> QED BY <1>5, <1>6

(* A forget of a key that holds nothing returns; any other names the events
   of its key that the listing carries. *)
LEMMA DeleteListsStep ==
  ASSUME CxBase, NEW c \in Clients, DeleteLists(c)
  PROVE  CxBase' /\ Quiet
<1>1. call[c].step = "list" /\ call[c].kind = "delete"
      /\ UNCHANGED <<wire, log, wal, records, claims, net, calls, acked>>
  BY DEF DeleteLists
<1>2. Working(c) /\ call[c] \in CallRec /\ call[c].attempt \in Nat /\ call[c].attempt < WriteAttempts
  BY <1>1, AtStep
<1>3. CASE \A e \in events(call[c].key) : e.val = Tomb
  BY <1>1, <1>2, <1>3, ClientLeaves DEF DeleteLists
<1>4. CASE ~\A e \in events(call[c].key) : e.val = Tomb
  <2>0. {e.at : e \in events(call[c].key)} \subseteq Nat
    BY DEF events, CxBase, LogOK, Well, Events
  <2>1. PICK x \in CallRec :
          x = [call[c] EXCEPT !.step = "send", !.ids = {e.at : e \in events(call[c].key)}]
    BY <1>2, <2>0 DEF CallRec, Steps
  <2>2. call' = [call EXCEPT ![c] = x]
    BY <2>1, <1>4 DEF DeleteLists
  <2>3. call'[c] = x
    BY <2>2 DEF CxBase, CallsOK
  <2>4. x.step = "send" /\ x.ids = {e.at : e \in events(call[c].key)} /\ x.key = call[c].key
        /\ x.attempt = call[c].attempt
        /\ x.kind = call[c].kind /\ x.id = call[c].id /\ x.val = call[c].val /\ x.floor = call[c].floor
    BY <1>2, <2>1 DEF CallRec
  <2>5. Moved(c)
    BY <1>1, <1>2, <2>3, <2>4, CortexAssumption DEF Moved
  <2>6. \A i \in x.ids : i <= wal /\ \A e \in log : e.at = i => e.key = x.key
    BY <2>4 DEF events, CxBase, LogOK, Well
  <2>7. Grounded(c)'
    BY <1>1, <2>3, <2>4, <2>6 DEF Grounded
  <2>8. MaySend(c)
    BY <1>1 DEF MaySend
  <2> QED BY <1>1, <1>2, <2>2, <2>5, <2>7, <2>8, ClientGoes
<1> QED BY <1>3, <1>4

(* A listing shows every key at least as far as it was acknowledged. *)
LEMMA GetStep ==
  ASSUME CxBase, NEW c \in Clients, Get(c)
  PROVE  CxBase' /\ Quiet
<1>1. call[c].step = "list" /\ call[c].kind = "get"
      /\ UNCHANGED <<wire, log, wal, records, claims, net, calls, acked>>
  BY DEF Get
<1>2. Working(c) /\ call[c] \in CallRec /\ Grounded(c) /\ call[c].attempt <= WriteAttempts
  BY <1>1, AtStep
<1> DEFINE k == call[c].key
           S == events(k)
           n == fold(S)
<1>3. k \in CxKeys /\ acked[k] \in Nat /\ call[c].floor \in Nat /\ call[c].floor <= acked[k]
  BY <1>2 DEF CxBase, CallsOK, FloorOK, CallRec
<1>4. S \subseteq log /\ \A e \in S : e.at \in Nat
  BY DEF events, CxBase, LogOK, Well, Events
<1>5. n \in Nat /\ n >= call[c].floor
  <2>1. CASE S = {}
    <3>1. acked[k] = 0
      BY <1>3, <2>1 DEF CxBase, AckedShown, events
    <3> QED BY <1>3, <2>1, <3>1 DEF fold
  <2>2. CASE S # {}
    <3>1. Top(S) \in S /\ \A f \in S : f.at <= Top(S).at
      <4>1. Well(log, wal)
        BY DEF CxBase, LogOK
      <4> HIDE DEF S
      <4> QED BY <1>4, <2>2, <4>1, TopOf
    <3>2. acked[k] = 0 \/ \E e \in S : e.at >= acked[k]
      BY <1>3 DEF CxBase, AckedShown, events
    <3> HIDE DEF S
    <3> QED BY <1>3, <1>4, <2>2, <3>1, <3>2 DEF fold
  <2> QED BY <2>1, <2>2
<1> HIDE DEF n
<1>6. PICK x \in CallRec : x = [call[c] EXCEPT !.step = "answer", !.at = n]
  BY <1>2, <1>5 DEF CallRec, Steps
<1>7. call' = [call EXCEPT ![c] = x]
  BY <1>6 DEF Get, n
<1>8. call'[c] = x
  BY <1>7 DEF CxBase, CallsOK
<1>9. x.step = "answer" /\ x.ids = call[c].ids /\ x.key = call[c].key /\ x.attempt = call[c].attempt
      /\ x.kind = call[c].kind /\ x.id = call[c].id /\ x.val = call[c].val /\ x.floor = call[c].floor
      /\ x.at = n
  BY <1>2, <1>6 DEF CallRec
<1>10. Moved(c) /\ Grounded(c)'
  BY <1>1, <1>2, <1>5, <1>8, <1>9 DEF Moved, Grounded
<1>11. ~MaySend(c)'
  BY <1>8, <1>9 DEF MaySend
<1> QED BY <1>1, <1>2, <1>7, <1>10, <1>11, ClientGoes

(* A request that goes out was already one that might. *)
LEMMA SendStep ==
  ASSUME CxBase, NEW c \in Clients, Send(c)
  PROVE  CxBase' /\ Quiet
<1>1. call[c].step = "send" /\ UNCHANGED <<wire, log, wal, records, claims, calls, acked>>
      /\ Sent' = Sent \cup {Request(c)}
  BY SentAdds DEF Send
<1>2. Working(c) /\ call[c] \in CallRec /\ Grounded(c)
      /\ call[c].attempt \in Nat /\ call[c].attempt < WriteAttempts
  BY <1>1, AtStep
<1>0. PICK a \in Nat : a = call[c].attempt + 1
  BY <1>2
<1>3. PICK x \in CallRec : x = [call[c] EXCEPT !.step = "wait", !.attempt = a]
  BY <1>2 DEF CallRec, Steps
<1>4. call' = [call EXCEPT ![c] = x]
  BY <1>0, <1>3 DEF Send
<1>5. CallPart /\ LogPart /\ CallsOK
  BY BaseParts DEF CallPart
<1>6. call'[c] = x /\ call' \in [Clients -> {Idle} \cup CallRec]
      /\ \A d \in Clients : d # c => call'[d] = call[d]
  BY <1>4, <1>5 DEF CallsOK
<1>7. x.step = "wait" /\ x.ids = call[c].ids /\ x.key = call[c].key /\ x.attempt = call[c].attempt + 1
      /\ x.kind = call[c].kind /\ x.id = call[c].id /\ x.val = call[c].val /\ x.floor = call[c].floor
  BY <1>0, <1>2, <1>3 DEF CallRec
<1>8. Moved(c) /\ Grounded(c)'
  BY <1>1, <1>2, <1>6, <1>7, CortexAssumption DEF Moved, Grounded
<1>9. \A d \in Clients : Stays(d)
  BY <1>6, <1>8 DEF Stays
<1>10. CallPart' /\ CallsOK'
  <2>1. acked' \in [CxKeys -> Nat] /\ \A k \in CxKeys : acked[k] <= acked'[k]
    BY <1>1, <1>5 DEF CallsOK
  <2> QED BY <1>1, <1>2, <1>5, <1>6, <1>9, <2>1, CallsKept DEF CallPart
<1>11. LogPart'
  <2>1. ASSUME NEW d \in Clients, d # c, Working(d)' PROVE Grounded(d)'
    BY <2>1, <1>1, <1>5, <1>6 DEF LogPart, Working, Grounded
  <2>2. LogOK' /\ AckedShown'
    BY <1>1, <1>5 DEF LogPart, LogOK, AckedShown
  <2> QED BY <1>8, <2>1, <2>2 DEF LogPart
<1>12. Outstanding' \subseteq Outstanding
  <2>1. MaySend(c)
    BY <1>1 DEF MaySend
  <2>2. \A d \in Clients : MaySend(d)' => MaySend(d)
    BY <1>1, <1>6, <2>1 DEF MaySend, MayRetry, Retries
  <2> QED BY <1>1, <1>5, <1>9, <1>10, <2>1, <2>2, OutstandingShrinks
<1>13. Stored' = Stored
  BY <1>1 DEF Stored, Held
<1> QED
  BY <1>1, <1>10, <1>11, <1>12, <1>13, BasePartsNext DEF Quiet

LEMMA LoseStep ==
  ASSUME CxBase, NEW r \in Sent, NEW b \in BOOLEAN, Lose(r, b)
  PROVE  CxBase' /\ Quiet
<1>1. UNCHANGED <<wire, log, wal, records, call, calls, acked>> /\ Sent' \subseteq Sent
      /\ claims \subseteq claims'
  BY SentTakes DEF Lose
<1>2. CallPart /\ LogPart /\ CallsOK
  BY BaseParts DEF CallPart
<1>3. \A d \in Clients : Stays(d)
  BY <1>1 DEF Stays
<1>4. CallPart' /\ CallsOK'
  <2>1. acked' \in [CxKeys -> Nat] /\ \A k \in CxKeys : acked[k] <= acked'[k]
    BY <1>1, <1>2 DEF CallsOK
  <2>2. call' \in [Clients -> {Idle} \cup CallRec]
    BY <1>1, <1>2 DEF CallsOK
  <2> QED BY <1>1, <1>2, <1>3, <2>1, <2>2, CallsKept DEF CallPart
<1>5. LogPart'
  BY <1>1, <1>2 DEF LogPart, LogOK, AckedShown, Working, Grounded
<1>6. Outstanding' \subseteq Outstanding
  <2>1. \A d \in Clients : MaySend(d)' => MaySend(d)
    BY <1>1 DEF MaySend, MayRetry, Retries
  <2> QED BY <1>1, <1>2, <1>3, <1>4, <2>1, OutstandingShrinks
<1>7. Stored' = Stored
  BY <1>1 DEF Stored, Held
<1> QED
  BY <1>1, <1>4, <1>5, <1>6, <1>7, BasePartsNext DEF Quiet

(* An event that is indexed stays the event it was. *)
LEMMA IndexStep ==
  ASSUME CxBase, NEW e \in log, Index(e)
  PROVE  CxBase' /\ Quiet
<1>1. UNCHANGED <<wire, wal, records, claims, net, call, calls, acked>>
  BY DEF Index
<1>2. CallPart /\ LogPart /\ CallsOK /\ Well(log, wal)
  BY BaseParts DEF CallPart, LogPart, LogOK
<1>3. e \in Events
  BY <1>2 DEF Well
<1>4. PICK s \in Events : s = [e EXCEPT !.shown = TRUE]
  BY <1>3 DEF Events
<1>5. s.at = e.at /\ s.key = e.key /\ s.val = e.val /\ s.shown = TRUE
  BY <1>3, <1>4 DEF Events
<1>6. log' = (log \ {e}) \cup {s}
  BY <1>4 DEF Index
<1>7. Well(log', wal)
  BY <1>2, <1>5, <1>6 DEF Well
<1>8. \A f \in log : \E g \in log' : g.at = f.at /\ g.key = f.key /\ g.val = f.val /\ (f.shown => g.shown)
  BY <1>5, <1>6
<1>9. \A g \in log' : \E f \in log : f.at = g.at /\ f.key = g.key
  BY <1>5, <1>6
<1>10. LogPart'
  <2>1. AckedShown'
    BY <1>1, <1>2, <1>8 DEF LogPart, AckedShown
  <2>2. ASSUME NEW d \in Clients, Working(d)' PROVE Grounded(d)'
    <3>1. Grounded(d)
      BY <1>1, <1>2, <2>2 DEF LogPart, Working
    <3>2. \A g \in log' : g.at \in call[d].ids => g.key = call[d].key
      BY <1>9, <3>1 DEF Grounded
    <3>3. call[d].step \in {"await", "forget"} =>
            \E g \in log' : g.key = call[d].key /\ g.at >= call[d].at
      BY <1>8, <3>1 DEF Grounded
    <3>4. call[d].step = "forget" =>
            \E g \in log' : g.key = call[d].key /\ g.at >= call[d].at /\ g.shown
      BY <1>8, <3>1 DEF Grounded
    <3> QED BY <1>1, <3>1, <3>2, <3>3, <3>4 DEF Grounded
  <2> QED BY <1>1, <1>7, <2>1, <2>2 DEF LogPart, LogOK
<1>11. CallPart'
  <2>1. acked' \in [CxKeys -> Nat] /\ \A k \in CxKeys : acked[k] <= acked'[k]
    BY <1>1, <1>2 DEF CallsOK
  <2>2. call' \in [Clients -> {Idle} \cup CallRec] /\ \A d \in Clients : Stays(d)
    BY <1>1, <1>2 DEF CallsOK, Stays
  <2> QED BY <1>1, <1>2, <2>1, <2>2, CallsKept, SentKept
<1>12. Outstanding' = Outstanding
  BY <1>1 DEF Outstanding, Requests, Sent, Request, idempotency_key, MaySend, MayRetry, Retries, Live, Claimed
<1>13. Stored' = Stored
  <2>1. \A g \in log' : \E f \in log : f.key = g.key
    BY <1>9
  <2>2. ASSUME NEW f \in log, Newest(log, f)
        PROVE  \E g \in log' : Newest(log', g) /\ g.key = f.key /\ g.val = f.val
    <3>1. PICK g \in log' : g.at = f.at /\ g.key = f.key /\ g.val = f.val
      BY <1>8
    <3>2. Newest(log', g)
      BY <1>9, <2>2, <3>1 DEF Newest
    <3> QED BY <3>1, <3>2
  <2>3. PICK m : m = log'
    OBVIOUS
  <2>4. StoredIn(m) = StoredIn(log)
    BY <1>2, <1>7, <2>1, <2>2, <2>3, StoredSame
  <2>5. Stored' = StoredIn(log')
    BY DEF Stored, StoredIn, Held
  <2> QED BY <2>3, <2>4, <2>5, StoredInLog
<1> QED
  BY <1>1, <1>10, <1>11, <1>12, <1>13, BasePartsNext DEF Quiet

(* What a forget removes is never the newest of its key, and something as new
   as its tombstone stays in the listing. *)
LEMMA ForgetStep ==
  ASSUME CxBase, NEW c \in Clients, ForgetEvents(c)
  PROVE  CxBase' /\ Quiet
<1>1. call[c].step = "forget" /\ UNCHANGED <<wire, wal, records, claims, net, calls>>
      /\ call' = [call EXCEPT ![c] = Idle]
      /\ acked' = [acked EXCEPT ![call[c].key] = IF call[c].at > @ THEN call[c].at ELSE @]
      /\ log' = log \ Removed(c)
  BY DEF ForgetEvents, Succeeds
<1>2. Working(c) /\ call[c] \in CallRec /\ Grounded(c)
  BY <1>1, AtStep
<1>3. CallPart /\ LogPart /\ CallsOK /\ Well(log, wal)
  BY BaseParts DEF CallPart, LogPart, LogOK
<1>4. PICK n \in Nat, k \in CxKeys : n = call[c].at /\ k = call[c].key
  BY <1>2 DEF CallRec
<1>5. \A e \in log : e.at \in Nat /\ e.at <= wal
  BY <1>3 DEF Well, Events
<1>6. \A e \in Removed(c) : e.key = k /\ e.at < n
  BY <1>1, <1>2, <1>4 DEF Removed, Grounded
<1>7. PICK t \in log : t.key = k /\ t.at >= n /\ t.shown
  BY <1>1, <1>2, <1>4 DEF Grounded
<1>8. t \in log'
  BY <1>1, <1>5, <1>6, <1>7
<1>9. Well(log', wal)
  BY <1>1, <1>3 DEF Well
<1>10. /\ acked' \in [CxKeys -> Nat]
       /\ \A j \in CxKeys : acked[j] <= acked'[j]
       /\ \A j \in CxKeys : acked'[j] = acked[j] \/ (j = k /\ acked'[j] = n)
  <2>1. acked' = [acked EXCEPT ![call[c].key] = IF n > @ THEN n ELSE @]
    BY <1>1, <1>4
  <2> QED BY <1>2, <1>3, <1>4, <2>1, AckedRaised
<1>11. \A e \in log : e \in log' \/ (e.key = k /\ t.key = k /\ t.at >= e.at)
  BY <1>1, <1>4, <1>5, <1>6, <1>7
<1>12. AckedShown'
  <2>1. ASSUME NEW j \in CxKeys, acked'[j] # 0
        PROVE  \E e \in log' : e.key = j /\ e.shown /\ e.at >= acked'[j]
    <3>1. CASE acked'[j] = acked[j]
      <4>1. PICK e \in log : e.key = j /\ e.shown /\ e.at >= acked[j]
        BY <1>3, <2>1, <3>1 DEF LogPart, AckedShown
      <4>2. acked[j] \in Nat
        BY <1>3 DEF CallsOK
      <4> QED BY <1>5, <1>7, <1>8, <1>11, <3>1, <4>1, <4>2
    <3>2. CASE j = k /\ acked'[j] = n
      BY <1>7, <1>8, <3>2
    <3> QED BY <1>10, <3>1, <3>2
  <2> QED BY <2>1 DEF AckedShown
<1>13. call'[c] = Idle /\ \A d \in Clients : d # c => call'[d] = call[d]
  BY <1>1, <1>3 DEF CallsOK
<1>14. ASSUME NEW d \in Clients, Working(d)' PROVE Grounded(d)'
  <2>1. d # c /\ call'[d] = call[d]
    BY <1>13, <1>14 DEF Working
  <2>2. Grounded(d) /\ call[d] \in CallRec
    BY <1>3, <1>14, <2>1, WorkingTyped DEF LogPart, Working
  <2>3. PICK m \in Nat : m = call[d].at
    BY <2>2 DEF CallRec
  <2>4. call[d].step \in {"await", "forget"} => \E e \in log' : e.key = call[d].key /\ e.at >= call[d].at
    <3>1. ASSUME NEW e \in log, e.key = call[d].key, e.at >= m
          PROVE  \E f \in log' : f.key = call[d].key /\ f.at >= m
      BY <1>5, <1>7, <1>8, <1>11, <3>1
    <3> QED BY <2>2, <2>3, <3>1 DEF Grounded
  <2>5. call[d].step = "forget" => \E e \in log' : e.key = call[d].key /\ e.at >= call[d].at /\ e.shown
    <3>1. ASSUME NEW e \in log, e.key = call[d].key, e.at >= m, e.shown
          PROVE  \E f \in log' : f.key = call[d].key /\ f.at >= m /\ f.shown
      BY <1>5, <1>7, <1>8, <1>11, <3>1
    <3> QED BY <2>2, <2>3, <3>1 DEF Grounded
  <2> QED BY <1>1, <2>1, <2>2, <2>4, <2>5 DEF Grounded
<1>15. LogPart'
  BY <1>1, <1>9, <1>12, <1>14 DEF LogPart, LogOK
<1>16. \A d \in Clients : Stays(d)
  BY <1>13 DEF Stays
<1>17. CallPart' /\ CallsOK'
  <2>1. call' \in [Clients -> {Idle} \cup CallRec]
    BY <1>1, <1>3 DEF CallsOK
  <2> QED BY <1>1, <1>3, <1>10, <1>16, <2>1, CallsKept, SentKept DEF CallPart
<1>18. Outstanding' \subseteq Outstanding
  <2>1. \A d \in Clients : MaySend(d)' => MaySend(d)
    BY <1>1, <1>13 DEF MaySend, MayRetry, Retries, Idle
  <2> QED BY <1>1, <1>3, <1>16, <1>17, <2>1, OutstandingShrinks, SentKept
<1>19. Stored' = Stored
  <2>1. \A g \in log' : \E f \in log : f.key = g.key
    BY <1>1
  <2>2. ASSUME NEW f \in log, Newest(log, f)
        PROVE  \E g \in log' : Newest(log', g) /\ g.key = f.key /\ g.val = f.val
    <3>1. f \in log'
      <4>1. f.key = k => t.at <= f.at
        BY <1>7, <2>2 DEF Newest
      <4> QED BY <1>1, <1>5, <1>6, <1>7, <4>1
    <3>2. Newest(log', f)
      BY <1>1, <2>2, <3>1 DEF Newest
    <3> QED BY <3>1, <3>2
  <2>3. PICK m : m = log'
    OBVIOUS
  <2>4. StoredIn(m) = StoredIn(log)
    BY <1>3, <1>9, <2>1, <2>2, <2>3, StoredSame
  <2>5. Stored' = StoredIn(log')
    BY DEF Stored, StoredIn, Held
  <2> QED BY <2>3, <2>4, <2>5, StoredInLog
<1> QED
  BY <1>1, <1>15, <1>17, <1>18, <1>19, BasePartsNext DEF Quiet

(* A call begins under a number nobody has. *)
LEMMA BeginStep ==
  ASSUME CxBase, NEW c \in Clients, NEW kind \in Kinds, NEW key \in CxKeys, NEW val \in Vals,
         Begin(c, kind, key, val)
  PROVE  CxBase' /\ Begins
<1>1. calls' = calls + 1 /\ calls < MaxCalls /\ call[c].step = "idle"
      /\ UNCHANGED <<wire, log, wal, records, claims, net, acked>> /\ Sent' = Sent
  BY SentKept DEF Begin
<1>2. CallPart /\ LogPart /\ CallsOK /\ calls \in Nat
  BY BaseParts DEF CallPart, CallsOK
<1>3. ~Working(c) /\ call[c] = Idle
  BY <1>1, <1>2, WorkingTyped DEF Working
<1>4. PICK n \in Nat, f \in Nat, s \in Steps :
        /\ n = calls + 1 /\ f = acked[key]
        /\ s = IF kind \in {"get", "delete"} THEN "list" ELSE "send"
  <2>1. calls + 1 \in Nat /\ acked[key] \in Nat
    BY <1>2 DEF CallsOK
  <2>2. \E s \in Steps : s = IF kind \in {"get", "delete"} THEN "list" ELSE "send"
    BY DEF Steps
  <2> QED BY <2>1, <2>2
<1>5. PICK x \in CallRec :
        x = [kind |-> kind, id |-> n, key |-> key, attempt |-> 0, ids |-> {},
             val |-> val, at |-> 0, floor |-> f, step |-> s]
  BY DEF CallRec
<1>6. call' = [call EXCEPT ![c] = x]
  BY <1>4, <1>5 DEF Begin
<1>7. call'[c] = x /\ call' \in [Clients -> {Idle} \cup CallRec]
      /\ \A d \in Clients : d # c => call'[d] = call[d]
  BY <1>2, <1>6 DEF CallsOK
<1>8. x.id = calls + 1 /\ x.key = key /\ x.attempt = 0 /\ x.ids = {} /\ x.floor = acked[key]
      /\ x.step \in {"list", "send"}
  BY <1>4, <1>5
<1>9. \A d \in Clients : d # c => Request(d)' = Request(d) /\ (Working(d)' <=> Working(d))
                                  /\ (MaySend(d)' <=> MaySend(d))
  BY <1>1, <1>7 DEF Request, idempotency_key, Working, MaySend, MayRetry, Retries
<1>10. CallPart'
  <2>1. CallsOK'
    BY <1>1, <1>2, <1>7, CortexAssumption DEF CallsOK
  <2>2. IdsOK'
    <3>1. \A d \in Clients : Working(d)' => call'[d].id \in 1 .. calls'
      BY <1>1, <1>2, <1>7, <1>8, <1>9 DEF CallPart, IdsOK
    <3>2. \A d \in Clients : d # c /\ Working(d)' => call'[d].id # calls + 1
      BY <1>2, <1>7, <1>9 DEF CallPart, IdsOK
    <3>3. \A d, e \in Clients : Working(d)' /\ Working(e)' /\ call'[d].id = call'[e].id => d = e
      BY <1>2, <1>7, <1>8, <1>9, <3>2 DEF CallPart, IdsOK
    <3>4. \A r \in Sent : r.id # calls + 1
      BY <1>2 DEF CallsOK
    <3>5. \A r \in Sent, d \in Clients : Working(d)' /\ call'[d].id = r.id => r = Request(d)'
      BY <1>2, <1>7, <1>8, <1>9, <3>4 DEF CallPart, IdsOK
    <3> QED BY <1>1, <1>2, <3>1, <3>3, <3>5 DEF CallPart, IdsOK, Working
  <2>3. AttemptsOK'
    <3>1. \A d \in Clients : Working(d)' =>
            /\ call'[d].attempt <= WriteAttempts
            /\ call'[d].step \in {"send", "list"} => call'[d].attempt < WriteAttempts
      BY <1>2, <1>7, <1>8, <1>9, CortexAssumption DEF CallPart, AttemptsOK
    <3> QED BY <3>1 DEF AttemptsOK, Working
  <2>4. FloorOK'
    <3>1. \A d \in Clients : Working(d)' => call'[d].floor <= acked[call'[d].key]
      BY <1>2, <1>7, <1>8, <1>9 DEF CallPart, FloorOK, CallsOK
    <3> QED BY <1>1, <3>1 DEF FloorOK, Working
  <2>5. ReadsCurrent'
    <3>1. \A d \in Clients : call'[d].step = "answer" => call'[d].at >= call'[d].floor
      BY <1>2, <1>7, <1>8 DEF CallPart, ReadsCurrent
    <3> QED BY <3>1 DEF ReadsCurrent
  <2> QED BY <2>1, <2>2, <2>3, <2>4, <2>5 DEF CallPart
<1>11. LogPart'
  <2>1. Grounded(c)'
    BY <1>7, <1>8 DEF Grounded
  <2>2. ASSUME NEW d \in Clients, d # c, Working(d)' PROVE Grounded(d)'
    BY <2>2, <1>1, <1>2, <1>7, <1>9 DEF LogPart, Grounded
  <2> QED BY <1>1, <1>2, <2>1, <2>2 DEF LogPart, LogOK, AckedShown
<1>12. Stored' = Stored
  BY <1>1 DEF Stored, Held
<1>13. Outstanding' = Outstanding \/ \E p : p.id = calls + 1 /\ Outstanding' = Outstanding \cup {p}
  <2>1. ~MaySend(c)
    BY <1>3 DEF MaySend, Idle
  <2>2. PICK q : q = Request(c)'
    OBVIOUS
  <2>3. q.id = calls + 1
    BY <1>7, <1>8, <2>2 DEF Request
  <2>4. \A r : Live(r)' <=> Live(r)
    BY <1>1 DEF Live, Claimed
  <2>5. Requests' = Requests \/ Requests' = Requests \cup {q}
    BY <1>1, <1>9, <2>1, <2>2 DEF Requests
  <2>6. CASE Requests' = Requests
    BY <2>4, <2>6 DEF Outstanding
  <2>7. CASE Requests' = Requests \cup {q}
    <3>1. CASE Live(q)
      <4>1. PICK p : p = [id |-> q.id, key |-> q.key, val |-> q.val]
        OBVIOUS
      <4>2. Outstanding' = Outstanding \cup {p}
        BY <2>4, <2>7, <3>1, <4>1 DEF Outstanding
      <4> QED BY <2>3, <4>1, <4>2
    <3>2. CASE ~Live(q)
      BY <2>4, <2>7, <3>2 DEF Outstanding
    <3> QED BY <3>1, <3>2
  <2> QED BY <2>5, <2>6, <2>7
<1> QED
  BY <1>1, <1>10, <1>11, <1>12, <1>13, BasePartsNext DEF Begins

(* The answer a call gets to its request, if it still waits for one. *)
LEMMA AnswerMoves ==
  ASSUME CxBase, NEW r \in Sent, NEW b \in BOOLEAN, Arrive(r, b), NEW d \in Clients
  PROVE  \/ call'[d] = call[d]
         \/ call'[d] = Idle
         \/ /\ Moved(d) /\ call'[d].ids = call[d].ids
            /\ \/ call'[d].step = "conflict"
               \/ /\ call'[d].step = "await" /\ call'[d].at = wal + 1
                  /\ call[d].key = r.key
                  /\ r.idem \notin records /\ ~Claimed(r)
<1>1. CASE call'[d] = call[d]
  BY <1>1
<1>2. CASE call'[d] # call[d]
  <2>1. call[d].step = "wait" /\ call[d].id = r.id
    BY <1>2 DEF Arrive, Receive, Answered
  <2>2. Working(d) /\ call[d] \in CallRec /\ call[d].attempt <= WriteAttempts
    BY <2>1, AtStep
  <2>3. r = Request(d)
    BY <2>1, <2>2 DEF CxBase, IdsOK
  <2>4. r.key = call[d].key
    BY <2>3 DEF Request
  <2>5. PICK w \in Nat : w = wal + 1
    BY DEF CxBase, LogOK, Well
  <2>6. CASE Claimed(r)
    <3>1. PICK x \in CallRec : x = [call[d] EXCEPT !.step = "conflict", !.at = 0]
      BY <2>2 DEF CallRec, Steps
    <3>2. call'[d] = x
      BY <1>2, <2>1, <2>6, <3>1 DEF Arrive, Receive, Answered
    <3>3. x.step = "conflict" /\ x.ids = call[d].ids /\ x.key = call[d].key /\ x.attempt = call[d].attempt
          /\ x.kind = call[d].kind /\ x.id = call[d].id /\ x.val = call[d].val /\ x.floor = call[d].floor
      BY <2>2, <3>1 DEF CallRec
    <3> QED BY <2>2, <3>2, <3>3 DEF Moved
  <2>7. CASE ~Claimed(r) /\ r.idem \in records
    BY <1>2, <2>1, <2>7 DEF Arrive, Receive, Answered
  <2>8. CASE ~Claimed(r) /\ r.idem \notin records
    <3>1. PICK x \in CallRec : x = [call[d] EXCEPT !.step = "await", !.at = w]
      BY <2>2 DEF CallRec, Steps
    <3>2. call'[d] = x
      BY <1>2, <2>1, <2>5, <2>8, <3>1 DEF Arrive, Receive, Answered
    <3>3. x.step = "await" /\ x.ids = call[d].ids /\ x.key = call[d].key /\ x.attempt = call[d].attempt
          /\ x.kind = call[d].kind /\ x.id = call[d].id /\ x.val = call[d].val /\ x.floor = call[d].floor
          /\ x.at = wal + 1
      BY <2>2, <2>5, <3>1 DEF CallRec
    <3> QED BY <2>2, <2>4, <2>8, <3>2, <3>3 DEF Moved
  <2> QED BY <2>6, <2>7, <2>8
<1> QED BY <1>1, <1>2

(* A replay acknowledges nothing but an event of the listing. *)
LEMMA ReplayAcksShown ==
  ASSUME CxBase, NEW r \in Sent, NEW b \in BOOLEAN, Arrive(r, b)
  PROVE  /\ acked' \in [CxKeys -> Nat]
         /\ \A k \in CxKeys : acked[k] <= acked'[k]
         /\ \A k \in CxKeys : acked'[k] = acked[k]
              \/ \E e \in log : e.key = k /\ e.shown /\ e.at >= acked'[k]
         /\ acked' = acked \/ (~Claimed(r) /\ r.idem \in records)
<1> DEFINE S == {e \in events(r.key) : e.val = r.val}
           n == fold(S)
<1>1. acked \in [CxKeys -> Nat] /\ r.key \in CxKeys /\ Well(log, wal)
  BY DEF CxBase, CallsOK, LogOK
<1>2. n \in Nat /\ (n # 0 => \E e \in log : e.key = r.key /\ e.shown /\ e.at = n)
  <2>1. CASE S = {}
    BY <2>1 DEF fold
  <2>2. CASE S # {}
    <3>1. S \subseteq log /\ \A e \in S : e.key = r.key /\ e.shown
      BY DEF events
    <3>2. n = Top(S).at
      BY <2>2 DEF fold
    <3> HIDE DEF S
    <3>3. Top(S) \in S
      BY <1>1, <2>2, <3>1, TopOf
    <3> QED BY <1>1, <3>1, <3>2, <3>3 DEF Well, Events
  <2> QED BY <2>1, <2>2
<1>3. acked' = acked \/ (acked' = [acked EXCEPT ![r.key] = n] /\ n > acked[r.key]
                         /\ ~Claimed(r) /\ r.idem \in records)
  BY DEF Arrive, Receive, ReplayAcks
<1> HIDE DEF n
<1>4. CASE acked' = acked
  BY <1>1, <1>4
<1>5. CASE acked' = [acked EXCEPT ![r.key] = n] /\ n > acked[r.key] /\ ~Claimed(r) /\ r.idem \in records
  BY <1>1, <1>2, <1>5
<1> QED BY <1>3, <1>4, <1>5

(* A request arrives: it is appended, or it never will be. *)
LEMMA ArriveStep ==
  ASSUME CxBase, NEW r \in Sent, NEW b \in BOOLEAN, Arrive(r, b)
  PROVE  CxBase' /\ (Quiet \/ Applied)
<1>1. UNCHANGED <<wire, calls>> /\ Sent' \subseteq Sent /\ claims \subseteq claims'
      /\ records \subseteq records'
  BY SentTakes DEF Arrive, Receive, AppendEvent
<1>2. CallPart /\ LogPart /\ CallsOK /\ Well(log, wal)
  BY BaseParts DEF CallPart, LogPart, LogOK
<1>3. \A d \in Clients : Stays(d)
  BY AnswerMoves DEF Stays
<1>4. call' \in [Clients -> {Idle} \cup CallRec]
  <2>1. call' = [d \in Clients |-> call'[d]]
    BY <1>2 DEF Arrive, Receive, Answered, CallsOK
  <2>2. \A d \in Clients : call'[d] \in {Idle} \cup CallRec
    BY <1>2, <1>3 DEF Stays, Moved, CallsOK
  <2> QED BY <2>1, <2>2
<1>5. CallPart' /\ CallsOK'
  <2>1. acked' \in [CxKeys -> Nat] /\ \A k \in CxKeys : acked[k] <= acked'[k]
    BY ReplayAcksShown
  <2> QED BY <1>1, <1>2, <1>3, <1>4, <2>1, CallsKept DEF CallPart
<1>6. Outstanding' \subseteq Outstanding
  <2>1. \A d \in Clients : MaySend(d)' => MaySend(d)
    <3>1. ASSUME NEW d \in Clients, MaySend(d)' PROVE call'[d] = call[d]
      <4>1. call'[d].step \in {"send", "list", "wait"}
        BY <3>1 DEF MaySend
      <4> QED BY <4>1, AnswerMoves DEF Idle
    <3> QED BY <1>1, <3>1 DEF MaySend, MayRetry, Retries
  <2> QED BY <1>1, <1>2, <1>3, <1>5, <2>1, OutstandingShrinks
<1>7. CASE Claimed(r) \/ r.idem \in records
  <2>1. UNCHANGED <<log, wal>>
    BY <1>7 DEF Arrive, Receive, AppendEvent
  <2>2. ASSUME NEW d \in Clients, Working(d)' PROVE Grounded(d)'
    <3>1. Grounded(d)
      BY <1>2, <1>3, <2>2, SameRequest DEF LogPart
    <3>2. CASE call'[d] = call[d]
      BY <2>1, <3>1, <3>2 DEF Grounded
    <3>3. CASE Moved(d) /\ call'[d].ids = call[d].ids /\ call'[d].step = "conflict"
      BY <2>1, <3>1, <3>3 DEF Grounded, Moved
    <3> QED BY <1>7, <2>2, <3>2, <3>3, AnswerMoves DEF Working
  <2>3. LogPart'
    <3>1. AckedShown'
      BY <1>2, <2>1, ReplayAcksShown DEF LogPart, AckedShown
    <3> QED BY <1>1, <1>2, <2>1, <2>2, <3>1 DEF LogPart, LogOK
  <2>4. Stored' = Stored
    BY <2>1 DEF Stored, Held
  <2> QED BY <1>1, <1>5, <1>6, <2>1, <2>3, <2>4, BasePartsNext DEF Quiet
<1>8. CASE ~Claimed(r) /\ r.idem \notin records
  <2>0. r.key \in CxKeys /\ r.val \in Vals /\ r.id \in 1 .. calls
    BY <1>2 DEF CallsOK
  <2>1. PICK w \in Nat : w = wal + 1
    BY <1>2 DEF Well
  <2>2. PICK n \in Events : n = [at |-> w, key |-> r.key, val |-> r.val, shown |-> FALSE]
    BY <2>0 DEF Events
  <2>3. log' = log \cup {n} /\ wal' = wal + 1 /\ records' = records \cup {r.idem}
    BY <1>8, <2>1, <2>2 DEF Arrive, Receive, AppendEvent
  <2>4. n.at = wal + 1 /\ n.key = r.key /\ n.val = r.val
    BY <2>1, <2>2
  <2>5. wal \in Nat /\ \A e \in log : e.at \in Nat /\ e.at <= wal
    BY <1>2 DEF Well, Events
  <2>6. Well(log \cup {n}, wal + 1)
    BY <1>2, <2>4, <2>5 DEF Well
  <2>7. ASSUME NEW d \in Clients, Working(d)' PROVE Grounded(d)'
    <3>1. Grounded(d) /\ call[d] \in CallRec
      BY <1>2, <1>3, <2>7, SameRequest, WorkingTyped DEF LogPart
    <3>2. \A i \in call[d].ids : i \in Nat /\ i <= wal
      BY <3>1 DEF Grounded, CallRec
    <3>3. \A i \in call[d].ids : i <= wal + 1 /\ i < wal + 1
      BY <2>5, <3>2
    <3>4. \A e \in log' : e.at \in call[d].ids => e.key = call[d].key
      BY <2>3, <2>4, <3>1, <3>3 DEF Grounded
    <3>5. CASE call'[d] = call[d]
      BY <2>3, <3>1, <3>3, <3>4, <3>5 DEF Grounded
    <3>6. CASE Moved(d) /\ call'[d].ids = call[d].ids /\ call'[d].step = "conflict"
      BY <2>3, <3>1, <3>3, <3>4, <3>6 DEF Grounded, Moved
    <3>7. CASE Moved(d) /\ call'[d].ids = call[d].ids /\ call'[d].step = "await"
               /\ call'[d].at = wal + 1 /\ call[d].key = r.key
      <4>1. n \in log' /\ n.key = call[d].key /\ n.at >= wal + 1
        BY <2>3, <2>4, <2>5, <3>7
      <4> QED BY <2>3, <3>1, <3>3, <3>4, <3>7, <4>1 DEF Grounded, Moved
    <3> QED BY <2>7, <3>5, <3>6, <3>7, AnswerMoves DEF Working
  <2>8. LogPart'
    <3>1. AckedShown'
      BY <1>2, <1>8, <2>3, ReplayAcksShown DEF LogPart, AckedShown
    <3> QED BY <2>3, <2>6, <2>7, <3>1 DEF LogPart, LogOK
  <2>9. Applied
    <3>1. PICK p : p = [id |-> r.id, key |-> r.key, val |-> r.val]
      OBVIOUS
    <3>2. p \in Outstanding
      BY <1>8, <3>1 DEF Outstanding, Requests, Live
    <3>3. Stored' = [Stored EXCEPT ![p.key] = p.val]
      <4>1. StoredIn(log \cup {n}) = [StoredIn(log) EXCEPT ![n.key] = n.val]
        BY <1>2, <2>4, <2>6, StoredAppend
      <4>2. Stored' = StoredIn(log')
        BY DEF Stored, StoredIn, Held
      <4> QED BY <2>3, <2>4, <3>1, <4>1, <4>2, StoredInLog
    <3>4. \A q \in Requests' : Live(q)' => q.id # r.id
      <4>1. \A q \in Sent' : q.id = r.id => ~Live(q)'
        BY <1>1, <1>2, <2>3 DEF CallPart, IdsOK, Live
      <4>2. ASSUME NEW d \in Clients, NEW q, MaySend(d)', q = Request(d)', q.id = r.id PROVE ~Live(q)'
        <5>1. Working(d)'
          BY <1>5, <4>2 DEF CallsOK, Working, CallRec, Steps, Idle, MaySend
        <5>2. Working(d) /\ Request(d)' = Request(d)
          BY <1>3, <5>1, SameRequest
        <5>3. Request(d).id = call[d].id
          BY DEF Request
        <5>4. Request(d) = r
          BY <1>2, <4>2, <5>2, <5>3 DEF CallPart, IdsOK
        <5> QED BY <2>3, <4>2, <5>2, <5>4 DEF Live
      <4> QED BY <4>1, <4>2 DEF Requests
    <3>5. \A q \in Outstanding' : q.id # p.id
      BY <3>1, <3>4 DEF Outstanding
    <3> QED BY <1>1, <1>6, <2>3, <3>2, <3>3, <3>5 DEF Applied
  <2> QED BY <1>5, <2>8, <2>9, BasePartsNext
<1> QED BY <1>7, <1>8

---------------------------------------------------------------------------
(* The results.                                                            *)

LEMMA NextStep ==
  ASSUME CxInv, CxNext
  PROVE  CxBase' /\ (Quiet \/ Begins \/ Applied)
<1>0. CxBase
  BY DEF CxInv
<1>1. ASSUME NEW c \in Clients, Calls(c) PROVE CxBase' /\ Begins
  <2>1. PICK key \in CxKeys :
          \/ get(c, key) \/ delete(c, key)
          \/ \E val \in CxValues :
                 \/ upsert(c, key, val) \/ ingest_event(c, key, val)
                 \/ ingest_document(c, key, val) \/ ingest_learning(c, key, val)
    BY <1>1 DEF Calls
  <2>2. PICK kind \in Kinds, val \in Vals : Begin(c, kind, key, val)
    <3>1. "get" \in Kinds /\ "delete" \in Kinds /\ "upsert" \in Kinds /\ "ingest" \in Kinds
          /\ "event" \in Kinds /\ Tomb \in Vals /\ CxValues \subseteq Vals
      BY DEF Kinds, Vals
    <3> QED BY <2>1, <3>1 DEF get, delete, upsert, ingest_event, ingest_document, ingest_learning
  <2> QED BY <1>0, <2>2, BeginStep
<1>2. ASSUME NEW c \in Clients, ClientStep(c) PROVE CxBase' /\ Quiet
  <2>1. CASE Send(c)
    BY <1>0, <2>1, SendStep
  <2>2. CASE TimeOut(c)
    BY <1>0, <2>2, TimeOutStep
  <2>3. CASE Conflict(c)
    BY <1>0, <2>3, ConflictStep
  <2>4. CASE recover_unknown_write(c)
    BY <1>0, <2>4, RecoverStep
  <2>5. CASE await_readable(c)
    BY <1>0, <2>5, AwaitStep
  <2>6. CASE GiveUp(c)
    BY <1>0, <2>6, GiveUpStep
  <2>7. CASE DeleteLists(c)
    BY <1>0, <2>7, DeleteListsStep
  <2>8. CASE ForgetEvents(c)
    BY <1>0, <2>8, ForgetStep
  <2>9. CASE Get(c)
    BY <1>0, <2>9, GetStep
  <2>10. CASE Return(c)
    BY <1>0, <2>10, ReturnStep
  <2> QED
    BY <1>2, <2>1, <2>2, <2>3, <2>4, <2>5, <2>6, <2>7, <2>8, <2>9, <2>10 DEF ClientStep
<1>3. ASSUME NEW r \in Sent, NEW b \in BOOLEAN, Arrive(r, b) PROVE CxBase' /\ (Quiet \/ Applied)
  BY <1>0, <1>3, ArriveStep
<1>4. ASSUME NEW r \in Sent, NEW b \in BOOLEAN, Lose(r, b) PROVE CxBase' /\ Quiet
  BY <1>0, <1>4, LoseStep
<1>5. ASSUME NEW e \in log, Index(e) PROVE CxBase' /\ Quiet
  BY <1>0, <1>5, IndexStep
<1> QED
  BY <1>1, <1>2, <1>3, <1>4, <1>5 DEF CxNext

LEMMA StutterStep ==
  ASSUME CxInv, UNCHANGED cxVars
  PROVE  CxInv' /\ UNCHANGED <<Stored, 1 .. calls, Outstanding>>
<1>1. UNCHANGED <<wire, log, wal, records, claims, net, call, calls, acked>>
  BY DEF cxVars
<1>2. Outstanding' = Outstanding
  BY <1>1 DEF Outstanding, Requests, Sent, Request, idempotency_key, MaySend, MayRetry, Retries, Live, Claimed
<1>3. Stored' = Stored
  BY <1>1 DEF Stored, Held
<1>4. Room'
  BY <1>1, <1>2 DEF CxInv, Room
<1>5. CallPart'
  <2>1. CallPart /\ CallsOK
    BY BaseParts DEF CxInv, CallPart
  <2>2. call' \in [Clients -> {Idle} \cup CallRec] /\ \A d \in Clients : Stays(d)
    BY <1>1, <2>1 DEF CallsOK, Stays
  <2>3. acked' \in [CxKeys -> Nat] /\ \A k \in CxKeys : acked[k] <= acked'[k]
    BY <1>1, <2>1 DEF CallsOK
  <2> QED BY <1>1, <2>1, <2>2, <2>3, CallsKept, SentKept
<1>6. LogPart'
  <2>1. LogPart
    BY BaseParts DEF CxInv
  <2> QED BY <1>1, <2>1 DEF LogPart, LogOK, AckedShown, Working, Grounded
<1> QED
  BY <1>1, <1>2, <1>3, <1>4, <1>5, <1>6, BasePartsNext DEF CxInv

LEMMA CxStart ==
  ASSUME CxInit
  PROVE  CxInv /\ Keyed!Init
<1>1. \A c \in Clients : call[c] = Idle /\ ~Working(c) /\ ~MaySend(c)
  BY DEF CxInit, Working, MaySend, Idle
<1>2. Outstanding = {} /\ 1 .. calls = {}
  BY <1>1 DEF CxInit, Outstanding, Requests, Sent, EmptyBag, SetToBag, BagToSet
<1>3. CallPart
  BY <1>1, CortexAssumption
     DEF CxInit, Sent, EmptyBag, SetToBag, BagToSet, CallPart, CallsOK, IdsOK, AttemptsOK, FloorOK, ReadsCurrent, Idle
<1>4. LogPart
  BY <1>1 DEF CxInit, LogPart, LogOK, Well, AckedShown
<1>5. Room
  <2>1. {p.id : p \in Outstanding} = {}
    BY <1>2
  <2>2. Cardinality({p.id : p \in Outstanding}) = 0
    BY <2>1, FS_EmptySet
  <2> QED BY <2>2 DEF CxInit, Room
<1> QED
  BY <1>2, <1>3, <1>4, <1>5, BaseParts DEF CxInv, Keyed!Init

THEOREM CortexInvariant == CxSpec => []CxInv
<1>1. CxInit => CxInv
  BY CxStart
<1>2. CxInv /\ [CxNext]_cxVars => CxInv'
  <2>1. ASSUME CxInv, CxNext PROVE CxInv'
    BY <2>1, NextStep, RoomKept DEF CxInv
  <2>2. ASSUME CxInv, UNCHANGED cxVars PROVE CxInv'
    BY <2>2, StutterStep
  <2> QED BY <2>1, <2>2
<1> QED
  BY <1>1, <1>2, PTL DEF CxSpec

(* Read after write: however late the log is indexed, however many requests
   are lost, doubled or overtaken and whatever other calls remove, a read that
   begins after a write of its key was acknowledged answers with that write or
   a newer one; and the log has one event per offset and never more than there
   were calls. *)
THEOREM LogCorrect == CxSpec => []LogSound
<1>1. CxInv => LogSound
  <2>1. SUFFICES ASSUME CxInv PROVE LogSound
    OBVIOUS
  <2>2. CallPart /\ LogPart /\ CallsOK /\ Well(log, wal) /\ calls \in Nat /\ calls <= MaxCalls
    BY <2>1, BaseParts DEF CxInv, CallPart, LogPart, LogOK, CallsOK
  <2>3. wal <= MaxCalls
    <3> DEFINE I == {p.id : p \in Outstanding}
    <3>1. I \subseteq 1 .. calls
      BY <2>2, OutstandingIds
    <3>2. wal + Cardinality(I) <= calls
      BY <2>1 DEF CxInv, Room
    <3> HIDE DEF I
    <3>3. 1 \in Int /\ calls \in Int
      BY <2>2
    <3>4. Cardinality(I) \in Nat
      BY <3>1, <3>3, FS_Interval, FS_Subset, FS_CardinalityType
    <3> QED BY <2>2, <3>2, <3>4, CortexAssumption DEF Well
  <2>4. log \subseteq Event /\ wal \in 0 .. MaxCalls
    BY <2>2, <2>3, CortexAssumption DEF Well, Events, Event, Vals
  <2>5. \A c \in Clients :
          /\ call[c].kind # "idle" => call[c].attempt <= WriteAttempts
          /\ call[c].step \in {"idle", "send", "wait", "await", "conflict", "recover", "list",
                                "forget", "answer"}
    BY <2>2 DEF CallsOK, CallPart, AttemptsOK, Working, Idle, CallRec, Steps
  <2>6. CxTypeOK
    BY <2>2, <2>4, <2>5 DEF CxTypeOK, Well
  <2> QED BY <2>2, <2>6 DEF CallPart, LogSound
<1> QED
  BY <1>1, CortexInvariant, PTL

(* The event log implements the keyed memory: a store, an ingest and a forget
   take effect at the instant their event is appended and at most once,
   however often the request is sent and however late it arrives, and neither
   indexing nor the removal of listed events ever changes what a key holds. *)
THEOREM CortexImplementsKeyedStore == CxSpec => AppendsOnce
<1>1. CxInit => Keyed!Init
  BY CxStart
<1>2. CxInv /\ [CxNext]_cxVars => [Keyed!Next]_<<Stored, 1 .. calls, Outstanding>>
  <2>1. ASSUME CxInv, CxNext PROVE Keyed!Next
    BY <2>1, NextStep, KeyedStep
  <2>2. ASSUME CxInv, UNCHANGED cxVars PROVE UNCHANGED <<Stored, 1 .. calls, Outstanding>>
    BY <2>2, StutterStep
  <2> QED BY <2>1, <2>2
<1> QED
  BY <1>1, <1>2, CortexInvariant, PTL DEF CxSpec, AppendsOnce, Keyed!Spec

-----------------------------------------------------------------------------
(* The keyed drivers over services that know nothing of keys.  A write on its *)
(* way is awaited by the call that sent it, or that call gave up on it.  So a *)
(* key nobody raced for, and none of whose writes went unanswered, has at     *)
(* most one call at work on it, and what is on its way for the key is that    *)
(* call's; what the lookup found is then still what is stored.                *)

Writers == {"upsert", "delete"}

Writes(c, key) == req[c].kind \in Writers /\ req[c].key = key

RecordSet == [id : Nat, key : RemoteKeys, no : Nat]

RkSteps == {"rest", "lookup", "answer", "add", "replace", "remove", "writing", "removing"}

CallSet ==
  [kind : {"none", "get", "upsert", "delete"}, key : RemoteKeys \cup {Resting.key}, no : Nat, step : RkSteps,
   tried : Nat, id : Nat, offset : Nat, hits : SUBSET RecordSet]

WireSet == [op : {"add", "replace", "remove"}, id : Nat, key : RemoteKeys, no : Nat]

RkTyped ==
  /\ service \in Services
  /\ held \subseteq RecordSet /\ lastId \in Nat
  /\ wires \subseteq WireSet
  /\ req \in [Callers -> CallSet]
  /\ begun \in 0 .. MaxBegun
  /\ expected \in [RemoteKeys -> Nat]

\* Ids are given out once.
IdsUnique ==
  /\ \A r \in held : r.id \in 1 .. lastId /\ r.no \in 1 .. MaxBegun + 1
  /\ \A r, q \in held : r.id = q.id => r = q

\* What a call may be doing.
CallOK(x) ==
  /\ x.tried < MaxAttempts /\ x.no <= begun
  /\ x.step = "rest" => x = Resting
  /\ x.step # "rest" => x.kind # "none" /\ x.key \in RemoteKeys /\ x.no > 0
  /\ x.step \in {"add", "replace", "writing"} => x.kind = "upsert"
  /\ x.step \in {"remove", "removing"} => x.kind \in Writers /\ x.id > 0
  /\ x.step \in {"remove", "removing"} /\ x.kind = "upsert" => service = "agentmemory"
  /\ x.step = "replace" => service # "agentmemory" /\ x.id > 0
  /\ x.step = "answer" => x.kind = "get"
  /\ x.step = "lookup" => x.id = 0
  /\ x.step = "add" /\ x.id # 0 => service = "agentmemory"
  /\ service \notin {"agentmemory", "supermemory"} => x.offset = 0 /\ x.hits = {}

CallsSound == \A c \in Callers : CallOK(req[c])

\* A number tells calls apart.
NosUnique == \A c, d \in Callers : req[c].no = req[d].no /\ req[c].no > 0 => c = d

\* The id a call works on, and those it has found so far, are its key's.
IdsFit(x) ==
  /\ x.id <= lastId
  /\ \A r \in held : x.id = r.id => x.key = r.key
  /\ \A h \in x.hits : /\ h.key = x.key /\ h.id \in 1 .. lastId
                        /\ \A r \in held : h.id = r.id => r.key = h.key

IdsOfCalls == \A c \in Callers : IdsFit(req[c])

WireOK(w) ==
  /\ w.id <= lastId /\ (w.op # "add" => w.id > 0) /\ w.no \in 1 .. begun
  /\ \A r \in held : w.id = r.id => w.key = r.key
  /\ w.op = "replace" => service # "agentmemory"
  /\ w.op = "add" /\ w.id # 0 => service = "agentmemory"

IdsOfWires == \A w \in wires : WireOK(w)

\* A write on its way belongs to the call with its number, or is unanswered.
WiresOwned ==
  \A w \in wires :
    /\ \A c \in Callers : req[c].no = w.no => Waits(c, w) /\ req[c].key = w.key /\ req[c].id = w.id
    /\ \A v \in wires : v.no = w.no => v = w
    /\ \/ \E c \in Callers : req[c].no = w.no
       \/ <<w.key, IF w.op = "remove" THEN "removing" ELSE "writing">> \in unanswered

OneWriter ==
  \A key \in RemoteKeys : key \notin raced =>
    \A c, d \in Callers : Writes(c, key) /\ Writes(d, key) => c = d

Clean(key) == key \notin raced /\ key \notin shifted /\ ~\E u \in unanswered : u[1] = key

\* The key was forgotten, or lost its record to a store that failed half-way.
Emptied(key) == expected[key] = 0 \/ (service = "agentmemory" /\ key \in torn)

\* The key holds what was last acknowledged, once.
Exact(key) ==
  /\ \A r, q \in Records(key) : r = q
  /\ \A r \in Records(key) : r.no = expected[key]
  /\ Records(key) = {} => Emptied(key)

\* The lookup has seen the records of its key up to its offset, and records that
\* are added only move the others further down the listing.
Seen(x) ==
  /\ x.hits \subseteq Records(x.key)
  /\ \A r \in Records(x.key) : Place(r) <= x.offset => r \in x.hits

LookupKnows ==
  \A c \in Callers : req[c].step = "lookup" /\ Clean(req[c].key) /\ req[c].kind \in Writers => Seen(req[c])

Carries(c, op) == \E w \in wires : w.no = req[c].no /\ w.op = op

\* The call is about to add a record, or to change the one it found.
AddAhead(c) == req[c].step = "add" \/ Carries(c, "add")

ChangeAhead(c) == req[c].step \in {"replace", "remove"} \/ Carries(c, "replace") \/ Carries(c, "remove")

\* What a clean key holds, by how far its writer has got.
KeyOK(key) ==
  Clean(key) =>
    /\ (\A c \in Callers : ~Writes(c, key)) => Exact(key)
    /\ \A c \in Callers : Writes(c, key) =>
         /\ req[c].step = "lookup" => Exact(key)
         /\ ChangeAhead(c) => Exact(key) /\ \E r \in Records(key) : r.id = req[c].id
         /\ AddAhead(c) => Records(key) = {} /\ (req[c].id = 0 => Emptied(key))

KeyFollowsWriter == \A key \in RemoteKeys : KeyOK(key)

\* A delete whose request the service has acted on, or that was lost.
Removing(c, key) ==
  Writes(c, key) /\ req[c].kind = "delete" /\ req[c].step = "removing" /\ ~Carries(c, "remove")

\* Where the service updates in place, only a removal takes the record of a key.
KeptOK(key) ==
  /\ service # "agentmemory" /\ expected[key] # 0
  /\ <<key, "removing">> \notin unanswered
  => Records(key) # {} \/ \E c \in Callers : Removing(c, key)

OnlyRemovalEmpties == \A key \in RemoteKeys : KeptOK(key)

RkInv ==
  /\ RkTyped /\ IdsUnique /\ CallsSound /\ NosUnique /\ IdsOfCalls /\ IdsOfWires /\ WiresOwned /\ OneWriter
  /\ LookupKnows /\ KeyFollowsWriter /\ OnlyRemovalEmpties

\* A caller at rest has a call without a number, an id or pages read.
LEMMA RestingFields ==
  /\ Resting.kind = "none" /\ Resting.no = 0 /\ Resting.step = "rest" /\ Resting.tried = 0
  /\ Resting.id = 0 /\ Resting.offset = 0 /\ Resting.hits = {} /\ Resting \in CallSet
BY DEF Resting, CallSet, RkSteps

\* A caller at rest is always in order.
LEMMA RestingOK == ASSUME RkInv PROVE CallOK(Resting) /\ IdsFit(Resting)
<1>1. MaxAttempts > 0 /\ begun \in Nat /\ lastId \in Nat /\ \A r \in held : r.id \in 1 .. lastId
  BY RemoteAssumption DEF RkInv, RkTyped, IdsUnique
<1>2. 0 <= begun /\ 0 <= lastId /\ 0 < MaxAttempts /\ \A r \in held : r.id # 0
  BY <1>1, RemoteAssumption
<1> QED BY <1>2, RestingFields DEF CallOK, IdsFit, Writers

\* Replacing what one caller is doing.
LEMMA CallStep ==
  ASSUME RkInv, NEW c \in Callers, NEW x \in CallSet, req' = [req EXCEPT ![c] = x]
  PROVE  /\ req' \in [Callers -> CallSet] /\ req'[c] = x
         /\ \A d \in Callers : d # c => req'[d] = req[d]
BY DEF RkInv, RkTyped

\* What the invariant says of one caller.
LEMMA CallFacts ==
  ASSUME RkInv, NEW c \in Callers
  PROVE  req[c] \in CallSet /\ CallOK(req[c]) /\ IdsFit(req[c]) /\ req \in [Callers -> CallSet]
BY DEF RkInv, RkTyped, CallsSound, IdsOfCalls

\* A call without a write on its way goes on, or ends: the rest is as it was.
LEMMA CallMoves ==
  ASSUME RkInv, UNCHANGED <<service, held, lastId, wires, begun, expected, raced, unanswered, torn, shifted>>,
         NEW c \in Callers, NEW x \in CallSet, req' = [req EXCEPT ![c] = x],
         req[c].step \notin {"writing", "removing"}, x.step \notin {"writing", "removing"},
         CallOK(x), IdsFit(x),
         x = Resting \/ (x.key = req[c].key /\ x.kind = req[c].kind /\ x.no = req[c].no),
         x.step = "lookup" /\ Clean(x.key) /\ x.kind \in Writers => Seen(x),
         Clean(req[c].key) /\ Writes(c, req[c].key) =>
           /\ x = Resting => Exact(req[c].key)
           /\ x.step = "lookup" => Exact(req[c].key)
           /\ x.step \in {"replace", "remove"} => Exact(req[c].key) /\ \E r \in Records(req[c].key) : r.id = x.id
           /\ x.step = "add" => Records(req[c].key) = {} /\ (x.id = 0 => Emptied(req[c].key))
  PROVE  RkInv'
<1>1. /\ req' \in [Callers -> CallSet] /\ req'[c] = x
      /\ \A d \in Callers : d # c => req'[d] = req[d]
  BY CallStep
<1>2. \A key : (Clean(key)' <=> Clean(key)) /\ Records(key)' = Records(key)
               /\ (Exact(key)' <=> Exact(key)) /\ (Emptied(key)' <=> Emptied(key))
  BY DEF Clean, Records, Exact, Emptied
<1>3. RkTyped' /\ IdsUnique'
  BY <1>1 DEF RkInv, RkTyped, IdsUnique
<1>4. CallsSound'
  <2>1. \A y : CallOK(y)' <=> CallOK(y)
    BY DEF CallOK
  <2> QED BY <1>1, <2>1 DEF RkInv, CallsSound
<1>5. NosUnique'
  BY <1>1, RestingFields DEF RkInv, NosUnique
<1>6. IdsOfCalls' /\ IdsOfWires'
  <2>1. \A y : (IdsFit(y)' <=> IdsFit(y)) /\ (WireOK(y)' <=> WireOK(y))
    BY DEF IdsFit, WireOK
  <2> QED BY <1>1, <2>1 DEF RkInv, IdsOfCalls, IdsOfWires
<1>7. \A w \in wires : w.no # req[c].no /\ w.no # x.no
  <2>1. \A w \in wires : w.no # req[c].no
    BY DEF RkInv, WiresOwned, Waits
  <2>2. \A w \in wires : w.no # 0
    BY DEF RkInv, IdsOfWires, WireOK
  <2> QED BY <2>1, <2>2, RestingFields
<1>8. WiresOwned'
  <2>1. SUFFICES ASSUME NEW w \in wires
                 PROVE  /\ \A d \in Callers : req'[d].no = w.no =>
                             Waits(d, w)' /\ req'[d].key = w.key /\ req'[d].id = w.id
                        /\ \A v \in wires : v.no = w.no => v = w
                        /\ \/ \E d \in Callers : req'[d].no = w.no
                           \/ <<w.key, IF w.op = "remove" THEN "removing" ELSE "writing">> \in unanswered
    BY DEF WiresOwned
  <2>2. ASSUME NEW d \in Callers, req'[d].no = w.no
        PROVE  Waits(d, w)' /\ req'[d].key = w.key /\ req'[d].id = w.id
    <3>1. d # c /\ req'[d] = req[d]
      BY <1>1, <1>7, <2>2
    <3>2. Waits(d, w) /\ req[d].key = w.key /\ req[d].id = w.id
      BY <2>2, <3>1 DEF RkInv, WiresOwned
    <3> QED BY <3>1, <3>2 DEF Waits
  <2>3. \A v \in wires : v.no = w.no => v = w
    BY DEF RkInv, WiresOwned
  <2>4. \A d \in Callers : req[d].no = w.no => req'[d].no = w.no
    BY <1>1, <1>7
  <2> QED BY <2>2, <2>3, <2>4 DEF RkInv, WiresOwned
<1>9. \A d \in Callers : \A key : Writes(d, key)' => Writes(d, key)
  BY <1>1, RestingFields DEF Writes, Writers
<1>10. OneWriter'
  BY <1>9 DEF RkInv, OneWriter
<1>11. \A d \in Callers : \A op : (d # c => (Carries(d, op)' <=> Carries(d, op))) /\ ~Carries(c, op)'
  BY <1>1, <1>7 DEF Carries
<1>12. LookupKnows'
  <2>1. \A r : Place(r)' = Place(r)
    BY DEF Place
  <2>2. SUFFICES ASSUME NEW d \in Callers, req'[d].step = "lookup", Clean(req'[d].key), req'[d].kind \in Writers
                 PROVE  /\ req'[d].hits \subseteq Records(req'[d].key)
                        /\ \A r \in Records(req'[d].key) : Place(r) <= req'[d].offset => r \in req'[d].hits
    BY <1>2, <2>1 DEF LookupKnows, Seen
  <2> QED BY <1>1, <2>2 DEF RkInv, LookupKnows, Seen
<1>13. KeyFollowsWriter'
  <2>1. SUFFICES ASSUME NEW key \in RemoteKeys, Clean(key)
                 PROVE  /\ (\A d \in Callers : ~Writes(d, key)') => Exact(key)
                        /\ \A d \in Callers : Writes(d, key)' =>
                             /\ req'[d].step = "lookup" => Exact(key)
                             /\ ChangeAhead(d)' => Exact(key) /\ \E r \in Records(key) : r.id = req'[d].id
                             /\ AddAhead(d)' => Records(key) = {} /\ (req'[d].id = 0 => Emptied(key))
    BY <1>2 DEF KeyFollowsWriter, KeyOK
  <2>2. ASSUME \A d \in Callers : ~Writes(d, key)' PROVE Exact(key)
    <3>1. CASE Writes(c, key)
      <4>1. req[c].key = key
        BY <3>1 DEF Writes
      <4>2. x = Resting
        BY <1>1, <2>2, <3>1 DEF Writes
      <4> QED BY <2>1, <3>1, <4>1, <4>2
    <3>2. CASE ~Writes(c, key)
      <4>1. \A d \in Callers : ~Writes(d, key)
        BY <1>1, <2>2, <3>2 DEF Writes
      <4> QED BY <2>1, <4>1 DEF RkInv, KeyFollowsWriter, KeyOK
    <3> QED BY <3>1, <3>2
  <2>3. ASSUME NEW d \in Callers, Writes(d, key)'
        PROVE  /\ req'[d].step = "lookup" => Exact(key)
               /\ ChangeAhead(d)' => Exact(key) /\ \E r \in Records(key) : r.id = req'[d].id
               /\ AddAhead(d)' => Records(key) = {} /\ (req'[d].id = 0 => Emptied(key))
    <3>1. Writes(d, key)
      BY <1>9, <2>3
    <3>2. CASE d = c
      <4>1. req[c].key = key
        BY <3>1, <3>2 DEF Writes
      <4>2. (ChangeAhead(c)' <=> x.step \in {"replace", "remove"}) /\ (AddAhead(c)' <=> x.step = "add")
        BY <1>1, <1>11 DEF ChangeAhead, AddAhead
      <4> QED BY <1>1, <2>1, <3>1, <3>2, <4>1, <4>2
    <3>3. CASE d # c
      <4>1. (ChangeAhead(d)' <=> ChangeAhead(d)) /\ (AddAhead(d)' <=> AddAhead(d)) /\ req'[d] = req[d]
        BY <1>1, <1>11, <3>3 DEF ChangeAhead, AddAhead
      <4> QED BY <2>1, <3>1, <4>1 DEF RkInv, KeyFollowsWriter, KeyOK
    <3> QED BY <3>2, <3>3
  <2> QED BY <2>2, <2>3
<1>14. OnlyRemovalEmpties'
  <2>1. SUFFICES ASSUME NEW key \in RemoteKeys, service # "agentmemory", expected[key] # 0,
                        <<key, "removing">> \notin unanswered, Records(key) = {}
                 PROVE  \E d \in Callers : Removing(d, key)'
    BY <1>2 DEF OnlyRemovalEmpties, KeptOK
  <2>2. PICK d \in Callers : Removing(d, key)
    BY <2>1 DEF RkInv, OnlyRemovalEmpties, KeptOK
  <2>3. d # c /\ req'[d] = req[d]
    BY <1>1, <2>2 DEF Removing
  <2> QED BY <1>11, <2>2, <2>3 DEF Removing, Writes
<1> QED BY <1>3, <1>4, <1>5, <1>6, <1>8, <1>10, <1>12, <1>13, <1>14 DEF RkInv

-----------------------------------------------------------------------------
(* Walking the listing page by page. *)

\* Records with distinct ids up to a number are finitely many.
LEMMA NumberedFinite ==
  ASSUME NEW H, NEW n \in Nat, \A r \in H : r.id \in 1 .. n, \A r, q \in H : r.id = q.id => r = q
  PROVE  IsFiniteSet(H)
<1>1. PICK f : f = [r \in H |-> r.id]
  OBVIOUS
<1>2. f \in Injection(H, 1 .. n)
  BY <1>1 DEF Injection, IsInjective
<1>3. IsFiniteSet(1 .. n)
  BY FS_Interval
<1> QED BY <1>2, <1>3, FS_Injection

\* Each record counts itself in its place.
LEMMA CountPositive ==
  ASSUME NEW H, NEW n \in Nat, \A r \in H : r.id \in 1 .. n, \A r, q \in H : r.id = q.id => r = q, NEW x \in H
  PROVE  Cardinality({q \in H : q.id <= x.id}) \in Nat \ {0}
<1>1. PICK S : S = {q \in H : q.id <= x.id}
  OBVIOUS
<1>2. x.id \in Nat
  OBVIOUS
<1>3. x \in S /\ S \in SUBSET H
  BY <1>1, <1>2
<1>4. IsFiniteSet(H)
  BY NumberedFinite
<1>5. IsFiniteSet(S)
  BY <1>3, <1>4, FS_Subset
<1>6. Cardinality(S) \in Nat /\ Cardinality(S) # 0
  BY <1>3, <1>5, FS_CardinalityType, FS_EmptySet
<1> QED BY <1>1, <1>6

\* The service holds finitely many records.
LEMMA HeldFinite == ASSUME RkInv PROVE IsFiniteSet(held)
BY NumberedFinite DEF RkInv, RkTyped, IdsUnique

\* Places in the listing start at 1.
LEMMA PlacePositive == ASSUME RkInv, NEW r \in held PROVE Place(r) \in Nat \ {0}
<1>1. \A q \in held : q.id \in Nat
  BY DEF RkInv, RkTyped, RecordSet
<1>2. PICK S : S = {q \in held : IF service = "supermemory" THEN q.id >= r.id ELSE q.id <= r.id}
  OBVIOUS
<1>3. r \in S /\ S \in SUBSET held
  BY <1>1, <1>2
<1>4. IsFiniteSet(S)
  BY <1>3, HeldFinite, FS_Subset
<1>5. Cardinality(S) \in Nat /\ Cardinality(S) # 0
  BY <1>3, <1>4, FS_CardinalityType, FS_EmptySet
<1> QED BY <1>2, <1>5 DEF Place

\* Only supermemory lists the newest first.
LEMMA OldestFirst ==
  ASSUME service # "supermemory" PROVE \A r : Place(r) = Cardinality({q \in held : q.id <= r.id})
BY DEF Place

\* Places follow the order of creation.
LEMMA PlaceMonotone ==
  ASSUME RkInv, service # "supermemory", NEW r \in held, NEW q \in held, r.id <= q.id
  PROVE  Place(r) <= Place(q)
<1>1. PICK R, Q : R = {p \in held : p.id <= r.id} /\ Q = {p \in held : p.id <= q.id}
  OBVIOUS
<1>2. \A p \in held : p.id \in Nat
  BY DEF RkInv, RkTyped, RecordSet
<1>3. R \in SUBSET Q /\ Q \in SUBSET held
  BY <1>1, <1>2
<1>4. IsFiniteSet(Q)
  BY <1>3, HeldFinite, FS_Subset
<1>5. Cardinality(R) <= Cardinality(Q)
  BY <1>3, <1>4, FS_Subset
<1> QED BY <1>1, <1>5, OldestFirst

\* A page that is not full ends the listing: places are 1, 2, ... without a gap.
LEMMA LastPageSeesAll ==
  ASSUME RkInv, service = "agentmemory", NEW o \in Nat, Cardinality(memories(o)) < RemotePage
  PROVE  \A r \in held : Place(r) <= o + RemotePage
<1> DEFINE A == {r \in held : Place(r) <= o}
           B == {r \in held : Place(r) <= o + RemotePage}
<1>1. RemotePage \in Nat \ {0} /\ lastId \in Nat /\ \A r \in held : r.id \in 1 .. lastId /\ r.id \in Nat /\ Place(r) \in Nat
  BY RemoteAssumption, PlacePositive DEF RkInv, RkTyped, IdsUnique
<1>2. memories(o) = B \ A
  <2>1. memories(o) = {r \in held : Place(r) \in o + 1 .. o + RemotePage}
    BY DEF memories, Paged
  <2> QED BY <1>1, <2>1
<1>3. A \subseteq B
  BY <1>1
<1>4. IsFiniteSet(held) /\ IsFiniteSet(A) /\ IsFiniteSet(B)
  <2>1. A \in SUBSET held /\ B \in SUBSET held
    OBVIOUS
  <2> HIDE DEF A, B
  <2> QED BY <2>1, HeldFinite, FS_Subset
<1>5. Cardinality(A) \in Nat /\ Cardinality(B) \in Nat
  BY <1>4, FS_CardinalityType
<1>6. Cardinality(B \ A) = Cardinality(B) - Cardinality(A)
  <2>1. B \cap A = A
    BY <1>3
  <2> HIDE DEF A, B
  <2> QED BY <1>4, <2>1, FS_Difference
<1>7. Cardinality(A) <= o
  <2>1. CASE A = {}
    <3> HIDE DEF A
    <3> QED BY <2>1, FS_EmptySet
  <2>2. CASE A # {}
    <3>1. PICK T : T = {r.id : r \in A}
      OBVIOUS
    <3>2. T \subseteq Nat /\ T # {} /\ \A y \in T : y <= lastId
      BY <1>1, <2>2, <3>1
    <3>3. PICK n \in T : \A y \in T : y <= n
      BY <1>1, <3>2, GreatestOfBounded
    <3>4. PICK m \in A : n = m.id
      BY <3>1, <3>3
    <3>5. \A r \in A : r.id <= m.id
      BY <3>1, <3>3, <3>4
    <3>6. PICK S : S = {q \in held : q.id <= m.id}
      OBVIOUS
    <3>7. A \in SUBSET S /\ S \in SUBSET held
      BY <3>5, <3>6
    <3>8. Cardinality(S) <= o /\ Cardinality(S) \in Nat
      BY <1>1, <3>4, <3>6, OldestFirst
    <3> HIDE DEF A
    <3>9. Cardinality(A) <= Cardinality(S)
      BY <1>4, <3>7, FS_Subset
    <3> QED BY <1>5, <3>8, <3>9
  <2> QED BY <2>1, <2>2
<1>8. ASSUME NEW x \in held, ~(Place(x) <= o + RemotePage) PROVE FALSE
  <2>1. PICK T : T = {lastId - r.id : r \in held \ B}
    OBVIOUS
  <2>2. T \subseteq Nat /\ T # {} /\ \A y \in T : y <= lastId
    <3>1. x \in held \ B
      BY <1>8
    <3>2. \A r \in held : lastId - r.id \in Nat /\ lastId - r.id <= lastId
      BY <1>1
    <3> HIDE DEF B
    <3> QED BY <2>1, <3>1, <3>2
  <2>3. PICK n \in T : \A y \in T : y <= n
    BY <1>1, <2>2, GreatestOfBounded
  <2>4. PICK m \in held \ B : n = lastId - m.id
    BY <2>1, <2>3
  <2>5. \A r \in held \ B : m.id <= r.id
    <3>1. ASSUME NEW r \in held \ B PROVE m.id <= r.id
      <4>1. lastId - r.id <= lastId - m.id
        BY <2>1, <2>3, <2>4
      <4>2. m \in held /\ r \in held
        OBVIOUS
      <4> QED BY <1>1, <4>1, <4>2
    <3> QED BY <3>1
  <2>6. {q \in held : q.id <= m.id} = B \cup {m}
    <3>1. ASSUME NEW q \in held, q.id <= m.id PROVE q \in B \cup {m}
      <4>1. CASE q \notin B
        <5>1. m.id <= q.id
          BY <2>5, <4>1
        <5>2. m.id = q.id
          BY <1>1, <2>4, <3>1, <5>1
        <5>3. m = q
          BY <2>4, <5>2 DEF RkInv, IdsUnique
        <5> QED BY <5>3
      <4> QED BY <4>1
    <3>2. ASSUME NEW q \in B PROVE q.id <= m.id
      <4>1. SUFFICES ASSUME ~(q.id <= m.id) PROVE FALSE
        OBVIOUS
      <4>2. m.id <= q.id /\ m \in held /\ q \in held
        BY <1>1, <2>4, <4>1
      <4>3. Place(m) <= Place(q)
        BY <4>2, PlaceMonotone
      <4>4. Place(q) <= o + RemotePage /\ ~(Place(m) <= o + RemotePage)
        BY <2>4, <3>2
      <4> QED BY <1>1, <4>2, <4>3, <4>4
    <3>3. m.id <= m.id /\ m \in held
      BY <1>1, <2>4
    <3> QED BY <3>1, <3>2, <3>3
  <2>7. Place(m) = Cardinality(B \cup {m})
    BY <2>6, OldestFirst
  <2>8. Cardinality(B \cup {m}) = Cardinality(B) + 1
    <3>1. m \notin B
      BY <2>4
    <3> HIDE DEF B
    <3> QED BY <1>4, <3>1, FS_AddElement
  <2>9. m \in held /\ ~(Place(m) <= o + RemotePage)
    BY <2>4
  <2> HIDE DEF A, B
  <2> QED BY <1>1, <1>2, <1>5, <1>6, <1>7, <2>7, <2>8, <2>9
<1> QED BY <1>8

\* What a lookup has found belongs to its key.
LEMMA MatchingOK ==
  ASSUME RkInv, NEW c \in Callers
  PROVE  /\ Matching(c) \in SUBSET RecordSet
         /\ \A h \in Matching(c) :
              /\ h.key = req[c].key /\ h.id \in 1 .. lastId
              /\ \A r \in held : h.id = r.id => r.key = h.key
<1>1. memories(req[c].offset) \subseteq held
  BY DEF memories
<1>2. /\ held \subseteq RecordSet
      /\ \A r \in held : r.id \in 1 .. lastId /\ \A q \in held : r.id = q.id => r = q
  BY DEF RkInv, RkTyped, IdsUnique
<1>3. req[c].hits \in SUBSET RecordSet /\ IdsFit(req[c])
  BY CallFacts DEF CallSet
<1>4. ASSUME NEW h \in Matching(c)
      PROVE  /\ h \in RecordSet /\ h.key = req[c].key /\ h.id \in 1 .. lastId
             /\ \A r \in held : h.id = r.id => r.key = h.key
  <2>1. CASE h \in req[c].hits
    BY <1>3, <2>1 DEF IdsFit
  <2>2. CASE h \in held /\ h.key = req[c].key
    BY <1>2, <2>2
  <2> QED BY <1>1, <1>4, <2>1, <2>2 DEF Matching
<1> QED BY <1>4

\* No place is beyond the number of records.
LEMMA PlaceBounded == ASSUME RkInv, NEW r \in held PROVE Place(r) <= Cardinality(held)
<1>1. PICK S : S = {q \in held : IF service = "supermemory" THEN q.id >= r.id ELSE q.id <= r.id}
  OBVIOUS
<1>2. S \in SUBSET held
  BY <1>1
<1>3. Cardinality(S) <= Cardinality(held)
  BY <1>2, HeldFinite, FS_Subset
<1> QED BY <1>1, <1>3 DEF Place

\* A lookup that reached the last page has seen every place.
LEMMA WalkEnds ==
  ASSUME RkInv, service \in {"agentmemory", "supermemory"}, NEW o \in Nat, LastPage(o)
  PROVE  \A r \in held : Place(r) <= o + RemotePage
<1>1. CASE service = "agentmemory"
  <2>1. Cardinality(memories(o)) < RemotePage
    BY <1>1 DEF LastPage
  <2> QED BY <1>1, <2>1, LastPageSeesAll
<1>2. CASE service = "supermemory"
  <2>1. o + RemotePage >= Cardinality(held)
    BY <1>2 DEF LastPage
  <2>2. Cardinality(held) \in Nat /\ RemotePage \in Nat
    BY HeldFinite, FS_CardinalityType, RemoteAssumption
  <2>3. \A r \in held : Place(r) \in Nat /\ Place(r) <= Cardinality(held)
    BY PlacePositive, PlaceBounded
  <2> QED BY <2>1, <2>2, <2>3
<1> QED BY <1>1, <1>2

\* Nothing of a clean key has escaped the pages its writer has read: the key has
\* one record at most, so the first match is the only one.
LEMMA PagesRead ==
  ASSUME RkInv, NEW c \in Callers, req[c].step = "lookup", Clean(req[c].key), req[c].kind \in Writers,
         service \in {"agentmemory", "supermemory"}
  PROVE  /\ Matching(c) \subseteq Records(req[c].key)
         /\ \A r \in Records(req[c].key) : Place(r) <= req[c].offset + RemotePage => r \in Matching(c)
<1>1. Seen(req[c])
  BY DEF RkInv, LookupKnows
<1>2. req[c].offset \in Nat /\ RemotePage \in Nat /\ \A r \in held : Place(r) \in Nat
  BY CallFacts, RemoteAssumption, PlacePositive DEF CallSet
<1>3. memories(req[c].offset) = {r \in held : Place(r) \in req[c].offset + 1 .. req[c].offset + RemotePage}
  BY DEF memories, Paged
<1>4. \A r, q \in Records(req[c].key) : r = q
  <2>1. Writes(c, req[c].key) /\ req[c].key \in RemoteKeys
    BY CallFacts DEF Writes, CallOK
  <2> QED BY <2>1 DEF RkInv, KeyFollowsWriter, KeyOK, Exact
<1>5. CASE req[c].hits # {}
  BY <1>1, <1>4, <1>5 DEF Matching, Seen
<1>6. CASE req[c].hits = {}
  <2>1. Matching(c) = {r \in memories(req[c].offset) : r.key = req[c].key}
    BY <1>6 DEF Matching
  <2> QED BY <1>1, <1>2, <1>3, <1>6, <2>1 DEF Seen, Records
<1> QED BY <1>5, <1>6

\* A lookup that reached the last page has found all records of a clean key.
LEMMA LookupExact ==
  ASSUME RkInv, NEW c \in Callers, req[c].step = "lookup", Clean(req[c].key), req[c].kind \in Writers,
         LastPage(req[c].offset)
  PROVE  Matching(c) = Records(req[c].key) /\ Exact(req[c].key)
<1>1. Exact(req[c].key)
  <2>1. Writes(c, req[c].key) /\ req[c].key \in RemoteKeys
    BY CallFacts DEF Writes, CallOK
  <2> QED BY <2>1 DEF RkInv, KeyFollowsWriter, KeyOK
<1>2. CASE service \notin {"agentmemory", "supermemory"}
  <2>1. req[c].hits = {}
    BY <1>2, CallFacts DEF CallOK
  <2> QED BY <1>1, <1>2, <2>1 DEF Matching, memories, Records, Paged
<1>3. CASE service \in {"agentmemory", "supermemory"}
  <2>1. req[c].offset \in Nat
    BY CallFacts DEF CallSet
  <2>2. \A r \in held : Place(r) <= req[c].offset + RemotePage
    BY <1>3, <2>1, WalkEnds
  <2> QED BY <1>1, <1>3, <2>2, PagesRead DEF Records
<1> QED BY <1>2, <1>3

\* A clean key is exact while its writer looks it up.
LEMMA LookingExact ==
  ASSUME RkInv, NEW c \in Callers, req[c].step = "lookup", Clean(req[c].key), Writes(c, req[c].key)
  PROVE  Exact(req[c].key)
<1>1. req[c].key \in RemoteKeys
  BY CallFacts DEF CallOK
<1> QED BY <1>1 DEF RkInv, KeyFollowsWriter, KeyOK

-----------------------------------------------------------------------------
(* The steps of a lookup. *)

\* A failed read is tried again or ends the call; nothing is written.
LEMMA ReadFailsStep == ASSUME RkInv, NEW c \in Callers, NEW failure, ReadFails(c, failure) PROVE RkInv'
<1>1. /\ UNCHANGED <<service, held, lastId, wires, begun, expected, raced, unanswered, torn, shifted>>
      /\ req[c].step = "lookup"
  BY DEF ReadFails
<1>2. req[c] \in CallSet /\ CallOK(req[c]) /\ IdsFit(req[c]) /\ req \in [Callers -> CallSet]
  BY CallFacts
<1>3. CASE req' = Finish(c)
  <2>1. req' = [req EXCEPT ![c] = Resting]
    BY <1>3 DEF Finish
  <2> QED BY <1>1, <2>1, CallMoves, RestingFields, RestingOK, LookingExact
<1>4. CASE with_read_retry(c, failure) /\ req' = [req EXCEPT ![c].tried = @ + 1]
  <2>1. PICK x : x = [req[c] EXCEPT !.tried = @ + 1]
    OBVIOUS
  <2>2. req[c].tried \in Nat /\ req[c].tried + 1 < MaxAttempts
    BY <1>2, <1>4 DEF CallSet, with_read_retry
  <2>3. /\ x \in CallSet /\ x.kind = req[c].kind /\ x.key = req[c].key /\ x.no = req[c].no /\ x.step = "lookup"
        /\ x.tried = req[c].tried + 1 /\ x.id = req[c].id /\ x.offset = req[c].offset /\ x.hits = req[c].hits
    BY <1>1, <1>2, <2>1, <2>2 DEF CallSet
  <2>4. req' = [req EXCEPT ![c] = x]
    BY <1>2, <1>4, <2>1
  <2>5. CallOK(x) /\ IdsFit(x)
    BY <1>1, <1>2, <2>2, <2>3 DEF CallOK, IdsFit
  <2>6. Clean(x.key) /\ x.kind \in Writers => Seen(x)
    BY <1>1, <2>3 DEF RkInv, LookupKnows, Seen
  <2>7. x # Resting
    BY <2>3, RestingFields
  <2> QED BY <1>1, <2>3, <2>4, <2>5, <2>6, <2>7, CallMoves, LookingExact
<1> QED BY <1>3, <1>4 DEF ReadFails

\* Reading on keeps what the lookup knows.
LEMMA NextPageStep == ASSUME RkInv, NEW c \in Callers, NextPage(c) PROVE RkInv'
<1>1. /\ UNCHANGED <<service, held, lastId, wires, begun, expected, raced, unanswered, torn, shifted>>
      /\ req[c].step = "lookup" /\ service \in {"agentmemory", "supermemory"}
      /\ req' = [req EXCEPT ![c].hits = Matching(c), ![c].offset = @ + RemotePage]
  BY DEF NextPage, LastPage
<1>2. req[c] \in CallSet /\ CallOK(req[c]) /\ IdsFit(req[c]) /\ req \in [Callers -> CallSet]
  BY CallFacts
<1>3. PICK M : M = Matching(c)
  OBVIOUS
<1>4. /\ M \in SUBSET RecordSet
      /\ \A h \in M : /\ h.key = req[c].key /\ h.id \in 1 .. lastId
                      /\ \A r \in held : h.id = r.id => r.key = h.key
  BY <1>3, MatchingOK
<1>5. PICK x : x = [req[c] EXCEPT !.hits = M, !.offset = @ + RemotePage]
  OBVIOUS
<1>6. req[c].offset + RemotePage \in Nat
  BY <1>2, RemoteAssumption DEF CallSet
<1>7. /\ x \in CallSet /\ x.kind = req[c].kind /\ x.key = req[c].key /\ x.no = req[c].no /\ x.step = "lookup"
      /\ x.tried = req[c].tried /\ x.id = req[c].id /\ x.offset = req[c].offset + RemotePage /\ x.hits = M
  BY <1>1, <1>2, <1>4, <1>5, <1>6 DEF CallSet
<1>8. req' = [req EXCEPT ![c] = x]
  BY <1>1, <1>2, <1>3, <1>5
<1>9. CallOK(x)
  BY <1>1, <1>2, <1>7 DEF CallOK
<1>10. IdsFit(x)
  BY <1>2, <1>4, <1>7 DEF IdsFit
<1>11. Clean(x.key) /\ x.kind \in Writers => Seen(x)
  BY <1>1, <1>3, <1>7, PagesRead DEF Seen
<1>12. x # Resting
  BY <1>7, RestingFields
<1> QED BY <1>1, <1>7, <1>8, <1>9, <1>10, <1>11, <1>12, CallMoves, LookingExact

\* A store that found nothing adds to a key that is empty.
LEMMA FindsNoneStep == ASSUME RkInv, NEW c \in Callers, LookupFindsNone(c) PROVE RkInv'
<1>1. /\ UNCHANGED <<service, held, lastId, wires, begun, expected, raced, unanswered, torn, shifted>>
      /\ req[c].step = "lookup" /\ LastPage(req[c].offset)
      /\ Matching(c) = {}
  BY DEF LookupFindsNone
<1>2. req[c] \in CallSet /\ CallOK(req[c]) /\ IdsFit(req[c]) /\ req \in [Callers -> CallSet]
  BY CallFacts
<1>3. CASE req[c].kind = "upsert" /\ req' = [req EXCEPT ![c].step = "add"]
  <2>1. PICK x : x = [req[c] EXCEPT !.step = "add"]
    OBVIOUS
  <2>2. /\ x \in CallSet /\ x.kind = req[c].kind /\ x.key = req[c].key /\ x.no = req[c].no /\ x.step = "add"
        /\ x.tried = req[c].tried /\ x.id = req[c].id /\ x.offset = req[c].offset /\ x.hits = req[c].hits
    BY <1>2, <2>1 DEF CallSet, RkSteps
  <2>3. req' = [req EXCEPT ![c] = x]
    BY <1>2, <1>3, <2>1
  <2>4. CallOK(x) /\ IdsFit(x)
    BY <1>1, <1>2, <1>3, <2>2 DEF CallOK, IdsFit
  <2>5. Clean(req[c].key) /\ Writes(c, req[c].key) => Records(req[c].key) = {} /\ Emptied(req[c].key)
    BY <1>1, LookupExact DEF Writes, Exact
  <2>6. x # Resting
    BY <2>2, RestingFields
  <2> QED BY <1>1, <2>2, <2>3, <2>4, <2>5, <2>6, CallMoves
<1>4. CASE req' = Finish(c)
  <2>1. req' = [req EXCEPT ![c] = Resting]
    BY <1>4 DEF Finish
  <2> QED BY <1>1, <2>1, CallMoves, RestingFields, RestingOK, LookingExact
<1> QED BY <1>3, <1>4 DEF LookupFindsNone

\* A store or forget that found a record goes on with the only one there is.
LEMMA HitsStep == ASSUME RkInv, NEW c \in Callers, LookupHits(c) PROVE RkInv'
<1>1. /\ UNCHANGED <<service, held, lastId, wires, begun, expected, raced, unanswered, torn, shifted>>
      /\ req[c].step = "lookup" /\ LastPage(req[c].offset)
  BY DEF LookupHits
<1>2. req[c] \in CallSet /\ CallOK(req[c]) /\ IdsFit(req[c]) /\ req \in [Callers -> CallSet] /\ service \in Services
  BY CallFacts DEF RkInv, RkTyped
<1>3. PICK r \in Found(Matching(c)) :
        req' = [req EXCEPT ![c].id = r.id, ![c].step = StepOfHit(req[c].kind), ![c].offset = 0, ![c].hits = {}]
  BY DEF LookupHits
<1>4. r \in Matching(c)
  BY <1>2, <1>3 DEF Found, Services, mem0_entry, find_entry, find_data_id, record
<1>5. r \in RecordSet /\ r.key = req[c].key /\ r.id \in 1 .. lastId /\ \A q \in held : r.id = q.id => q.key = r.key
  BY <1>4, MatchingOK
<1>6. PICK st : st = StepOfHit(req[c].kind)
  OBVIOUS
<1>7. /\ st \in {"answer", "remove", "replace"}
      /\ st = "answer" => req[c].kind = "get"
      /\ st = "remove" => req[c].kind = "delete" \/ (req[c].kind = "upsert" /\ service = "agentmemory")
      /\ st = "replace" => req[c].kind = "upsert" /\ service # "agentmemory"
  <2>1. req[c].kind \in {"get", "upsert", "delete"}
    BY <1>1, <1>2 DEF CallSet, CallOK
  <2>2. CASE req[c].kind = "upsert"
    BY <1>2, <1>6, <2>2 DEF StepOfHit, UpsertOfHit, Services, mem0_upsert, supermemory_upsert, cognee_upsert, agentmemory_upsert
  <2>3. CASE req[c].kind = "get"
    BY <1>6, <2>3 DEF StepOfHit
  <2>4. CASE req[c].kind = "delete"
    BY <1>6, <2>4 DEF StepOfHit
  <2> QED BY <2>1, <2>2, <2>3, <2>4
<1>8. PICK x : x = [req[c] EXCEPT !.id = r.id, !.step = st, !.offset = 0, !.hits = {}]
  OBVIOUS
<1>9. /\ x \in CallSet /\ x.kind = req[c].kind /\ x.key = req[c].key /\ x.no = req[c].no /\ x.step = st
      /\ x.tried = req[c].tried /\ x.id = r.id /\ x.offset = 0 /\ x.hits = {}
  BY <1>2, <1>5, <1>7, <1>8 DEF CallSet, RkSteps, RecordSet
<1>10. req' = [req EXCEPT ![c] = x]
  BY <1>2, <1>3, <1>6, <1>8
<1>11. x.id > 0 /\ x.id <= lastId
  BY <1>5, <1>9 DEF RkInv, RkTyped
<1>12. CallOK(x)
  BY <1>1, <1>2, <1>7, <1>9, <1>11 DEF CallOK, Writers
<1>13. IdsFit(x)
  BY <1>5, <1>9, <1>11 DEF IdsFit
<1>14. Clean(req[c].key) /\ Writes(c, req[c].key) => Exact(req[c].key) /\ r \in Records(req[c].key)
  BY <1>1, <1>4, LookupExact DEF Writes
<1>15. x # Resting
  BY <1>7, <1>9, RestingFields
<1> QED BY <1>1, <1>7, <1>9, <1>10, <1>12, <1>13, <1>14, <1>15, CallMoves

\* The end of a get changes nothing stored.
LEMMA ReturnsStep == ASSUME RkInv, NEW c \in Callers, GetReturns(c) PROVE RkInv'
<1>1. /\ UNCHANGED <<service, held, lastId, wires, begun, expected, raced, unanswered, torn, shifted>>
      /\ req[c].step = "answer" /\ req' = [req EXCEPT ![c] = Resting]
  BY DEF GetReturns, Finish
<1>2. req[c].kind = "get"
  BY <1>1, CallFacts DEF CallOK
<1>3. ~Writes(c, req[c].key)
  BY <1>2 DEF Writes, Writers
<1> QED BY <1>1, <1>3, CallMoves, RestingFields, RestingOK

-----------------------------------------------------------------------------
(* Beginning a call and writing. *)

\* A key whose writer is where it was, with no more on its way.
LEMMA KeyKept ==
  ASSUME RkInv, NEW key \in RemoteKeys, Clean(key)' => Clean(key),
         Records(key)' = Records(key), Exact(key) => Exact(key)', Emptied(key) => Emptied(key)',
         \A d \in Callers :
           /\ Writes(d, key)' <=> Writes(d, key)
           /\ Writes(d, key) =>
                /\ req'[d].id = req[d].id /\ (req'[d].step = "lookup" => req[d].step = "lookup")
                /\ (ChangeAhead(d)' => ChangeAhead(d)) /\ (AddAhead(d)' => AddAhead(d))
  PROVE  KeyOK(key)'
<1>1. KeyOK(key)
  BY DEF RkInv, KeyFollowsWriter
<1>2. SUFFICES ASSUME Clean(key)'
               PROVE  /\ (\A d \in Callers : ~Writes(d, key)') => Exact(key)'
                      /\ \A d \in Callers : Writes(d, key)' =>
                           /\ req'[d].step = "lookup" => Exact(key)'
                           /\ ChangeAhead(d)' => Exact(key)' /\ \E r \in Records(key) : r.id = req'[d].id
                           /\ AddAhead(d)' => Records(key) = {} /\ (req'[d].id = 0 => Emptied(key)')
  BY DEF KeyOK
<1> QED BY <1>1, <1>2 DEF KeyOK

\* A key whose record nobody took.
LEMMA StaysKept ==
  ASSUME RkInv, NEW key \in RemoteKeys, UNCHANGED service, expected'[key] = expected[key],
         unanswered \subseteq unanswered', Records(key)' = Records(key),
         \A d \in Callers : Removing(d, key) =>
           (req'[d] = req[d] /\ (Carries(d, "remove")' => Carries(d, "remove"))) \/ <<key, "removing">> \in unanswered'
  PROVE  KeptOK(key)'
<1>1. KeptOK(key)
  BY DEF RkInv, OnlyRemovalEmpties
<1>2. SUFFICES ASSUME service # "agentmemory", expected[key] # 0, <<key, "removing">> \notin unanswered',
                      Records(key) = {}
               PROVE  \E d \in Callers : Removing(d, key)'
  BY DEF KeptOK
<1>3. PICK d \in Callers : Removing(d, key)
  BY <1>1, <1>2 DEF KeptOK
<1> QED BY <1>2, <1>3 DEF Removing, Writes

\* A second writer of a key makes it raced; a first one finds it exact.
LEMMA RkBeginStep ==
  ASSUME RkInv, NEW c \in Callers, NEW kind \in {"get", "upsert", "delete"}, NEW key \in RemoteKeys,
         RkBegin(c, kind, key)
  PROVE  RkInv'
<1>1. /\ UNCHANGED <<service, held, lastId, wires, expected, unanswered, torn, shifted>>
      /\ req[c].step = "rest" /\ begun < MaxBegun /\ begun' = begun + 1
      /\ raced \subseteq raced'
      /\ \/ kind = "get" \/ key \in raced' 
         \/ \A d \in Callers : ~Writes(d, key)
  BY DEF RkBegin, Writes, Writers
<1>2. begun \in Nat /\ begun <= MaxBegun /\ MaxBegun \in Nat /\ MaxAttempts \in Nat \ {0} /\ lastId \in Nat
  BY RemoteAssumption DEF RkInv, RkTyped
<1>3. PICK x : x = [kind |-> kind, key |-> key, no |-> begun + 1, step |-> "lookup", tried |-> 0, id |-> 0,
                    offset |-> 0, hits |-> {}]
  OBVIOUS
<1>4. x.kind = kind /\ x.key = key /\ x.no = begun + 1 /\ x.step = "lookup" /\ x.tried = 0 /\ x.id = 0
      /\ x.offset = 0 /\ x.hits = {}
  BY <1>3
<1>5. x \in CallSet
  BY <1>2, <1>3 DEF CallSet, RkSteps
<1>6. req' = [req EXCEPT ![c] = x]
  BY <1>3 DEF RkBegin
<1>7. /\ req' \in [Callers -> CallSet] /\ req'[c] = x
      /\ \A d \in Callers : d # c => req'[d] = req[d]
  BY <1>5, <1>6, CallStep
<1>8. req[c] = Resting /\ req[c].no = 0 /\ req[c].kind = "none" /\ req[c].step = "rest"
  BY <1>1, CallFacts, RestingFields DEF CallOK
<1>9. \A k : /\ (Clean(k)' => Clean(k)) /\ Records(k)' = Records(k)
             /\ (Exact(k)' <=> Exact(k)) /\ (Emptied(k)' <=> Emptied(k))
  BY <1>1 DEF Clean, Records, Exact, Emptied
<1>10. RkTyped' /\ IdsUnique'
  <2>1. begun' \in 0 .. MaxBegun
    BY <1>1, <1>2
  <2> QED BY <1>1, <1>7, <2>1 DEF RkInv, RkTyped, IdsUnique
<1>11. CallsSound'
  <2>1. CallOK(x)'
    <3>1. x.no <= begun' /\ x.no > 0 /\ x.tried < MaxAttempts
      BY <1>1, <1>2, <1>4
    <3> QED BY <1>4, <3>1 DEF CallOK
  <2>2. ASSUME NEW d \in Callers, d # c PROVE CallOK(req[d])'
    <3>1. CallOK(req[d]) /\ req[d].no \in Nat
      BY CallFacts DEF CallSet
    <3>2. req[d].no <= begun + 1
      BY <1>2, <3>1 DEF CallOK
    <3> QED BY <1>1, <1>7, <2>2, <3>1, <3>2 DEF CallOK
  <2> QED BY <1>7, <2>1, <2>2 DEF CallsSound
<1>12. \A d \in Callers : req[d].no \in Nat /\ req[d].no <= begun
  BY CallFacts DEF CallSet, CallOK
<1>13. NosUnique'
  <2>1. \A d \in Callers : req[d].no # begun + 1
    BY <1>2, <1>12
  <2> QED BY <1>4, <1>7, <2>1 DEF RkInv, NosUnique
<1>14. \A w \in wires : w.no # begun + 1 /\ w.no # 0 /\ w.no \in 1 .. begun + 1
  <2>1. \A w \in wires : w.no \in 1 .. begun
    BY DEF RkInv, IdsOfWires, WireOK
  <2> QED BY <1>2, <2>1
<1>15. IdsOfCalls' /\ IdsOfWires'
  <2>1. \A r \in held : r.id # 0
    BY DEF RkInv, IdsUnique
  <2>2. IdsFit(x)'
    BY <1>1, <1>2, <1>4, <2>1 DEF IdsFit
  <2>3. \A y : IdsFit(y)' <=> IdsFit(y)
    BY <1>1 DEF IdsFit
  <2>4. ASSUME NEW w \in wires PROVE WireOK(w)'
    BY <1>1, <1>14 DEF RkInv, IdsOfWires, WireOK
  <2> QED BY <1>1, <1>7, <2>2, <2>3, <2>4 DEF RkInv, IdsOfCalls, IdsOfWires
<1>16. WiresOwned'
  <2>1. SUFFICES ASSUME NEW w \in wires
                 PROVE  /\ \A d \in Callers : req'[d].no = w.no =>
                             Waits(d, w)' /\ req'[d].key = w.key /\ req'[d].id = w.id
                        /\ \A v \in wires : v.no = w.no => v = w
                        /\ \/ \E d \in Callers : req'[d].no = w.no
                           \/ <<w.key, IF w.op = "remove" THEN "removing" ELSE "writing">> \in unanswered
    BY <1>1 DEF WiresOwned
  <2>2. ASSUME NEW d \in Callers, req'[d].no = w.no
        PROVE  Waits(d, w)' /\ req'[d].key = w.key /\ req'[d].id = w.id
    <3>1. d # c /\ req'[d] = req[d]
      BY <1>4, <1>7, <1>14, <2>2
    <3>2. Waits(d, w) /\ req[d].key = w.key /\ req[d].id = w.id
      BY <2>2, <3>1 DEF RkInv, WiresOwned
    <3> QED BY <3>1, <3>2 DEF Waits
  <2>3. \A v \in wires : v.no = w.no => v = w
    BY DEF RkInv, WiresOwned
  <2>4. \A d \in Callers : req[d].no = w.no => req'[d].no = w.no
    BY <1>7, <1>8, <1>14
  <2> QED BY <2>2, <2>3, <2>4 DEF RkInv, WiresOwned
<1>17. \A d \in Callers : \A op : (d # c => (Carries(d, op)' <=> Carries(d, op))) /\ ~Carries(c, op)'
  BY <1>1, <1>4, <1>7, <1>14 DEF Carries
<1>18. \A d \in Callers : \A k : d # c => (Writes(d, k)' <=> Writes(d, k))
  BY <1>7 DEF Writes
<1>19. \A k : ~Writes(c, k) /\ (Writes(c, k)' <=> k = key /\ kind # "get")
  BY <1>4, <1>7, <1>8 DEF Writes, Writers
<1>20. OneWriter'
  <2>1. SUFFICES ASSUME NEW k \in RemoteKeys, k \notin raced', NEW d \in Callers, NEW e \in Callers,
                        Writes(d, k)', Writes(e, k)'
                 PROVE  d = e
    BY DEF OneWriter
  <2>2. k \notin raced
    BY <1>1, <2>1
  <2>3. CASE d # c /\ e # c
    BY <1>18, <2>1, <2>2, <2>3 DEF RkInv, OneWriter
  <2>4. CASE d = c \/ e = c
    <3>1. k = key /\ kind # "get"
      BY <1>19, <2>1, <2>4
    <3>2. \A f \in Callers : ~Writes(f, key)
      BY <1>1, <2>1, <3>1
    <3> QED BY <1>18, <2>1, <3>1, <3>2
  <2> QED BY <2>3, <2>4
<1>21. LookupKnows'
  <2>1. \A r : Place(r)' = Place(r)
    BY <1>1 DEF Place
  <2>2. SUFFICES ASSUME NEW d \in Callers, req'[d].step = "lookup", Clean(req'[d].key), req'[d].kind \in Writers
                 PROVE  /\ req'[d].hits \subseteq Records(req'[d].key)
                        /\ \A r \in Records(req'[d].key) : Place(r) <= req'[d].offset => r \in req'[d].hits
    BY <1>9, <2>1 DEF LookupKnows, Seen
  <2>3. CASE d = c
    <3>1. \A r \in held : ~(Place(r) <= 0)
      BY PlacePositive
    <3> QED BY <1>4, <1>7, <2>3, <3>1 DEF Records
  <2>4. CASE d # c
    BY <1>7, <1>9, <2>2, <2>4 DEF RkInv, LookupKnows, Seen
  <2> QED BY <2>3, <2>4
<1>22. KeyFollowsWriter'
  <2>1. ASSUME NEW k \in RemoteKeys PROVE KeyOK(k)'
    <3>1. CASE k # key \/ kind = "get"
      <4>1. \A d \in Callers : Writes(d, k) => d # c /\ req'[d] = req[d]
        BY <1>7, <1>19
      <4>2. \A d \in Callers : Writes(d, k)' <=> Writes(d, k)
        BY <1>18, <1>19, <3>1
      <4>3. \A d \in Callers : Writes(d, k) => (ChangeAhead(d)' => ChangeAhead(d)) /\ (AddAhead(d)' => AddAhead(d))
        BY <1>17, <4>1 DEF ChangeAhead, AddAhead
      <4> QED BY <1>9, <4>1, <4>2, <4>3, KeyKept
    <3>2. CASE k = key /\ kind # "get"
      <4>1. SUFFICES ASSUME Clean(key)'
                     PROVE  /\ Exact(key)
                            /\ \A d \in Callers : Writes(d, key)' => ~ChangeAhead(d)' /\ ~AddAhead(d)'
        BY <1>9, <3>2 DEF KeyOK
      <4>2. key \notin raced'
        BY <4>1 DEF Clean
      <4>3. \A d \in Callers : ~Writes(d, key)
        BY <1>1, <3>2, <4>2
      <4>4. Exact(key)
        BY <1>9, <4>1, <4>3 DEF RkInv, KeyFollowsWriter, KeyOK
      <4>5. \A d \in Callers : Writes(d, key)' => d = c
        BY <1>18, <4>3
      <4>6. ~ChangeAhead(c)' /\ ~AddAhead(c)'
        BY <1>4, <1>7, <1>17 DEF ChangeAhead, AddAhead
      <4> QED BY <4>4, <4>5, <4>6
    <3> QED BY <3>1, <3>2
  <2> QED BY <2>1 DEF KeyFollowsWriter
<1>23. OnlyRemovalEmpties'
  <2>1. ASSUME NEW k \in RemoteKeys PROVE KeptOK(k)'
    <3>1. \A d \in Callers : Removing(d, k) => req'[d] = req[d] /\ (Carries(d, "remove")' => Carries(d, "remove"))
      BY <1>7, <1>8, <1>17 DEF Removing
    <3> QED BY <1>1, <1>9, <3>1, StaysKept
  <2> QED BY <2>1 DEF OnlyRemovalEmpties
<1> QED BY <1>10, <1>11, <1>13, <1>15, <1>16, <1>20, <1>21, <1>22, <1>23 DEF RkInv

\* A write on its way is the caller's own, and the only one.
LEMMA RkSendStep == ASSUME RkInv, NEW c \in Callers, SendOnce(c) PROVE RkInv'
<1>1. /\ UNCHANGED <<service, held, lastId, begun, expected, raced, unanswered, torn, shifted>>
      /\ req[c].step \in {"add", "replace", "remove"}
  BY DEF SendOnce
<1>2. req[c] \in CallSet /\ CallOK(req[c]) /\ IdsFit(req[c]) /\ req \in [Callers -> CallSet]
      /\ begun \in Nat /\ lastId \in Nat /\ wires \subseteq WireSet
  BY CallFacts DEF RkInv, RkTyped
<1>3. PICK w0 : w0 = [op |-> req[c].step, id |-> req[c].id, key |-> req[c].key, no |-> req[c].no]
  OBVIOUS
<1>4. /\ w0.op = req[c].step /\ w0.id = req[c].id /\ w0.key = req[c].key /\ w0.no = req[c].no
      /\ w0 \in WireSet /\ wires' = wires \cup {w0}
  <2>1. req[c].key \in RemoteKeys /\ req[c].id \in Nat /\ req[c].no \in Nat
    BY <1>1, <1>2 DEF CallOK, CallSet
  <2> QED BY <1>1, <1>3, <2>1 DEF SendOnce, WireSet
<1>5. PICK x : x = [req[c] EXCEPT !.step = IF @ = "remove" THEN "removing" ELSE "writing"]
  OBVIOUS
<1>6. /\ x \in CallSet /\ x.kind = req[c].kind /\ x.key = req[c].key /\ x.no = req[c].no
      /\ x.tried = req[c].tried /\ x.id = req[c].id /\ x.offset = req[c].offset /\ x.hits = req[c].hits
      /\ x.step = IF req[c].step = "remove" THEN "removing" ELSE "writing"
  BY <1>2, <1>5 DEF CallSet, RkSteps
<1>7. req' = [req EXCEPT ![c] = x]
  BY <1>2, <1>5 DEF SendOnce
<1>8. /\ req' \in [Callers -> CallSet] /\ req'[c] = x
      /\ \A d \in Callers : d # c => req'[d] = req[d]
  BY <1>6, <1>7, CallStep
<1>9. \A k : /\ (Clean(k)' <=> Clean(k)) /\ Records(k)' = Records(k)
             /\ (Exact(k)' <=> Exact(k)) /\ (Emptied(k)' <=> Emptied(k))
  BY <1>1 DEF Clean, Records, Exact, Emptied
<1>10. RkTyped' /\ IdsUnique'
  BY <1>1, <1>4, <1>8 DEF RkInv, RkTyped, IdsUnique
<1>11. CallsSound'
  <2>1. CallOK(x)
    BY <1>1, <1>2, <1>6 DEF CallOK
  <2>2. \A y : CallOK(y)' <=> CallOK(y)
    BY <1>1 DEF CallOK
  <2> QED BY <1>8, <2>1, <2>2 DEF RkInv, CallsSound
<1>12. NosUnique'
  BY <1>6, <1>8 DEF RkInv, NosUnique
<1>13. IdsOfCalls' /\ IdsOfWires'
  <2>1. IdsFit(x)
    BY <1>2, <1>6 DEF IdsFit
  <2>2. WireOK(w0)
    <3>1. w0.no \in 1 .. begun /\ w0.id <= lastId /\ (w0.op # "add" => w0.id > 0)
      BY <1>1, <1>2, <1>4 DEF CallOK, IdsFit, CallSet
    <3> QED BY <1>1, <1>2, <1>4, <3>1 DEF WireOK, CallOK, IdsFit
  <2>3. \A y : (IdsFit(y)' <=> IdsFit(y)) /\ (WireOK(y)' <=> WireOK(y))
    BY <1>1 DEF IdsFit, WireOK
  <2> QED BY <1>4, <1>8, <2>1, <2>2, <2>3 DEF RkInv, IdsOfCalls, IdsOfWires
<1>14. /\ \A w \in wires : w.no # req[c].no
       /\ \A d \in Callers : d # c => req[d].no # req[c].no
  <2>1. \A w \in wires : w.no # req[c].no
    BY <1>1 DEF RkInv, WiresOwned, Waits
  <2>2. req[c].no > 0
    BY <1>1, <1>2 DEF CallOK
  <2> QED BY <2>1, <2>2 DEF RkInv, NosUnique
<1>15. WiresOwned'
  <2>1. ASSUME NEW w \in wires'
        PROVE  /\ \A d \in Callers : req'[d].no = w.no =>
                    Waits(d, w)' /\ req'[d].key = w.key /\ req'[d].id = w.id
               /\ \A v \in wires' : v.no = w.no => v = w
               /\ \/ \E d \in Callers : req'[d].no = w.no
                  \/ <<w.key, IF w.op = "remove" THEN "removing" ELSE "writing">> \in unanswered
    <3>1. CASE w = w0
      <4>1. \A d \in Callers : req'[d].no = w.no => d = c
        BY <1>4, <1>8, <1>14, <3>1
      <4>2. Waits(c, w)' /\ req'[c].key = w.key /\ req'[c].id = w.id /\ req'[c].no = w.no
        BY <1>4, <1>6, <1>8, <3>1 DEF Waits
      <4>3. \A v \in wires' : v.no = w.no => v = w
        BY <1>4, <1>14, <3>1
      <4> QED BY <4>1, <4>2, <4>3
    <3>2. CASE w \in wires
      <4>1. ASSUME NEW d \in Callers, req'[d].no = w.no
            PROVE  Waits(d, w)' /\ req'[d].key = w.key /\ req'[d].id = w.id
        <5>1. d # c /\ req'[d] = req[d]
          BY <1>6, <1>8, <1>14, <3>2, <4>1
        <5>2. Waits(d, w) /\ req[d].key = w.key /\ req[d].id = w.id
          BY <3>2, <4>1, <5>1 DEF RkInv, WiresOwned
        <5> QED BY <5>1, <5>2 DEF Waits
      <4>2. \A v \in wires' : v.no = w.no => v = w
        BY <1>4, <1>14, <3>2 DEF RkInv, WiresOwned
      <4>3. \A d \in Callers : req[d].no = w.no => req'[d].no = w.no
        BY <1>6, <1>8
      <4> QED BY <3>2, <4>1, <4>2, <4>3 DEF RkInv, WiresOwned
    <3> QED BY <1>4, <3>1, <3>2
  <2> QED BY <1>1, <2>1 DEF WiresOwned
<1>16. \A d \in Callers : \A op : /\ d # c => (Carries(d, op)' <=> Carries(d, op))
                                  /\ d = c => (Carries(d, op)' <=> op = req[c].step)
  BY <1>4, <1>6, <1>8, <1>14 DEF Carries
<1>17. \A d \in Callers : \A k : Writes(d, k)' <=> Writes(d, k)
  BY <1>6, <1>8 DEF Writes
<1>18. OneWriter'
  BY <1>1, <1>17 DEF RkInv, OneWriter
<1>19. LookupKnows'
  <2>1. \A r : Place(r)' = Place(r)
    BY <1>1 DEF Place
  <2>2. SUFFICES ASSUME NEW d \in Callers, req'[d].step = "lookup", Clean(req'[d].key), req'[d].kind \in Writers
                 PROVE  /\ req'[d].hits \subseteq Records(req'[d].key)
                        /\ \A r \in Records(req'[d].key) : Place(r) <= req'[d].offset => r \in req'[d].hits
    BY <1>9, <2>1 DEF LookupKnows, Seen
  <2>3. d # c
    BY <1>6, <1>8, <2>2
  <2> QED BY <1>8, <2>2, <2>3 DEF RkInv, LookupKnows, Seen
<1>20. KeyFollowsWriter'
  <2>1. \A d \in Callers : /\ ChangeAhead(d)' => ChangeAhead(d)
                           /\ AddAhead(d)' => AddAhead(d)
    <3>1. ASSUME NEW d \in Callers, d # c PROVE (ChangeAhead(d)' => ChangeAhead(d)) /\ (AddAhead(d)' => AddAhead(d))
      BY <1>8, <1>16, <3>1 DEF ChangeAhead, AddAhead
    <3>2. (ChangeAhead(c)' => ChangeAhead(c)) /\ (AddAhead(c)' => AddAhead(c))
      BY <1>1, <1>6, <1>8, <1>16 DEF ChangeAhead, AddAhead
    <3> QED BY <3>1, <3>2
  <2>2. \A d \in Callers : req'[d].id = req[d].id /\ (req'[d].step = "lookup" => req[d].step = "lookup")
    BY <1>6, <1>8
  <2>3. ASSUME NEW k \in RemoteKeys PROVE KeyOK(k)'
    BY <1>9, <1>17, <2>1, <2>2, KeyKept
  <2> QED BY <2>3 DEF KeyFollowsWriter
<1>21. OnlyRemovalEmpties'
  <2>1. ASSUME NEW k \in RemoteKeys PROVE KeptOK(k)'
    <3>1. \A d \in Callers : Removing(d, k) => req'[d] = req[d] /\ (Carries(d, "remove")' => Carries(d, "remove"))
      BY <1>1, <1>8, <1>16 DEF Removing
    <3> QED BY <1>1, <1>9, <3>1, StaysKept
  <2> QED BY <2>1 DEF OnlyRemovalEmpties
<1> QED BY <1>10, <1>11, <1>12, <1>13, <1>15, <1>18, <1>19, <1>20, <1>21 DEF RkInv

\* A lost write leaves its caller waiting and the records as they were.
LEMMA LostStep == ASSUME RkInv, NEW w0 \in wires, WriteLost(w0) PROVE RkInv'
<1>1. /\ UNCHANGED <<service, held, lastId, req, begun, expected, raced, unanswered, torn, shifted>>
      /\ wires' = wires \ {w0}
  BY DEF WriteLost
<1>2. \A k : /\ (Clean(k)' <=> Clean(k)) /\ Records(k)' = Records(k)
             /\ (Exact(k)' <=> Exact(k)) /\ (Emptied(k)' <=> Emptied(k))
  BY <1>1 DEF Clean, Records, Exact, Emptied
<1>3. RkTyped' /\ IdsUnique' /\ NosUnique'
  BY <1>1 DEF RkInv, RkTyped, IdsUnique, NosUnique
<1>4. CallsSound' /\ IdsOfCalls' /\ IdsOfWires'
  <2>1. \A y : (CallOK(y)' <=> CallOK(y)) /\ (IdsFit(y)' <=> IdsFit(y)) /\ (WireOK(y)' <=> WireOK(y))
    BY <1>1 DEF CallOK, IdsFit, WireOK
  <2> QED BY <1>1, <2>1 DEF RkInv, CallsSound, IdsOfCalls, IdsOfWires
<1>5. WiresOwned'
  BY <1>1 DEF RkInv, WiresOwned, Waits
<1>6. \A d \in Callers : \A k : Writes(d, k)' <=> Writes(d, k)
  BY <1>1 DEF Writes
<1>7. OneWriter'
  BY <1>1, <1>6 DEF RkInv, OneWriter
<1>8. \A d \in Callers : \A op : Carries(d, op)' => Carries(d, op)
  BY <1>1 DEF Carries
<1>9. LookupKnows'
  <2>1. \A r : Place(r)' = Place(r)
    BY <1>1 DEF Place
  <2> QED BY <1>1, <1>2, <2>1 DEF RkInv, LookupKnows, Seen
<1>10. KeyFollowsWriter'
  <2>1. \A d \in Callers : /\ ChangeAhead(d)' => ChangeAhead(d)
                           /\ AddAhead(d)' => AddAhead(d)
    BY <1>1, <1>8 DEF ChangeAhead, AddAhead
  <2>2. ASSUME NEW k \in RemoteKeys PROVE KeyOK(k)'
    BY <1>1, <1>2, <1>6, <2>1, KeyKept
  <2> QED BY <2>2 DEF KeyFollowsWriter
<1>11. OnlyRemovalEmpties'
  <2>1. ASSUME NEW k \in RemoteKeys PROVE KeptOK(k)'
    BY <1>1, <1>2, <1>8, StaysKept
  <2> QED BY <2>1 DEF OnlyRemovalEmpties
<1> QED BY <1>3, <1>4, <1>5, <1>7, <1>9, <1>10, <1>11 DEF RkInv

\* A call that was writing ends: what it had sent is settled, or unanswered.
LEMMA WriterEnds ==
  ASSUME RkInv, UNCHANGED <<service, held, lastId, begun, expected, raced, shifted>>,
         NEW c \in Callers, req[c].step \in {"writing", "removing"}, req' = [req EXCEPT ![c] = Resting],
         wires' \subseteq wires, unanswered \subseteq unanswered', torn \subseteq torn',
         \A w \in wires' : w.no # req[c].no
           \/ <<w.key, IF w.op = "remove" THEN "removing" ELSE "writing">> \in unanswered',
         \A k : Clean(k)' /\ Writes(c, k) => Exact(k)',
         \A k : Removing(c, k) => <<k, "removing">> \in unanswered'
  PROVE  RkInv'
<1>1. /\ req' \in [Callers -> CallSet] /\ req'[c] = Resting
      /\ \A d \in Callers : d # c => req'[d] = req[d]
  BY CallStep, RestingFields
<1>2. \A k : /\ (Clean(k)' => Clean(k)) /\ Records(k)' = Records(k)
             /\ (Exact(k) => Exact(k)') /\ (Emptied(k) => Emptied(k)')
  BY DEF Clean, Records, Exact, Emptied
<1>3. RkTyped' /\ IdsUnique'
  BY <1>1 DEF RkInv, RkTyped, IdsUnique
<1>4. CallsSound' /\ IdsOfCalls' /\ IdsOfWires'
  <2>1. \A y : (CallOK(y)' <=> CallOK(y)) /\ (IdsFit(y)' <=> IdsFit(y)) /\ (WireOK(y)' <=> WireOK(y))
    BY DEF CallOK, IdsFit, WireOK
  <2> QED BY <1>1, <2>1, RestingOK DEF RkInv, CallsSound, IdsOfCalls, IdsOfWires
<1>5. NosUnique'
  BY <1>1, RestingFields DEF RkInv, NosUnique
<1>6. \A w \in wires : w.no # 0
  BY DEF RkInv, IdsOfWires, WireOK
<1>7. WiresOwned'
  <2>1. ASSUME NEW w \in wires'
        PROVE  /\ \A d \in Callers : req'[d].no = w.no =>
                    Waits(d, w)' /\ req'[d].key = w.key /\ req'[d].id = w.id
               /\ \A v \in wires' : v.no = w.no => v = w
               /\ \/ \E d \in Callers : req'[d].no = w.no
                  \/ <<w.key, IF w.op = "remove" THEN "removing" ELSE "writing">> \in unanswered'
    <3>1. ASSUME NEW d \in Callers, req'[d].no = w.no
          PROVE  Waits(d, w)' /\ req'[d].key = w.key /\ req'[d].id = w.id
      <4>1. d # c /\ req'[d] = req[d]
        BY <1>1, <1>6, <3>1, RestingFields
      <4>2. Waits(d, w) /\ req[d].key = w.key /\ req[d].id = w.id
        BY <3>1, <4>1 DEF RkInv, WiresOwned
      <4> QED BY <4>1, <4>2 DEF Waits
    <3>2. \A v \in wires' : v.no = w.no => v = w
      BY DEF RkInv, WiresOwned
    <3>3. \A d \in Callers : d # c /\ req[d].no = w.no => req'[d].no = w.no
      BY <1>1
    <3> QED BY <3>1, <3>2, <3>3 DEF RkInv, WiresOwned
  <2> QED BY <2>1 DEF WiresOwned
<1>8. \A k : ~Writes(c, k)' /\ \A d \in Callers : d # c => (Writes(d, k)' <=> Writes(d, k))
  BY <1>1, RestingFields DEF Writes, Writers
<1>9. OneWriter'
  BY <1>8 DEF RkInv, OneWriter
<1>10. \A d \in Callers : \A op : d # c => (Carries(d, op)' => Carries(d, op))
  BY <1>1 DEF Carries
<1>11. LookupKnows'
  <2>1. \A r : Place(r)' = Place(r)
    BY DEF Place
  <2>2. SUFFICES ASSUME NEW d \in Callers, req'[d].step = "lookup", Clean(req'[d].key), req'[d].kind \in Writers
                 PROVE  /\ req'[d].hits \subseteq Records(req'[d].key)
                        /\ \A r \in Records(req'[d].key) : Place(r) <= req'[d].offset => r \in req'[d].hits
    BY <1>2, <2>1 DEF LookupKnows, Seen
  <2>3. d # c
    BY <1>1, <2>2, RestingFields
  <2> QED BY <1>1, <2>2, <2>3 DEF RkInv, LookupKnows, Seen
<1>12. KeyFollowsWriter'
  <2>1. ASSUME NEW k \in RemoteKeys PROVE KeyOK(k)'
    <3>1. CASE Writes(c, k)
      <4>1. SUFFICES ASSUME Clean(k)' PROVE Exact(k)' /\ \A d \in Callers : ~Writes(d, k)'
        BY DEF KeyOK
      <4>2. k \notin raced
        BY <4>1 DEF Clean
      <4>3. \A d \in Callers : ~Writes(d, k)'
        BY <1>8, <3>1, <4>2 DEF RkInv, OneWriter
      <4> QED BY <3>1, <4>1, <4>3
    <3>2. CASE ~Writes(c, k)
      <4>1. \A d \in Callers : Writes(d, k)' <=> Writes(d, k)
        BY <1>8, <3>2
      <4>2. \A d \in Callers : Writes(d, k) => d # c /\ req'[d] = req[d]
        BY <1>1, <3>2
      <4>3. \A d \in Callers : Writes(d, k) => (ChangeAhead(d)' => ChangeAhead(d)) /\ (AddAhead(d)' => AddAhead(d))
        BY <1>10, <4>2 DEF ChangeAhead, AddAhead
      <4> QED BY <1>2, <4>1, <4>2, <4>3, KeyKept
    <3> QED BY <3>1, <3>2
  <2> QED BY <2>1 DEF KeyFollowsWriter
<1>13. OnlyRemovalEmpties'
  <2>1. ASSUME NEW k \in RemoteKeys PROVE KeptOK(k)'
    <3>1. \A d \in Callers : Removing(d, k) =>
            (req'[d] = req[d] /\ (Carries(d, "remove")' => Carries(d, "remove"))) \/ <<k, "removing">> \in unanswered'
      BY <1>1, <1>10
    <3> QED BY <1>2, <3>1, StaysKept
  <2> QED BY <2>1 DEF OnlyRemovalEmpties
<1> QED BY <1>3, <1>4, <1>5, <1>7, <1>9, <1>11, <1>12, <1>13 DEF RkInv

\* A caller that gives up leaves its key among the unanswered.
LEMMA UnansweredStep == ASSUME RkInv, NEW c \in Callers, WriteUnanswered(c) PROVE RkInv'
<1>1. /\ UNCHANGED <<service, held, lastId, wires, begun, expected, raced, torn, shifted>>
      /\ req[c].step \in {"writing", "removing"} /\ req' = [req EXCEPT ![c] = Resting]
      /\ unanswered' = unanswered \cup {<<req[c].key, req[c].step>>}
  BY DEF WriteUnanswered, Finish
<1>2. \A w \in wires' : w.no # req[c].no
        \/ <<w.key, IF w.op = "remove" THEN "removing" ELSE "writing">> \in unanswered'
  BY <1>1 DEF RkInv, WiresOwned, Waits
<1>3. \A k : Clean(k)' /\ Writes(c, k) => Exact(k)'
  <2>1. ASSUME NEW k, Clean(k)', Writes(c, k) PROVE FALSE
    <3>1. <<k, req[c].step>> \in unanswered'
      BY <1>1, <2>1 DEF Writes
    <3> QED BY <2>1, <3>1 DEF Clean
  <2> QED BY <2>1
<1>4. \A k : Removing(c, k) => <<k, "removing">> \in unanswered'
  BY <1>1 DEF Removing, Writes
<1> QED BY <1>1, <1>2, <1>3, <1>4, WriterEnds

\* A refused write ends its call; a refused addition may leave the key torn.
LEMMA RefusedStep == ASSUME RkInv, NEW w0 \in wires, WriteRefused(w0) PROVE RkInv'
<1>1. /\ UNCHANGED <<service, held, lastId, begun, expected, raced, unanswered, shifted>>
      /\ wires' = wires \ {w0}
  BY DEF WriteRefused
<1>2. PICK c \in Callers : /\ Waits(c, w0) /\ req' = [req EXCEPT ![c] = Resting]
                           /\ torn' = IF req[c].id # 0 /\ w0.op = "add" THEN torn \cup {w0.key} ELSE torn
  BY DEF WriteRefused, Finish
<1>3. /\ req[c].no = w0.no /\ req[c].step = IF w0.op = "remove" THEN "removing" ELSE "writing"
      /\ req[c].key = w0.key /\ req[c].id = w0.id /\ \A v \in wires : v.no = w0.no => v = w0
      /\ w0.op \in {"add", "replace", "remove"} /\ w0.key \in RemoteKeys
      /\ (w0.op = "add" /\ w0.id # 0 => service = "agentmemory")
  BY <1>2 DEF RkInv, WiresOwned, Waits, IdsOfWires, WireOK, RkTyped, WireSet
<1>4. Carries(c, w0.op)
  BY <1>3 DEF Carries
<1>5. ASSUME NEW k, Clean(k)', Writes(c, k) PROVE Exact(k)'
  <2>1. k = w0.key /\ k \in RemoteKeys
    BY <1>3, <1>5 DEF Writes
  <2>2. Clean(k)
    BY <1>1, <1>5 DEF Clean
  <2>3. KeyOK(k)
    BY <2>1 DEF RkInv, KeyFollowsWriter
  <2>4. Records(k)' = Records(k) /\ (Emptied(k) => Emptied(k)')
    BY <1>1, <1>2 DEF Records, Emptied
  <2>5. CASE w0.op = "add"
    <3>1. Records(k) = {} /\ (req[c].id = 0 => Emptied(k))
      BY <1>4, <1>5, <2>2, <2>3, <2>5 DEF KeyOK, AddAhead
    <3>2. req[c].id # 0 => Emptied(k)'
      BY <1>1, <1>2, <1>3, <2>1, <2>5 DEF Emptied
    <3> QED BY <2>4, <3>1, <3>2 DEF Exact
  <2>6. CASE w0.op # "add"
    <3>1. ChangeAhead(c)
      BY <1>3, <1>4, <2>6 DEF ChangeAhead
    <3>2. Exact(k)
      BY <1>5, <2>2, <2>3, <3>1 DEF KeyOK
    <3> QED BY <1>1, <2>4, <3>2 DEF Exact
  <2> QED BY <2>5, <2>6
<1>6. \A k : ~Removing(c, k)
  BY <1>3, <1>4 DEF Removing
<1>7. \A w \in wires' : w.no # req[c].no
  BY <1>1, <1>3
<1>8. torn \subseteq torn' /\ req[c].step \in {"writing", "removing"}
  BY <1>2, <1>3
<1> QED BY <1>1, <1>2, <1>5, <1>6, <1>7, <1>8, WriterEnds

-----------------------------------------------------------------------------
(* A write arrives. *)

\* What the service holds afterwards: ids stay unique, and only records of the
\* write's key are touched.
LEMMA EffectOK ==
  ASSUME RkInv, NEW w0 \in wires, held' = Effect(w0), lastId' = IF w0.op = "add" THEN lastId + 1 ELSE lastId
  PROVE  /\ held' \subseteq RecordSet /\ lastId' \in Nat /\ lastId <= lastId'
         /\ \A r \in held' : r.id \in 1 .. lastId' /\ r.no \in 1 .. MaxBegun + 1
         /\ \A r, q \in held' : r.id = q.id => r = q
         /\ \A r \in held' : \/ \E q \in held : q.id = r.id /\ q.key = r.key
                             \/ ~(r.id <= lastId)
         /\ \A k : k # w0.key => Records(k)' = Records(k)
<1>1. /\ w0.op \in {"add", "replace", "remove"} /\ w0.key \in RemoteKeys /\ w0.id \in Nat /\ w0.no \in Nat
      /\ w0.no \in 1 .. begun /\ \A r \in held : w0.id = r.id => w0.key = r.key
      /\ lastId \in Nat /\ begun \in 0 .. MaxBegun /\ MaxBegun \in Nat /\ held \subseteq RecordSet
      /\ \A r \in held : r.id \in 1 .. lastId /\ r.no \in 1 .. MaxBegun + 1
      /\ \A r, q \in held : r.id = q.id => r = q
  BY RemoteAssumption DEF RkInv, RkTyped, WireSet, IdsOfWires, WireOK, IdsUnique
<1>2. w0.no \in 1 .. MaxBegun + 1
  BY <1>1
<1>3. CASE w0.op = "add"
  <2>1. PICK n : n = [id |-> lastId + 1, key |-> w0.key, no |-> w0.no]
    OBVIOUS
  <2>2. n.id = lastId + 1 /\ n.key = w0.key /\ n.no = w0.no /\ n \in RecordSet
    BY <1>1, <2>1 DEF RecordSet
  <2>3. held' = held \cup {n} /\ lastId' = lastId + 1
    BY <1>3, <2>1 DEF Effect
  <2>4. \A r \in held : r.id # n.id /\ r.id \in 1 .. lastId + 1
    BY <1>1, <2>2
  <2>5. n.id \in 1 .. lastId + 1 /\ ~(n.id <= lastId) /\ lastId <= lastId + 1
    BY <1>1, <2>2
  <2> QED BY <1>1, <1>2, <2>2, <2>3, <2>4, <2>5 DEF Records
<1>4. CASE w0.op = "remove"
  <2>1. held' = {r \in held : r.id # w0.id} /\ lastId' = lastId
    BY <1>4 DEF Effect
  <2> QED BY <1>1, <2>1 DEF Records
<1>5. CASE w0.op = "replace"
  <2>1. held' = {IF r.id = w0.id THEN [r EXCEPT !.no = w0.no] ELSE r : r \in held} /\ lastId' = lastId
    BY <1>5 DEF Effect
  <2>2. ASSUME NEW r \in held
        PROVE  /\ [r EXCEPT !.no = w0.no] \in RecordSet /\ [r EXCEPT !.no = w0.no].id = r.id
               /\ [r EXCEPT !.no = w0.no].key = r.key /\ [r EXCEPT !.no = w0.no].no = w0.no
    BY <1>1 DEF RecordSet
  <2>3. ASSUME NEW r \in held'
        PROVE  \E q \in held : /\ q.id = r.id /\ q.key = r.key /\ r \in RecordSet /\ r.no \in 1 .. MaxBegun + 1
                               /\ r = IF q.id = w0.id THEN [q EXCEPT !.no = w0.no] ELSE q
    <3>1. PICK q \in held : r = IF q.id = w0.id THEN [q EXCEPT !.no = w0.no] ELSE q
      BY <2>1
    <3>2. CASE q.id = w0.id
      BY <1>2, <2>2, <3>1, <3>2
    <3>3. CASE q.id # w0.id
      BY <1>1, <3>1, <3>3
    <3> QED BY <3>2, <3>3
  <2>4. ASSUME NEW k, k # w0.key PROVE Records(k)' = Records(k)
    <3>1. ASSUME NEW r \in held, r.key = k PROVE r \in held'
      BY <1>1, <2>1, <2>4, <3>1
    <3>2. ASSUME NEW r \in held', r.key = k PROVE r \in held
      BY <1>1, <2>3, <2>4, <3>2
    <3> QED BY <3>1, <3>2 DEF Records
  <2>5. ASSUME NEW r \in held', NEW q \in held', r.id = q.id PROVE r = q
    <3>1. PICK a \in held : a.id = r.id /\ r = IF a.id = w0.id THEN [a EXCEPT !.no = w0.no] ELSE a
      BY <2>3
    <3>2. PICK b \in held : b.id = q.id /\ q = IF b.id = w0.id THEN [b EXCEPT !.no = w0.no] ELSE b
      BY <2>3
    <3>3. a = b
      BY <1>1, <2>5, <3>1, <3>2
    <3> QED BY <3>1, <3>2, <3>3
  <2>6. \A r \in held' : /\ r \in RecordSet /\ r.id \in 1 .. lastId /\ r.no \in 1 .. MaxBegun + 1
                         /\ \E q \in held : q.id = r.id /\ q.key = r.key
    BY <1>1, <2>3
  <2> QED BY <1>1, <2>1, <2>4, <2>5, <2>6
<1> QED BY <1>1, <1>3, <1>4, <1>5

\* The write's own key afterwards, when it was clean: the record just written,
\* or none.
LEMMA EffectOnKey ==
  ASSUME RkInv, NEW w0 \in wires, held' = Effect(w0), NEW c \in Callers, Waits(c, w0), Clean(w0.key)
  PROVE  /\ w0.op = "remove" => Records(w0.key)' = {}
         /\ w0.op # "remove" => \E n : Records(w0.key)' = {n} /\ n.no = w0.no
<1>1. /\ req[c].no = w0.no /\ req[c].key = w0.key /\ req[c].id = w0.id /\ w0.key \in RemoteKeys
      /\ w0.op \in {"add", "replace", "remove"} /\ req[c].step = IF w0.op = "remove" THEN "removing" ELSE "writing"
  BY DEF RkInv, RkTyped, WireSet, WiresOwned, Waits
<1>2. Writes(c, w0.key) /\ Carries(c, w0.op)
  <2>1. req[c].kind \in Writers
    BY <1>1, CallFacts DEF CallOK, Writers
  <2> QED BY <1>1, <2>1 DEF Writes, Carries
<1>3. KeyOK(w0.key)
  BY <1>1 DEF RkInv, KeyFollowsWriter
<1>4. CASE w0.op = "add"
  <2>1. Records(w0.key) = {}
    BY <1>2, <1>3, <1>4 DEF KeyOK, AddAhead
  <2>2. PICK n : n = [id |-> lastId + 1, key |-> w0.key, no |-> w0.no]
    OBVIOUS
  <2>3. held' = held \cup {n} /\ n.key = w0.key /\ n.no = w0.no
    BY <1>4, <2>2 DEF Effect
  <2>4. Records(w0.key)' = {n}
    BY <2>1, <2>3 DEF Records
  <2> QED BY <1>4, <2>3, <2>4
<1>5. CASE w0.op \in {"replace", "remove"}
  <2>1. Exact(w0.key) /\ \E r \in Records(w0.key) : r.id = w0.id
    <3>1. ChangeAhead(c)
      BY <1>2, <1>5 DEF ChangeAhead
    <3> QED BY <1>1, <1>2, <1>3, <3>1 DEF KeyOK
  <2>2. PICK r \in Records(w0.key) : r.id = w0.id
    BY <2>1
  <2>3. \A q \in Records(w0.key) : q = r
    BY <2>1 DEF Exact
  <2>4. CASE w0.op = "remove"
    <3>1. held' = {q \in held : q.id # w0.id}
      BY <2>4 DEF Effect
    <3> QED BY <2>2, <2>3, <2>4, <3>1 DEF Records
  <2>5. CASE w0.op = "replace"
    <3>1. held' = {IF q.id = w0.id THEN [q EXCEPT !.no = w0.no] ELSE q : q \in held}
      BY <2>5 DEF Effect
    <3>2. PICK n : n = [r EXCEPT !.no = w0.no]
      OBVIOUS
    <3>3. r \in held /\ r.key = w0.key /\ \A q \in held : q \in RecordSet
      BY DEF Records, RkInv, RkTyped
    <3>4. n.key = w0.key /\ n.no = w0.no /\ n \in held'
      BY <2>2, <3>1, <3>2, <3>3 DEF RecordSet
    <3>5. ASSUME NEW p \in held', p.key = w0.key PROVE p = n
      <4>1. PICK q \in held : p = IF q.id = w0.id THEN [q EXCEPT !.no = w0.no] ELSE q
        BY <3>1
      <4>2. q.key = w0.key
        BY <3>3, <3>5, <4>1 DEF RecordSet
      <4>3. q = r
        BY <2>3, <4>2 DEF Records
      <4> QED BY <2>2, <3>2, <4>1, <4>3
    <3>6. Records(w0.key)' = {n}
      BY <3>4, <3>5 DEF Records
    <3> QED BY <2>5, <3>4, <3>6
  <2> QED BY <1>5, <2>4, <2>5
<1> QED BY <1>1, <1>4, <1>5

\* Places afterwards start at 1 again.
LEMMA PlaceAfter ==
  ASSUME UNCHANGED service, lastId' \in Nat, \A r \in held' : r.id \in 1 .. lastId',
         \A r, q \in held' : r.id = q.id => r = q, NEW r \in held'
  PROVE  Place(r)' \in Nat \ {0}
<1>1. PICK H, S : H = held' /\ S = {q \in H : IF service = "supermemory" THEN q.id >= r.id ELSE q.id <= r.id}
  OBVIOUS
<1>2. r \in S /\ S \in SUBSET H
  BY <1>1
<1>3. IsFiniteSet(H)
  BY <1>1, NumberedFinite
<1>4. IsFiniteSet(S)
  BY <1>2, <1>3, FS_Subset
<1>5. Cardinality(S) \in Nat /\ Cardinality(S) # 0
  BY <1>2, <1>4, FS_CardinalityType, FS_EmptySet
<1> QED BY <1>1, <1>5 DEF Place

\* A write that removes nothing moves no record towards the front.
LEMMA PlacesGrow ==
  ASSUME RkInv, UNCHANGED service, NEW w0 \in wires, w0.op # "remove", held' = Effect(w0), lastId' \in Nat,
         \A r \in held' : r.id \in 1 .. lastId', \A r, q \in held' : r.id = q.id => r = q, NEW x \in held
  PROVE  Place(x) <= Place(x)'
<1>1. PICK A, B, H : /\ H = held'
                     /\ A = {q \in held : IF service = "supermemory" THEN q.id >= x.id ELSE q.id <= x.id}
                     /\ B = {q \in H : IF service = "supermemory" THEN q.id >= x.id ELSE q.id <= x.id}
  OBVIOUS
<1>2. B \in SUBSET H /\ IsFiniteSet(H)
  BY <1>1, NumberedFinite
<1>3. IsFiniteSet(B)
  BY <1>2, FS_Subset
<1>4. PICK f : f = [q \in A |-> IF w0.op = "replace" /\ q.id = w0.id THEN [q EXCEPT !.no = w0.no] ELSE q]
  OBVIOUS
<1>5. \A q \in held : /\ [q EXCEPT !.no = w0.no].id = q.id
                      /\ q \in RecordSet
  BY DEF RkInv, RkTyped, RecordSet
<1>6. ASSUME NEW q \in A PROVE f[q] \in B /\ f[q].id = q.id
  <2>1. f[q].id = q.id
    BY <1>1, <1>4, <1>5
  <2>2. f[q] \in H
    <3>1. CASE w0.op = "add"
      BY <1>1, <1>4, <3>1 DEF Effect
    <3>2. CASE w0.op = "replace"
      <4>1. H = {IF p.id = w0.id THEN [p EXCEPT !.no = w0.no] ELSE p : p \in held}
        BY <1>1, <3>2 DEF Effect
      <4>2. f[q] = IF q.id = w0.id THEN [q EXCEPT !.no = w0.no] ELSE q
        BY <1>4, <3>2
      <4>3. q \in held
        BY <1>1
      <4>4. \E p \in held : f[q] = IF p.id = w0.id THEN [p EXCEPT !.no = w0.no] ELSE p
        BY <4>2, <4>3
      <4> QED BY <4>1, <4>4
    <3>3. w0.op \in {"add", "replace", "remove"}
      BY DEF RkInv, RkTyped, WireSet
    <3> QED BY <3>1, <3>2, <3>3
  <2> QED BY <1>1, <2>1, <2>2
<1>7. ASSUME NEW p \in A, NEW q \in A, f[p] = f[q] PROVE p = q
  <2>1. p.id = q.id
    BY <1>6, <1>7
  <2> QED BY <1>1, <2>1 DEF RkInv, IdsUnique
<1>8. f \in Injection(A, B)
  <2>1. f \in [A -> B]
    BY <1>4, <1>6
  <2> QED BY <1>7, <2>1 DEF Injection, IsInjective
<1>9. Cardinality(A) <= Cardinality(B)
  BY <1>3, <1>8, FS_Injection
<1> QED BY <1>1, <1>9 DEF Place

\* A write that arrives changes its own key, as its caller waits for.
LEMMA ArrivesStep == ASSUME RkInv, NEW w0 \in wires, WriteArrives(w0) PROVE RkInv'
<1> DEFINE GoesOn(d) == /\ Waits(d, w0) /\ w0.op = "remove" /\ req[d].kind = "upsert"
                      /\ req'[d] = [req[d] EXCEPT !.step = "add"]
           Ended(d) == /\ Waits(d, w0) /\ ~(w0.op = "remove" /\ req[d].kind = "upsert") /\ req'[d] = Resting
                      /\ expected' = [expected EXCEPT ![w0.key] = IF w0.op = "remove" THEN 0 ELSE w0.no]
<1>1. /\ UNCHANGED <<service, begun, raced, unanswered, torn>>
      /\ wires' = wires \ {w0} /\ Applies(w0) /\ held' = Effect(w0)
      /\ lastId' = (IF w0.op = "add" THEN lastId + 1 ELSE lastId)
      /\ shifted \subseteq shifted'
      /\ w0.op = "remove" => \A d \in Callers : req[d].offset > 0 => req[d].key \in shifted'
  BY DEF WriteArrives
<1>2. /\ req \in [Callers -> CallSet] /\ expected \in [RemoteKeys -> Nat] /\ lastId \in Nat
      /\ w0 \in WireSet /\ w0.op \in {"add", "replace", "remove"} /\ w0.key \in RemoteKeys /\ w0.no \in Nat
      /\ w0.no # 0
  BY DEF RkInv, RkTyped, WireSet, IdsOfWires, WireOK
<1>3. /\ req' \in [Callers -> CallSet] /\ expected' \in [RemoteKeys -> Nat]
      /\ \A k \in RemoteKeys : k # w0.key => expected'[k] = expected[k]
      /\ \A d \in Callers : req'[d] = req[d] \/ GoesOn(d) \/ Ended(d)
  <2>1. CASE UNCHANGED <<req, expected>>
    BY <1>2, <2>1
  <2>2. CASE \E c \in Callers : Waits(c, w0) /\ Acknowledge(c, w0)
    <3>1. PICK c \in Callers : Waits(c, w0) /\ Acknowledge(c, w0)
      BY <2>2
    <3>2. CASE w0.op = "remove" /\ req[c].kind = "upsert"
      <4>1. req' = [req EXCEPT ![c].step = "add"] /\ expected' = expected
        BY <3>1, <3>2 DEF Acknowledge
      <4>2. [req[c] EXCEPT !.step = "add"] \in CallSet
        BY <1>2 DEF CallSet, RkSteps
      <4> QED BY <1>2, <3>1, <3>2, <4>1, <4>2
    <3>3. CASE ~(w0.op = "remove" /\ req[c].kind = "upsert")
      <4>1. /\ req' = [req EXCEPT ![c] = Resting]
            /\ expected' = [expected EXCEPT ![w0.key] = IF w0.op = "remove" THEN 0 ELSE w0.no]
        BY <3>1, <3>3 DEF Acknowledge, Finish
      <4>2. req' \in [Callers -> CallSet] /\ req'[c] = Resting /\ \A d \in Callers : d # c => req'[d] = req[d]
        BY <1>2, <4>1, RestingFields
      <4>3. (IF w0.op = "remove" THEN 0 ELSE w0.no) \in Nat
        BY <1>2
      <4>4. expected' \in [RemoteKeys -> Nat] /\ \A k \in RemoteKeys : k # w0.key => expected'[k] = expected[k]
        BY <1>2, <4>1, <4>3
      <4> QED BY <3>1, <3>3, <4>1, <4>2, <4>4
    <3> QED BY <3>2, <3>3
  <2> QED BY <2>1, <2>2 DEF WriteArrives
<1>4. ASSUME NEW d \in Callers, Waits(d, w0)
      PROVE  /\ req[d].no = w0.no /\ req[d].key = w0.key /\ req[d].id = w0.id /\ Writes(d, w0.key)
             /\ req[d].step \in {"writing", "removing"} /\ (req[d].step = "removing" <=> w0.op = "remove")
             /\ \A e \in Callers : Waits(e, w0) => e = d
  <2>1. /\ req[d].no = w0.no /\ req[d].key = w0.key /\ req[d].id = w0.id
        /\ req[d].step = IF w0.op = "remove" THEN "removing" ELSE "writing"
    BY <1>4 DEF RkInv, WiresOwned, Waits
  <2>2. req[d].kind \in Writers
    BY <2>1, CallFacts DEF CallOK, Writers
  <2>3. w0.no > 0
    BY <1>2
  <2> QED BY <2>1, <2>2, <2>3 DEF RkInv, NosUnique, Writes, Waits
<1>5. ASSUME NEW d \in Callers, GoesOn(d)
      PROVE  /\ req'[d].kind = "upsert" /\ req'[d].key = w0.key /\ req'[d].no = w0.no /\ req'[d].step = "add"
             /\ req'[d].id = req[d].id /\ req'[d].hits = req[d].hits /\ req'[d].offset = req[d].offset
             /\ req'[d].tried = req[d].tried /\ req[d].step = "removing" /\ req[d].no = w0.no
  BY <1>2, <1>4, <1>5 DEF CallSet
<1> HIDE DEF GoesOn, Ended
<1>6. ASSUME NEW d \in Callers, Ended(d) PROVE req'[d] = Resting /\ Waits(d, w0)
  BY <1>6 DEF Ended
<1>7. ASSUME NEW d \in Callers, GoesOn(d) PROVE Waits(d, w0)
  BY <1>7 DEF GoesOn
<1>8. /\ held' \subseteq RecordSet /\ lastId' \in Nat /\ lastId <= lastId'
      /\ \A r \in held' : r.id \in 1 .. lastId' /\ r.no \in 1 .. MaxBegun + 1
      /\ \A r, q \in held' : r.id = q.id => r = q
      /\ \A r \in held' : (\E q \in held : q.id = r.id /\ q.key = r.key) \/ ~(r.id <= lastId)
      /\ \A k : k # w0.key => Records(k)' = Records(k)
  BY <1>1, EffectOK
<1>9. RkTyped' /\ IdsUnique'
  BY <1>1, <1>3, <1>8 DEF RkInv, RkTyped, IdsUnique
<1>10. CallsSound'
  <2>1. \A y : CallOK(y)' <=> CallOK(y)
    BY <1>1 DEF CallOK
  <2>2. ASSUME NEW d \in Callers, GoesOn(d) PROVE CallOK(req'[d])
    BY <1>5, <2>2, CallFacts DEF CallOK, GoesOn
  <2>3. ASSUME NEW d \in Callers PROVE CallOK(req'[d])
    BY <1>3, <1>6, <2>2, CallFacts, RestingOK
  <2> QED BY <2>1, <2>3 DEF CallsSound
<1>11. NosUnique'
  <2>1. \A d \in Callers : req'[d].no = req[d].no \/ req'[d].no = 0
    BY <1>3, <1>5, <1>6, RestingFields
  <2> QED BY <2>1 DEF RkInv, NosUnique
<1>12. ASSUME NEW y, y.id \in Nat, y.id <= lastId, \A r \in held : y.id = r.id => y.key = r.key
       PROVE  y.id <= lastId' /\ \A r \in held' : y.id = r.id => y.key = r.key
  BY <1>2, <1>8, <1>12
<1>13. ASSUME NEW x \in CallSet, IdsFit(x) PROVE IdsFit(x)'
  <2>1. x.id \in Nat /\ x.hits \subseteq RecordSet
    BY <1>13 DEF CallSet
  <2>2. x.id <= lastId' /\ \A r \in held' : x.id = r.id => x.key = r.key
    BY <1>12, <1>13, <2>1 DEF IdsFit
  <2>3. ASSUME NEW h \in x.hits
        PROVE  h.key = x.key /\ h.id \in 1 .. lastId' /\ \A r \in held' : h.id = r.id => r.key = h.key
    <3>1. h.key = x.key /\ h.id \in 1 .. lastId /\ \A r \in held : h.id = r.id => h.key = r.key
      BY <1>13 DEF IdsFit
    <3>2. h.id \in Nat /\ h.id <= lastId
      BY <1>2, <3>1
    <3>3. h.id <= lastId' /\ \A r \in held' : h.id = r.id => h.key = r.key
      BY <1>12, <3>1, <3>2
    <3> QED BY <1>8, <3>1, <3>3
  <2> QED BY <2>2, <2>3 DEF IdsFit
<1>14. IdsOfCalls'
  <2>1. ASSUME NEW d \in Callers PROVE IdsFit(req'[d])
    <3>1. CASE GoesOn(d)
      BY <1>4, <1>5, <1>7, <3>1, CallFacts DEF IdsFit
    <3> QED BY <1>3, <1>6, <3>1, CallFacts, RestingOK
  <2>2. ASSUME NEW d \in Callers PROVE IdsFit(req[d])'
    <3>1. PICK x \in CallSet : x = req'[d]
      BY <1>3
    <3>2. IdsFit(x)'
      BY <1>13, <2>1, <3>1
    <3> QED BY <3>1, <3>2
  <2> QED BY <2>2 DEF IdsOfCalls
<1>15. IdsOfWires'
  <2>1. ASSUME NEW w \in wires PROVE WireOK(w)'
    <3>1. WireOK(w) /\ w.id \in Nat
      BY DEF RkInv, IdsOfWires, RkTyped, WireSet
    <3>2. w.id <= lastId' /\ \A r \in held' : w.id = r.id => w.key = r.key
      BY <1>12, <3>1 DEF WireOK
    <3> QED BY <1>1, <3>1, <3>2 DEF WireOK
  <2> QED BY <1>1, <2>1 DEF IdsOfWires
<1>16. \A w \in wires' : w \in wires /\ w.no # w0.no /\ w.no # 0
  <2>1. \A w \in wires : w.no # 0
    BY DEF RkInv, IdsOfWires, WireOK
  <2>2. \A w \in wires : w.no = w0.no => w = w0
    BY DEF RkInv, WiresOwned
  <2> QED BY <1>1, <2>1, <2>2
<1>17. WiresOwned'
  <2>1. ASSUME NEW w \in wires'
        PROVE  /\ \A d \in Callers : req'[d].no = w.no =>
                    Waits(d, w)' /\ req'[d].key = w.key /\ req'[d].id = w.id
               /\ \A v \in wires' : v.no = w.no => v = w
               /\ \/ \E d \in Callers : req'[d].no = w.no
                  \/ <<w.key, IF w.op = "remove" THEN "removing" ELSE "writing">> \in unanswered
    <3>1. ASSUME NEW d \in Callers, req'[d].no = w.no
          PROVE  Waits(d, w)' /\ req'[d].key = w.key /\ req'[d].id = w.id
      <4>1. req'[d] = req[d]
        BY <1>3, <1>5, <1>6, <1>16, <3>1, RestingFields
      <4>2. Waits(d, w) /\ req[d].key = w.key /\ req[d].id = w.id
        BY <1>16, <3>1, <4>1 DEF RkInv, WiresOwned
      <4> QED BY <4>1, <4>2 DEF Waits
    <3>2. \A v \in wires' : v.no = w.no => v = w
      BY <1>16 DEF RkInv, WiresOwned
    <3>3. \A d \in Callers : req[d].no = w.no => req'[d].no = w.no
      BY <1>3, <1>4, <1>6, <1>7, <1>16
    <3> QED BY <1>16, <3>1, <3>2, <3>3 DEF RkInv, WiresOwned
  <2> QED BY <1>1, <2>1 DEF WiresOwned
<1>18. /\ \A d \in Callers : \A op : Carries(d, op)' /\ req'[d].no = req[d].no => Carries(d, op)
       /\ \A d \in Callers : \A op : Waits(d, w0) => ~Carries(d, op)'
  <2>1. \A d \in Callers : Waits(d, w0) => req'[d].no = w0.no \/ req'[d].no = 0
    BY <1>3, <1>4, <1>5, <1>6, RestingFields
  <2> QED BY <1>16, <2>1 DEF Carries
<1>19. \A d \in Callers : \A k : /\ Writes(d, k)' => Writes(d, k)
                                 /\ ~Waits(d, w0) => req'[d] = req[d]
                                 /\ Writes(d, k) /\ k # w0.key => ~Waits(d, w0)
  <2>1. ASSUME NEW d \in Callers, NEW k, Writes(d, k)' PROVE Writes(d, k)
    <3>1. CASE req'[d] = req[d]
      BY <2>1, <3>1 DEF Writes
    <3>2. CASE GoesOn(d)
      BY <1>4, <1>5, <1>7, <2>1, <3>2 DEF Writes
    <3>3. CASE Ended(d)
      BY <1>6, <2>1, <3>3, RestingFields DEF Writes, Writers
    <3> QED BY <1>3, <3>1, <3>2, <3>3
  <2>2. \A d \in Callers : ~Waits(d, w0) => req'[d] = req[d]
    BY <1>3, <1>6, <1>7
  <2>3. ASSUME NEW d \in Callers, NEW k, Writes(d, k), k # w0.key PROVE ~Waits(d, w0)
    BY <1>4, <2>3 DEF Writes
  <2> QED BY <2>1, <2>2, <2>3
<1>20. OneWriter'
  BY <1>1, <1>19 DEF RkInv, OneWriter
<1>21. \A k : Clean(k)' => Clean(k)
  BY <1>1 DEF Clean
<1>22. ASSUME Clean(w0.key) \/ (w0.op = "remove" /\ <<w0.key, "removing">> \notin unanswered)
       PROVE  \E c \in Callers : Waits(c, w0)
  <2>1. <<w0.key, IF w0.op = "remove" THEN "removing" ELSE "writing">> \notin unanswered
    BY <1>22 DEF Clean
  <2> QED BY <2>1 DEF RkInv, WiresOwned
<1>23. LookupKnows'
  <2>1. SUFFICES ASSUME NEW d \in Callers, req'[d].step = "lookup", req'[d].kind \in Writers,
                        NEW k, k = req'[d].key, Clean(k)'
                 PROVE  /\ req'[d].hits \subseteq Records(k)'
                        /\ \A r \in Records(k)' : Place(r)' <= req'[d].offset => r \in req'[d].hits
    BY DEF LookupKnows, Seen
  <2>2. ~Waits(d, w0) /\ req'[d] = req[d]
    BY <1>3, <1>4, <1>5, <1>6, <1>7, <2>1, RestingFields
  <2>3. Clean(k) /\ Writes(d, k) /\ k \notin raced
    BY <1>21, <2>1, <2>2 DEF Writes, Clean
  <2>4. k \in RemoteKeys /\ req[d].offset \in Nat
    BY <2>1, <2>2, CallFacts DEF CallOK, CallSet
  <2>5. k # w0.key
    <3>1. SUFFICES ASSUME k = w0.key PROVE FALSE
      OBVIOUS
    <3>2. PICK c \in Callers : Waits(c, w0)
      BY <1>22, <2>3, <3>1
    <3>3. c = d
      BY <1>2, <1>4, <2>3, <3>1, <3>2 DEF RkInv, OneWriter
    <3> QED BY <2>2, <3>2, <3>3
  <2>6. Records(k)' = Records(k) /\ Records(k) \subseteq held /\ Records(k)' \subseteq held'
    BY <1>8, <2>5 DEF Records
  <2>7. /\ req[d].hits \subseteq Records(k)
        /\ \A r \in Records(k) : Place(r) <= req[d].offset => r \in req[d].hits
    BY <2>1, <2>2, <2>3 DEF RkInv, LookupKnows, Seen
  <2>8. RkInv => \A r \in held : Place(r) \in Nat \ {0}
    BY PlacePositive
  <2>9. \A r \in held' : Place(r)' \in Nat \ {0}
    BY <1>1, <1>8, PlaceAfter
  <2>10. CASE req[d].offset = 0
    BY <2>2, <2>4, <2>6, <2>7, <2>9, <2>10
  <2>11. CASE req[d].offset # 0
    <3>1. w0.op # "remove"
      <4>1. req[d].offset > 0
        BY <2>4, <2>11
      <4> QED BY <1>1, <2>1, <2>2, <4>1 DEF Clean
    <3>2. \A r \in held : Place(r) <= Place(r)'
      BY <1>1, <1>8, <3>1, PlacesGrow
    <3>3. \A r \in Records(k) : Place(r)' <= req[d].offset => Place(r) <= req[d].offset
      <4>1. \A r \in Records(k) : Place(r) \in Nat /\ Place(r)' \in Nat /\ Place(r) <= Place(r)'
        BY <2>6, <2>8, <2>9, <3>2
      <4> QED BY <2>4, <4>1
    <3> QED BY <2>2, <2>6, <2>7, <3>3
  <2> QED BY <2>10, <2>11
<1>24. KeyFollowsWriter'
  <2>1. ASSUME NEW k \in RemoteKeys PROVE KeyOK(k)'
    <3>1. CASE k # w0.key
      <4>1. \A d \in Callers : Writes(d, k)' <=> Writes(d, k)
        BY <1>19, <3>1 DEF Writes
      <4>2. \A d \in Callers : Writes(d, k) => req'[d] = req[d]
        BY <1>19, <3>1
      <4>3. \A d \in Callers : Writes(d, k) => (ChangeAhead(d)' => ChangeAhead(d)) /\ (AddAhead(d)' => AddAhead(d))
        BY <1>18, <4>2 DEF ChangeAhead, AddAhead
      <4>4. Records(k)' = Records(k) /\ expected'[k] = expected[k]
        BY <1>3, <1>8, <3>1
      <4>5. (Emptied(k)' <=> Emptied(k)) /\ (Exact(k)' <=> Exact(k))
        BY <1>1, <4>4 DEF Emptied, Exact
      <4> QED BY <1>21, <4>1, <4>2, <4>3, <4>4, <4>5, KeyKept
    <3>2. CASE k = w0.key
      <4>1. SUFFICES ASSUME Clean(k)' PROVE KeyOK(k)'
        BY DEF KeyOK
      <4>2. Clean(k) /\ k \notin raced
        BY <1>21, <4>1 DEF Clean
      <4>3. PICK c \in Callers : Waits(c, w0)
        BY <1>22, <3>2, <4>2
      <4>4. Writes(c, k) /\ req[c].id = w0.id /\ req[c].no = w0.no /\ req[c].step \in {"writing", "removing"}
        BY <1>4, <3>2, <4>3
      <4>5. \A d \in Callers : Writes(d, k)' => d = c
        BY <1>19, <4>2, <4>4 DEF RkInv, OneWriter
      <4>6. /\ w0.op = "remove" => Records(k)' = {}
            /\ w0.op # "remove" => \E n : Records(k)' = {n} /\ n.no = w0.no
        BY <1>1, <3>2, <4>2, <4>3, EffectOnKey
      <4>7. \A op : ~Carries(c, op)'
        BY <1>18, <4>3
      <4>8. CASE req'[c] = req[c]
        <5>1. Writes(c, k)' /\ ~ChangeAhead(c)' /\ ~AddAhead(c)' /\ req'[c].step # "lookup"
          BY <4>4, <4>7, <4>8 DEF Writes, ChangeAhead, AddAhead
        <5> QED BY <4>5, <5>1 DEF KeyOK
      <4>9. CASE GoesOn(c)
        <5>1. /\ Writes(c, k)' /\ ~ChangeAhead(c)' /\ req'[c].step # "lookup" /\ req'[c].id = req[c].id
              /\ req[c].step = "removing"
          BY <1>5, <3>2, <4>7, <4>9 DEF Writes, Writers, ChangeAhead
        <5>2. req[c].id > 0 /\ req[c].id \in Nat
          BY <5>1, CallFacts DEF CallOK, CallSet
        <5>3. req'[c].id # 0 /\ Records(k)' = {}
          BY <4>6, <4>9, <5>1, <5>2 DEF GoesOn
        <5> QED BY <4>5, <5>1, <5>3 DEF KeyOK
      <4>10. CASE Ended(c)
        <5>1. \A d \in Callers : ~Writes(d, k)'
          BY <1>6, <4>5, <4>10, RestingFields DEF Writes, Writers
        <5>2. expected'[k] = IF w0.op = "remove" THEN 0 ELSE w0.no
          BY <1>2, <3>2, <4>10 DEF Ended
        <5>3. Exact(k)'
          BY <4>6, <5>2 DEF Exact, Emptied
        <5> QED BY <5>1, <5>3 DEF KeyOK
      <4> QED BY <1>3, <4>8, <4>9, <4>10
    <3> QED BY <3>1, <3>2
  <2> QED BY <2>1 DEF KeyFollowsWriter
<1>25. OnlyRemovalEmpties'
  <2>1. ASSUME NEW k \in RemoteKeys PROVE KeptOK(k)'
    <3>1. CASE k # w0.key
      <4>1. \A d \in Callers : Removing(d, k) => req'[d] = req[d] /\ (Carries(d, "remove")' => Carries(d, "remove"))
        BY <1>18, <1>19, <3>1 DEF Removing
      <4>2. Records(k)' = Records(k) /\ expected'[k] = expected[k]
        BY <1>3, <1>8, <3>1
      <4> QED BY <1>1, <4>1, <4>2, StaysKept
    <3>2. CASE k = w0.key /\ w0.op = "add"
      <4>1. PICK n : n = [id |-> lastId + 1, key |-> w0.key, no |-> w0.no]
        OBVIOUS
      <4>2. n \in held' /\ n.key = k
        BY <1>1, <3>2, <4>1 DEF Effect
      <4> QED BY <4>2 DEF KeptOK, Records
    <3>3. CASE k = w0.key /\ w0.op = "replace"
      <4>1. PICK r \in held : r.id = w0.id
        BY <1>1, <3>3 DEF Applies
      <4>2. r.key = k /\ r \in RecordSet
        BY <3>3, <4>1 DEF RkInv, RkTyped, IdsOfWires, WireOK
      <4>3. held' = {IF q.id = w0.id THEN [q EXCEPT !.no = w0.no] ELSE q : q \in held}
        BY <1>1, <3>3 DEF Effect
      <4>4. PICK n : n = [r EXCEPT !.no = w0.no]
        OBVIOUS
      <4>5. n \in held' /\ n.key = k
        BY <4>1, <4>2, <4>3, <4>4 DEF RecordSet
      <4> QED BY <4>5 DEF KeptOK, Records
    <3>4. CASE k = w0.key /\ w0.op = "remove"
      <4>1. SUFFICES ASSUME service # "agentmemory", expected'[k] # 0, <<k, "removing">> \notin unanswered
                     PROVE  \E d \in Callers : Removing(d, k)'
        BY <1>1 DEF KeptOK
      <4>2. PICK c \in Callers : Waits(c, w0)
        BY <1>22, <3>4, <4>1
      <4>3. req[c].step = "removing" /\ Writes(c, k)
        BY <1>4, <3>4, <4>2
      <4>4. req[c].kind = "delete"
        BY <4>1, <4>3, CallFacts DEF CallOK, Writers
      <4>5. req'[c] = req[c]
        <5>1. ~GoesOn(c)
          BY <4>4 DEF GoesOn
        <5>2. ~Ended(c)
          BY <1>2, <3>4, <4>1 DEF Ended
        <5> QED BY <1>3, <5>1, <5>2
      <4>6. ~Carries(c, "remove")'
        BY <1>18, <4>2
      <4> QED BY <4>3, <4>4, <4>5, <4>6 DEF Removing, Writes
    <3> QED BY <1>2, <3>1, <3>2, <3>3, <3>4
  <2> QED BY <2>1 DEF OnlyRemovalEmpties
<1> QED BY <1>9, <1>10, <1>11, <1>14, <1>15, <1>17, <1>20, <1>23, <1>24, <1>25 DEF RkInv

-----------------------------------------------------------------------------
\* The invariant at the start.
LEMMA RkInitial == ASSUME RkInit PROVE RkInv
<1>0. PICK stored \in SUBSET RemoteKeys :
        \E ids \in [stored -> 1 .. Cardinality(stored)] :
          /\ \A k, l \in stored : ids[k] = ids[l] => k = l
          /\ held = {[id |-> ids[k], key |-> k, no |-> MaxBegun + 1] : k \in stored}
          /\ lastId = Cardinality(stored)
          /\ expected = [k \in RemoteKeys |-> IF k \in stored THEN MaxBegun + 1 ELSE 0]
  BY DEF RkInit
<1>1. PICK ids \in [stored -> 1 .. Cardinality(stored)] :
        /\ \A k, l \in stored : ids[k] = ids[l] => k = l
        /\ held = {[id |-> ids[k], key |-> k, no |-> MaxBegun + 1] : k \in stored}
        /\ lastId = Cardinality(stored)
        /\ expected = [k \in RemoteKeys |-> IF k \in stored THEN MaxBegun + 1 ELSE 0]
  BY <1>0
<1>2. /\ wires = {} /\ begun = 0 /\ req = [c \in Callers |-> Resting] /\ service \in Services
      /\ raced = {} /\ unanswered = {} /\ torn = {} /\ shifted = {}
  BY DEF RkInit
<1>3. lastId \in Nat /\ MaxBegun \in Nat /\ MaxAttempts \in Nat \ {0} /\ MaxBegun + 1 \in 1 .. MaxBegun + 1
  <2>1. IsFiniteSet(stored)
    BY <1>1, RemoteAssumption, FS_Subset
  <2> QED BY <1>1, <2>1, FS_CardinalityType, RemoteAssumption
<1>4. ASSUME NEW r \in held
      PROVE  /\ r \in RecordSet /\ r.key \in stored /\ r.id = ids[r.key] /\ r.no = MaxBegun + 1
             /\ r.id \in 1 .. lastId /\ r = [id |-> ids[r.key], key |-> r.key, no |-> MaxBegun + 1]
  BY <1>1, <1>3 DEF RecordSet
<1>5. \A c \in Callers : req[c] = Resting
  BY <1>2
<1>6. RkTyped
  BY <1>1, <1>2, <1>3, <1>4, RestingFields DEF RkTyped
<1>7. IdsUnique
  <2>1. ASSUME NEW r \in held, NEW q \in held, r.id = q.id PROVE r = q
    <3>1. r.key = q.key
      BY <1>1, <1>4, <2>1
    <3> QED BY <1>4, <3>1
  <2> QED BY <1>3, <1>4, <2>1 DEF IdsUnique
<1>8. CallsSound /\ NosUnique /\ IdsOfCalls
  <2>1. \A r \in held : r.id # 0
    BY <1>3, <1>4
  <2> QED BY <1>2, <1>3, <1>5, <2>1, RestingFields DEF CallsSound, CallOK, NosUnique, IdsOfCalls, IdsFit
<1>9. IdsOfWires /\ WiresOwned
  BY <1>2 DEF IdsOfWires, WiresOwned
<1>10. OneWriter /\ LookupKnows
  BY <1>5, RestingFields DEF OneWriter, LookupKnows, Writes, Writers
<1>11. ASSUME NEW k \in RemoteKeys PROVE Exact(k) /\ (expected[k] # 0 => Records(k) # {})
  <2>1. CASE k \in stored
    <3>1. PICK n : n = [id |-> ids[k], key |-> k, no |-> MaxBegun + 1]
      OBVIOUS
    <3>2. n \in Records(k)
      BY <1>1, <2>1, <3>1 DEF Records
    <3>3. \A r \in Records(k) : r = n
      BY <1>4, <3>1 DEF Records
    <3>4. expected[k] = MaxBegun + 1 /\ n.no = MaxBegun + 1
      BY <1>1, <2>1, <3>1
    <3> QED BY <3>2, <3>3, <3>4 DEF Exact
  <2>2. CASE k \notin stored
    <3>1. Records(k) = {} /\ expected[k] = 0
      BY <1>1, <1>4, <2>2 DEF Records
    <3> QED BY <3>1 DEF Exact, Emptied
  <2> QED BY <2>1, <2>2
<1>12. KeyFollowsWriter
  BY <1>5, <1>11, RestingFields DEF KeyFollowsWriter, KeyOK, Writes, Writers
<1>13. OnlyRemovalEmpties
  BY <1>11 DEF OnlyRemovalEmpties, KeptOK
<1> QED BY <1>6, <1>7, <1>8, <1>9, <1>10, <1>12, <1>13 DEF RkInv

\* Every step keeps the invariant.
LEMMA RkStep == RkInv /\ [RkNext]_rkVars => RkInv'
<1>1. SUFFICES ASSUME RkInv, [RkNext]_rkVars PROVE RkInv'
  OBVIOUS
<1>2. CASE UNCHANGED rkVars
  <2>1. \A k : /\ (Clean(k)' <=> Clean(k)) /\ Records(k)' = Records(k)
               /\ (Exact(k)' <=> Exact(k)) /\ (Emptied(k)' <=> Emptied(k))
    BY <1>2 DEF rkVars, Clean, Records, Exact, Emptied
  <2>2. \A y : /\ (CallOK(y)' <=> CallOK(y)) /\ (IdsFit(y)' <=> IdsFit(y)) /\ (WireOK(y)' <=> WireOK(y))
               /\ Place(y)' = Place(y)
    BY <1>2 DEF rkVars, CallOK, IdsFit, WireOK, Place
  <2>3. \A d \in Callers : \A k : (Writes(d, k)' <=> Writes(d, k)) /\ (Carries(d, k)' <=> Carries(d, k))
    BY <1>2 DEF rkVars, Writes, Carries
  <2>4. \A d \in Callers : (ChangeAhead(d)' <=> ChangeAhead(d)) /\ (AddAhead(d)' <=> AddAhead(d))
    BY <1>2, <2>3 DEF rkVars, ChangeAhead, AddAhead
  <2>5. RkTyped' /\ IdsUnique' /\ NosUnique' /\ WiresOwned'
    BY <1>1, <1>2 DEF rkVars, RkInv, RkTyped, IdsUnique, NosUnique, WiresOwned, Waits
  <2>6. CallsSound' /\ IdsOfCalls' /\ IdsOfWires'
    BY <1>1, <1>2, <2>2 DEF rkVars, RkInv, CallsSound, IdsOfCalls, IdsOfWires
  <2>7. OneWriter'
    BY <1>1, <1>2, <2>3 DEF rkVars, RkInv, OneWriter
  <2>8. LookupKnows'
    BY <1>1, <1>2, <2>1, <2>2 DEF rkVars, RkInv, LookupKnows, Seen
  <2>9. ASSUME NEW k \in RemoteKeys PROVE KeyOK(k)'
    BY <1>1, <1>2, <2>1, <2>3, <2>4, KeyKept DEF rkVars
  <2>10. ASSUME NEW k \in RemoteKeys PROVE KeptOK(k)'
    BY <1>1, <1>2, <2>1, <2>3, StaysKept DEF rkVars
  <2> QED BY <2>5, <2>6, <2>7, <2>8, <2>9, <2>10 DEF RkInv, KeyFollowsWriter, OnlyRemovalEmpties
<1>3. CASE RkNext
  <2>1. ASSUME NEW c \in Callers, NEW key \in RemoteKeys, NEW kind \in {"get", "upsert", "delete"},
               RkBegin(c, kind, key)
        PROVE  RkInv'
    BY <1>1, <2>1, RkBeginStep
  <2>2. ASSUME NEW c \in Callers, NEW failure \in Failures, ReadFails(c, failure) PROVE RkInv'
    BY <1>1, <2>2, ReadFailsStep
  <2>3. ASSUME NEW c \in Callers, NextPage(c) PROVE RkInv'
    BY <1>1, <2>3, NextPageStep
  <2>4. ASSUME NEW c \in Callers, LookupFindsNone(c) PROVE RkInv'
    BY <1>1, <2>4, FindsNoneStep
  <2>5. ASSUME NEW c \in Callers, LookupHits(c) PROVE RkInv'
    BY <1>1, <2>5, HitsStep
  <2>6. ASSUME NEW c \in Callers, GetReturns(c) PROVE RkInv'
    BY <1>1, <2>6, ReturnsStep
  <2>7. ASSUME NEW c \in Callers, SendOnce(c) PROVE RkInv'
    BY <1>1, <2>7, RkSendStep
  <2>8. ASSUME NEW c \in Callers, WriteUnanswered(c) PROVE RkInv'
    BY <1>1, <2>8, UnansweredStep
  <2>9. ASSUME NEW w \in wires, WriteArrives(w) PROVE RkInv'
    BY <1>1, <2>9, ArrivesStep
  <2>10. ASSUME NEW w \in wires, WriteRefused(w) PROVE RkInv'
    BY <1>1, <2>10, RefusedStep
  <2>11. ASSUME NEW w \in wires, WriteLost(w) PROVE RkInv'
    BY <1>1, <2>11, LostStep
  <2> QED BY <1>3, <2>1, <2>2, <2>3, <2>4, <2>5, <2>6, <2>7, <2>8, <2>9, <2>10, <2>11 DEF RkNext
<1> QED BY <1>1, <1>2, <1>3

-----------------------------------------------------------------------------
(* What was acknowledged stays, also for a key that a page walk missed. *)

AllAnswered(key) == key \notin raced /\ ~\E u \in unanswered : u[1] = key

KeptAt(key) ==
  expected[key] # 0 =>
    \/ \E r \in Records(key) : r.no = expected[key]
    \/ service = "agentmemory" /\ key \in torn

\* The writer has not changed its key's records yet.
Untouched(c) == req[c].step = "lookup" \/ ChangeAhead(c) \/ (AddAhead(c) /\ req[c].id = 0)

AckOK(key) ==
  AllAnswered(key) =>
    /\ (\A c \in Callers : ~Writes(c, key)) => KeptAt(key)
    /\ \A c \in Callers : Writes(c, key) /\ Untouched(c) => KeptAt(key)

AckKept == \A key \in RemoteKeys : AckOK(key)

\* Steps that write nothing: a writer that moves on had not touched its key.
LEMMA AckStays ==
  ASSUME RkInv, AckKept, UNCHANGED <<service, held, expected>>,
         torn \subseteq torn', raced \subseteq raced', unanswered \subseteq unanswered',
         \A key \in RemoteKeys : AllAnswered(key)' =>
           /\ (\A d \in Callers : ~Writes(d, key)') =>
                (\A d \in Callers : ~Writes(d, key)) \/ (\E d \in Callers : Writes(d, key) /\ Untouched(d)) \/ KeptAt(key)'
           /\ \A d \in Callers : Writes(d, key)' /\ Untouched(d)' =>
                (\A e \in Callers : ~Writes(e, key)) \/ (Writes(d, key) /\ Untouched(d))
  PROVE  AckKept'
<1>1. SUFFICES ASSUME NEW key \in RemoteKeys, AllAnswered(key)'
               PROVE  /\ (\A c \in Callers : ~Writes(c, key)') => KeptAt(key)'
                      /\ \A c \in Callers : Writes(c, key)' /\ Untouched(c)' => KeptAt(key)'
  BY DEF AckKept, AckOK
<1>2. AllAnswered(key)
  BY <1>1 DEF AllAnswered
<1>3. KeptAt(key) => KeptAt(key)'
  BY DEF KeptAt, Records
<1>4. /\ (\A c \in Callers : ~Writes(c, key)) => KeptAt(key)
      /\ \A c \in Callers : Writes(c, key) /\ Untouched(c) => KeptAt(key)
  BY <1>2 DEF AckKept, AckOK
<1> QED BY <1>1, <1>3, <1>4

\* A lookup goes on or ends.
LEMMA AckLookup ==
  ASSUME RkInv, AckKept, UNCHANGED <<service, held, wires, expected, raced, unanswered, torn>>,
         NEW c \in Callers, \A d \in Callers : d # c => req'[d] = req[d],
         \A k : Writes(c, k)' => Writes(c, k), \A k : Writes(c, k) => req[c].step = "lookup"
  PROVE  AckKept'
<1>1. ASSUME NEW d \in Callers, d # c
      PROVE  (Untouched(d)' <=> Untouched(d)) /\ \A k : Writes(d, k)' <=> Writes(d, k)
  <2>1. req'[d] = req[d]
    BY <1>1
  <2>2. \A op : Carries(d, op)' <=> Carries(d, op)
    BY <2>1 DEF Carries
  <2>3. (ChangeAhead(d)' <=> ChangeAhead(d)) /\ (AddAhead(d)' <=> AddAhead(d))
    BY <2>1, <2>2 DEF ChangeAhead, AddAhead
  <2> QED BY <2>1, <2>3 DEF Untouched, Writes
<1>2. \A k : Writes(c, k) => Untouched(c)
  BY DEF Untouched
<1>3. ASSUME NEW key \in RemoteKeys
      PROVE  /\ (\A d \in Callers : ~Writes(d, key)') =>
                  (\A d \in Callers : ~Writes(d, key)) \/ (\E d \in Callers : Writes(d, key) /\ Untouched(d))
             /\ \A d \in Callers : Writes(d, key)' /\ Untouched(d)' => Writes(d, key) /\ Untouched(d)
  <2>1. CASE Writes(c, key)
    BY <1>1, <1>2, <2>1
  <2>2. CASE ~Writes(c, key)
    BY <1>1, <2>2
  <2> QED BY <2>1, <2>2
<1> QED BY <1>3, AckStays

\* The steps of a lookup keep what was acknowledged.
LEMMA AckReads ==
  ASSUME RkInv, AckKept, NEW c \in Callers,
         \/ \E failure \in Failures : ReadFails(c, failure)
         \/ NextPage(c) \/ LookupFindsNone(c) \/ LookupHits(c) \/ GetReturns(c)
  PROVE  AckKept'
<1>1. UNCHANGED <<service, held, wires, expected, raced, unanswered, torn>>
  BY DEF ReadFails, NextPage, LookupFindsNone, LookupHits, GetReturns
<1>2. req \in [Callers -> CallSet] /\ req[c] \in CallSet
  BY CallFacts
<1>3. (\A d \in Callers : d # c => req'[d] = req[d]) /\ \A k : Writes(c, k)' => Writes(c, k)
  <2>1. CASE req' = [req EXCEPT ![c] = Resting]
    BY <1>2, <2>1, RestingFields DEF Writes, Writers
  <2>2. CASE req' = [req EXCEPT ![c].tried = @ + 1]
    BY <1>2, <2>2 DEF Writes, CallSet
  <2>3. CASE req' = [req EXCEPT ![c].hits = Matching(c), ![c].offset = @ + RemotePage]
    BY <1>2, <2>3 DEF Writes, CallSet
  <2>4. CASE req' = [req EXCEPT ![c].step = "add"]
    BY <1>2, <2>4 DEF Writes, CallSet
  <2>5. CASE \E r : req' = [req EXCEPT ![c].id = r.id, ![c].step = StepOfHit(req[c].kind), ![c].offset = 0, ![c].hits = {}]
    BY <1>2, <2>5 DEF Writes, CallSet
  <2>6. CASE \E failure \in Failures : ReadFails(c, failure)
    BY <2>1, <2>2, <2>6 DEF ReadFails, Finish
  <2>7. CASE NextPage(c)
    BY <2>3, <2>7 DEF NextPage
  <2>8. CASE LookupFindsNone(c)
    BY <2>1, <2>4, <2>8 DEF LookupFindsNone, Finish
  <2>9. CASE LookupHits(c)
    <3>1. \E r : req' = [req EXCEPT ![c].id = r.id, ![c].step = StepOfHit(req[c].kind), ![c].offset = 0, ![c].hits = {}]
      BY <2>9, Zenon DEF LookupHits
    <3> QED BY <2>5, <3>1
  <2>10. CASE GetReturns(c)
    BY <2>1, <2>10 DEF GetReturns, Finish
  <2> QED BY <2>6, <2>7, <2>8, <2>9, <2>10
<1>4. \A k : Writes(c, k) => req[c].step = "lookup"
  <2>1. CASE req[c].step = "lookup"
    BY <2>1
  <2>2. CASE req[c].step = "answer"
    <3>1. req[c].kind = "get"
      BY <2>2, CallFacts DEF CallOK
    <3> QED BY <3>1 DEF Writes, Writers
  <2>3. req[c].step \in {"lookup", "answer"}
    BY DEF ReadFails, NextPage, LookupFindsNone, LookupHits, GetReturns
  <2> QED BY <2>1, <2>2, <2>3
<1> QED BY <1>1, <1>3, <1>4, AckLookup

\* A call that begins has touched nothing.
LEMMA AckBegin ==
  ASSUME RkInv, AckKept, NEW c \in Callers, NEW kind \in {"get", "upsert", "delete"}, NEW key \in RemoteKeys,
         RkBegin(c, kind, key)
  PROVE  AckKept'
<1>1. /\ UNCHANGED <<service, held, wires, expected, unanswered, torn>>
      /\ req[c].step = "rest" /\ raced \subseteq raced'
      /\ \/ kind = "get" \/ key \in raced'
         \/ \A d \in Callers : ~Writes(d, key)
  BY DEF RkBegin, Writes, Writers
<1>2. \A d \in Callers : d # c => req'[d] = req[d]
  BY CallFacts DEF RkBegin
<1>3. req'[c].key = key /\ req'[c].kind = kind
  BY CallFacts DEF RkBegin
<1>4. \A k : ~Writes(c, k)
  BY <1>1, CallFacts, RestingFields DEF CallOK, Writes, Writers
<1>5. ASSUME NEW d \in Callers, d # c
      PROVE  (Untouched(d)' <=> Untouched(d)) /\ \A k : Writes(d, k)' <=> Writes(d, k)
  <2>1. req'[d] = req[d]
    BY <1>2, <1>5
  <2>2. \A op : Carries(d, op)' <=> Carries(d, op)
    BY <1>1, <2>1 DEF Carries
  <2>3. (ChangeAhead(d)' <=> ChangeAhead(d)) /\ (AddAhead(d)' <=> AddAhead(d))
    BY <2>1, <2>2 DEF ChangeAhead, AddAhead
  <2> QED BY <2>1, <2>3 DEF Untouched, Writes
<1>6. ASSUME NEW k \in RemoteKeys, AllAnswered(k)'
      PROVE  /\ (\A d \in Callers : ~Writes(d, k)') => (\A d \in Callers : ~Writes(d, k))
             /\ \A d \in Callers : Writes(d, k)' /\ Untouched(d)' =>
                  (\A e \in Callers : ~Writes(e, k)) \/ (Writes(d, k) /\ Untouched(d))
  <2>1. Writes(c, k)' => \A e \in Callers : ~Writes(e, k)
    <3>1. SUFFICES ASSUME Writes(c, k)' PROVE \A e \in Callers : ~Writes(e, k)
      OBVIOUS
    <3>2. k = key /\ kind # "get"
      BY <1>3, <3>1 DEF Writes, Writers
    <3>3. key \notin raced'
      BY <1>6, <3>2 DEF AllAnswered
    <3> QED BY <1>1, <3>2, <3>3
  <2> QED BY <1>4, <1>5, <2>1
<1> QED BY <1>1, <1>6, AckStays

\* A write on its way is still ahead of its caller.
LEMMA AckSend == ASSUME RkInv, AckKept, NEW c \in Callers, SendOnce(c) PROVE AckKept'
<1>1. /\ UNCHANGED <<service, held, expected, raced, unanswered, torn>>
      /\ req[c].step \in {"add", "replace", "remove"}
      /\ wires' = wires \cup {[op |-> req[c].step, id |-> req[c].id, key |-> req[c].key, no |-> req[c].no]}
      /\ req' = [req EXCEPT ![c].step = IF @ = "remove" THEN "removing" ELSE "writing"]
  BY DEF SendOnce
<1>2. req \in [Callers -> CallSet] /\ req[c] \in CallSet
  BY CallFacts
<1>3. /\ \A d \in Callers : d # c => req'[d] = req[d]
      /\ req'[c].kind = req[c].kind /\ req'[c].key = req[c].key /\ req'[c].no = req[c].no /\ req'[c].id = req[c].id
      /\ req'[c].step \in {"removing", "writing"}
  BY <1>1, <1>2 DEF CallSet
<1>4. req[c].no > 0
  BY <1>1, CallFacts DEF CallOK
<1>5. ASSUME NEW d \in Callers, NEW op PROVE Carries(d, op)' => Carries(d, op) \/ (d = c /\ op = req[c].step)
  <2>1. req'[d].no = req[d].no
    BY <1>3
  <2>2. d # c => req[d].no # req[c].no
    BY <1>4 DEF RkInv, NosUnique
  <2> QED BY <1>1, <2>1, <2>2 DEF Carries
<1>6. ASSUME NEW d \in Callers
      PROVE  (Untouched(d)' => Untouched(d)) /\ \A k : Writes(d, k)' <=> Writes(d, k)
  <2>1. \A k : Writes(d, k)' <=> Writes(d, k)
    BY <1>3 DEF Writes
  <2>2. (ChangeAhead(d)' => ChangeAhead(d)) /\ (AddAhead(d)' => AddAhead(d))
    BY <1>3, <1>5 DEF ChangeAhead, AddAhead
  <2> QED BY <1>3, <2>1, <2>2 DEF Untouched
<1> QED BY <1>1, <1>6, AckStays

\* A write that is lost, or never answered.
LEMMA AckLost ==
  ASSUME RkInv, AckKept, (\E w \in wires : WriteLost(w)) \/ (\E c \in Callers : WriteUnanswered(c))
  PROVE  AckKept'
<1>1. CASE \E w \in wires : WriteLost(w)
  <2>1. UNCHANGED <<service, held, req, expected, raced, unanswered, torn>> /\ wires' \subseteq wires
    BY <1>1 DEF WriteLost
  <2>2. \A d \in Callers : \A op : Carries(d, op)' => Carries(d, op)
    BY <2>1 DEF Carries
  <2>3. \A d \in Callers : (Untouched(d)' => Untouched(d)) /\ \A k : Writes(d, k)' <=> Writes(d, k)
    BY <2>1, <2>2 DEF Untouched, ChangeAhead, AddAhead, Writes
  <2> QED BY <2>1, <2>3, AckStays
<1>2. CASE \E c \in Callers : WriteUnanswered(c)
  <2>1. PICK c \in Callers : WriteUnanswered(c)
    BY <1>2
  <2>2. /\ UNCHANGED <<service, held, wires, expected, raced, torn>>
        /\ req' = [req EXCEPT ![c] = Resting]
        /\ unanswered' = unanswered \cup {<<req[c].key, req[c].step>>}
    BY <2>1 DEF WriteUnanswered, Finish
  <2>3. /\ \A d \in Callers : d # c => req'[d] = req[d]
        /\ \A k : ~Writes(c, k)'
    BY <2>2, CallFacts, RestingFields DEF Writes, Writers
  <2>4. ASSUME NEW k, AllAnswered(k)' PROVE ~Writes(c, k)
    <3>1. <<req[c].key, req[c].step>>[1] # k
      BY <2>2, <2>4 DEF AllAnswered
    <3> QED BY <3>1 DEF Writes
  <2>5. ASSUME NEW d \in Callers, d # c
        PROVE  (Untouched(d)' <=> Untouched(d)) /\ \A k : Writes(d, k)' <=> Writes(d, k)
    <3>1. req'[d] = req[d]
      BY <2>3, <2>5
    <3>2. \A op : Carries(d, op)' <=> Carries(d, op)
      BY <2>2, <3>1 DEF Carries
    <3>3. (ChangeAhead(d)' <=> ChangeAhead(d)) /\ (AddAhead(d)' <=> AddAhead(d))
      BY <3>1, <3>2 DEF ChangeAhead, AddAhead
    <3> QED BY <3>1, <3>3 DEF Untouched, Writes
  <2>6. ASSUME NEW k \in RemoteKeys, AllAnswered(k)'
        PROVE  /\ (\A d \in Callers : ~Writes(d, k)') => (\A d \in Callers : ~Writes(d, k))
               /\ \A d \in Callers : Writes(d, k)' /\ Untouched(d)' => Writes(d, k) /\ Untouched(d)
    BY <2>3, <2>4, <2>5, <2>6
  <2>7. unanswered \subseteq unanswered'
    BY <2>2
  <2> QED BY <2>2, <2>6, <2>7, AckStays
<1> QED BY <1>1, <1>2

\* A refused write had touched nothing, or leaves the key torn.
LEMMA AckRefused == ASSUME RkInv, AckKept, NEW w0 \in wires, WriteRefused(w0) PROVE AckKept'
<1>1. /\ UNCHANGED <<service, held, expected, raced, unanswered>>
      /\ wires' = wires \ {w0}
  BY DEF WriteRefused
<1>2. PICK c \in Callers : /\ Waits(c, w0) /\ req' = [req EXCEPT ![c] = Resting]
                           /\ torn' = IF req[c].id # 0 /\ w0.op = "add" THEN torn \cup {w0.key} ELSE torn
  BY DEF WriteRefused, Finish
<1>3. /\ req[c].no = w0.no /\ req[c].key = w0.key /\ req[c].id = w0.id
      /\ w0.op \in {"add", "replace", "remove"}
      /\ (w0.op = "add" /\ w0.id # 0 => service = "agentmemory")
  BY <1>2 DEF RkInv, WiresOwned, Waits, IdsOfWires, WireOK, RkTyped, WireSet
<1>4. Carries(c, w0.op)
  BY <1>3 DEF Carries
<1>5. Untouched(c) \/ (service = "agentmemory" /\ w0.key \in torn')
  BY <1>2, <1>3, <1>4 DEF Untouched, ChangeAhead, AddAhead
<1>6. /\ \A d \in Callers : d # c => req'[d] = req[d]
      /\ \A k : ~Writes(c, k)'
  BY <1>2, CallFacts, RestingFields DEF Writes, Writers
<1>7. ASSUME NEW d \in Callers, d # c
      PROVE  (Untouched(d)' => Untouched(d)) /\ \A k : Writes(d, k)' <=> Writes(d, k)
  <2>1. req'[d] = req[d]
    BY <1>6, <1>7
  <2>2. \A op : Carries(d, op)' => Carries(d, op)
    BY <1>1, <2>1 DEF Carries
  <2>3. (ChangeAhead(d)' => ChangeAhead(d)) /\ (AddAhead(d)' => AddAhead(d))
    BY <2>1, <2>2 DEF ChangeAhead, AddAhead
  <2> QED BY <2>1, <2>3 DEF Untouched, Writes
<1>8. \A k : Writes(c, k) => Untouched(c) \/ KeptAt(k)'
  BY <1>1, <1>3, <1>5 DEF Writes, KeptAt
<1>9. ASSUME NEW k \in RemoteKeys
      PROVE  /\ (\A d \in Callers : ~Writes(d, k)') =>
                  (\A d \in Callers : ~Writes(d, k)) \/ (\E d \in Callers : Writes(d, k) /\ Untouched(d)) \/ KeptAt(k)'
             /\ \A d \in Callers : Writes(d, k)' /\ Untouched(d)' => Writes(d, k) /\ Untouched(d)
  <2>1. CASE Writes(c, k)
    BY <1>6, <1>7, <1>8, <2>1
  <2>2. CASE ~Writes(c, k)
    BY <1>6, <1>7, <2>2
  <2> QED BY <2>1, <2>2
<1>10. torn \subseteq torn'
  BY <1>2
<1> QED BY <1>1, <1>9, <1>10, AckStays

\* A write that arrives is there when it is acknowledged.
LEMMA AckArrives == ASSUME RkInv, AckKept, NEW w0 \in wires, WriteArrives(w0) PROVE AckKept'
<1>1. /\ UNCHANGED <<service, begun, raced, unanswered, torn>>
      /\ wires' = wires \ {w0} /\ Applies(w0) /\ held' = Effect(w0)
      /\ lastId' = (IF w0.op = "add" THEN lastId + 1 ELSE lastId)
  BY DEF WriteArrives
<1>2. /\ req \in [Callers -> CallSet] /\ expected \in [RemoteKeys -> Nat]
      /\ w0.op \in {"add", "replace", "remove"} /\ w0.key \in RemoteKeys /\ w0.no \in Nat /\ w0.no # 0
  BY DEF RkInv, RkTyped, WireSet, IdsOfWires, WireOK
<1>3. ASSUME NEW d \in Callers, Waits(d, w0)
      PROVE  /\ req[d].no = w0.no /\ req[d].key = w0.key /\ req[d].id = w0.id /\ Writes(d, w0.key)
             /\ req[d].step \in {"writing", "removing"} /\ (req[d].step = "removing" <=> w0.op = "remove")
             /\ \A e \in Callers : Waits(e, w0) => e = d
  <2>1. /\ req[d].no = w0.no /\ req[d].key = w0.key /\ req[d].id = w0.id
        /\ req[d].step = IF w0.op = "remove" THEN "removing" ELSE "writing"
    BY <1>3 DEF RkInv, WiresOwned, Waits
  <2>2. req[d].kind \in Writers
    BY <2>1, CallFacts DEF CallOK, Writers
  <2>3. w0.no > 0
    BY <1>2
  <2> QED BY <2>1, <2>2, <2>3 DEF RkInv, NosUnique, Writes, Waits
<1>4. \A w \in wires' : w \in wires /\ w.no # w0.no /\ w.no # 0
  <2>1. \A w \in wires : w.no # 0
    BY DEF RkInv, IdsOfWires, WireOK
  <2>2. \A w \in wires : w.no = w0.no => w = w0
    BY DEF RkInv, WiresOwned
  <2> QED BY <1>1, <2>1, <2>2
<1> DEFINE GoesOn(c) == req' = [req EXCEPT ![c].step = "add"] /\ w0.op = "remove" /\ expected' = expected
           Ends(c) == /\ req' = [req EXCEPT ![c] = Resting]
                      /\ expected' = [expected EXCEPT ![w0.key] = IF w0.op = "remove" THEN 0 ELSE w0.no]
<1>5. \/ UNCHANGED <<req, expected>>
      \/ \E c \in Callers : Waits(c, w0) /\ (GoesOn(c) \/ Ends(c))
  BY DEF WriteArrives, Acknowledge, Finish
<1>6. ASSUME NEW d \in Callers, NEW k \in RemoteKeys, k # w0.key, Writes(d, k) \/ Writes(d, k)'
      PROVE  req'[d] = req[d]
  <2>1. CASE UNCHANGED <<req, expected>>
    BY <2>1
  <2>2. CASE \E c \in Callers : Waits(c, w0) /\ (GoesOn(c) \/ Ends(c))
    <3>1. PICK c \in Callers : Waits(c, w0) /\ (GoesOn(c) \/ Ends(c))
      BY <2>2
    <3>2. d # c
      <4>1. SUFFICES ASSUME d = c PROVE FALSE
        OBVIOUS
      <4>2. req[c].key = w0.key
        BY <1>3, <3>1
      <4>3. CASE Ends(c)
        <5>1. req'[c] = Resting
          BY <1>2, <4>3
        <5> QED BY <1>6, <4>1, <4>2, <5>1, RestingFields DEF Writes, Writers
      <4>4. CASE GoesOn(c)
        <5>1. req'[c].key = w0.key
          BY <1>2, <4>2, <4>4 DEF CallSet
        <5> QED BY <1>6, <4>1, <4>2, <5>1 DEF Writes
      <4> QED BY <3>1, <4>3, <4>4
    <3> QED BY <1>2, <3>1, <3>2
  <2> QED BY <1>5, <2>1, <2>2
<1>7. ASSUME NEW d \in Callers, req'[d].no = req[d].no \/ req'[d].no = 0, NEW op PROVE Carries(d, op)' => Carries(d, op)
  BY <1>4, <1>7 DEF Carries
<1>8. \A k : k # w0.key => Records(k)' = Records(k)
  BY <1>1, EffectOK
<1>9. \A k \in RemoteKeys : k # w0.key => expected'[k] = expected[k]
  <2>1. CASE UNCHANGED <<req, expected>>
    BY <2>1
  <2>2. CASE \E c \in Callers : Waits(c, w0) /\ (GoesOn(c) \/ Ends(c))
    BY <1>2, <2>2
  <2> QED BY <1>5, <2>1, <2>2
<1>10. SUFFICES ASSUME NEW k \in RemoteKeys, AllAnswered(k)
                PROVE  /\ (\A c \in Callers : ~Writes(c, k)') => KeptAt(k)'
                       /\ \A c \in Callers : Writes(c, k)' /\ Untouched(c)' => KeptAt(k)'
  BY <1>1 DEF AckKept, AckOK, AllAnswered
<1>11. CASE k # w0.key
  <2>1. KeptAt(k) => KeptAt(k)'
    BY <1>1, <1>8, <1>9, <1>11 DEF KeptAt
  <2>2. ASSUME NEW d \in Callers
        PROVE  (Writes(d, k)' <=> Writes(d, k)) /\ (Writes(d, k)' /\ Untouched(d)' => Untouched(d))
    <3>1. CASE Writes(d, k) \/ Writes(d, k)'
      <4>1. req'[d] = req[d]
        BY <1>6, <1>11, <3>1
      <4>2. \A op : Carries(d, op)' => Carries(d, op)
        BY <1>7, <4>1
      <4> QED BY <4>1, <4>2 DEF Writes, Untouched, ChangeAhead, AddAhead
    <3>2. CASE ~(Writes(d, k) \/ Writes(d, k)')
      BY <3>2
    <3> QED BY <3>1, <3>2
  <2> QED BY <1>10, <2>1, <2>2 DEF AckKept, AckOK
<1>12. CASE k = w0.key
  <2>1. PICK c \in Callers : Waits(c, w0)
    <3>1. <<w0.key, IF w0.op = "remove" THEN "removing" ELSE "writing">> \notin unanswered
      BY <1>10, <1>12 DEF AllAnswered
    <3> QED BY <3>1 DEF RkInv, WiresOwned
  <2>2. /\ Writes(c, k) /\ req[c].id = w0.id /\ req[c].no = w0.no /\ req[c].step \in {"writing", "removing"}
        /\ (req[c].step = "removing" <=> w0.op = "remove")
    BY <1>3, <1>12, <2>1
  <2>3. \A d \in Callers : Writes(d, k) => d = c
    BY <1>10, <2>2 DEF AllAnswered, RkInv, OneWriter
  <2>4. CASE UNCHANGED <<req, expected>>
    <3>1. \A op : ~Carries(c, op)'
      BY <1>4, <2>2, <2>4 DEF Carries
    <3>2. ~Untouched(c)'
      BY <2>2, <2>4, <3>1 DEF Untouched, ChangeAhead, AddAhead
    <3>3. \A d \in Callers : Writes(d, k)' <=> Writes(d, k)
      BY <2>4 DEF Writes
    <3> QED BY <2>2, <2>3, <3>2, <3>3
  <2>5. CASE GoesOn(c)
    <3>1. /\ req'[c].step = "add" /\ req'[c].id = req[c].id /\ req'[c].no = req[c].no
          /\ req'[c].kind = req[c].kind /\ req'[c].key = req[c].key
          /\ \A d \in Callers : d # c => req'[d] = req[d]
      BY <1>2, <2>5 DEF CallSet
    <3>2. \A op : ~Carries(c, op)'
      BY <1>4, <2>2, <3>1 DEF Carries
    <3>3. req[c].id # 0
      BY <2>2, <2>5, CallFacts DEF CallOK, CallSet
    <3>4. ~Untouched(c)'
      BY <3>1, <3>2, <3>3 DEF Untouched, ChangeAhead, AddAhead
    <3>5. \A d \in Callers : Writes(d, k)' <=> Writes(d, k)
      BY <3>1 DEF Writes
    <3> QED BY <2>2, <2>3, <3>4, <3>5
  <2>6. CASE Ends(c)
    <3>1. expected'[k] = IF w0.op = "remove" THEN 0 ELSE w0.no
      BY <1>2, <1>12, <2>6
    <3>2. CASE w0.op = "remove"
      BY <3>1, <3>2 DEF KeptAt
    <3>3. CASE w0.op = "add"
      <4>1. PICK n : n = [id |-> lastId + 1, key |-> w0.key, no |-> w0.no]
        OBVIOUS
      <4>2. n \in held' /\ n.key = k /\ n.no = w0.no
        BY <1>1, <1>12, <3>3, <4>1 DEF Effect
      <4>3. n \in Records(k)'
        BY <4>2 DEF Records
      <4> QED BY <3>1, <3>3, <4>2, <4>3 DEF KeptAt
    <3>4. CASE w0.op = "replace"
      <4>1. PICK r \in held : r.id = w0.id
        BY <1>1, <3>4 DEF Applies
      <4>2. r.key = k /\ r \in RecordSet
        BY <1>12, <4>1 DEF RkInv, RkTyped, IdsOfWires, WireOK
      <4>3. held' = {IF q.id = w0.id THEN [q EXCEPT !.no = w0.no] ELSE q : q \in held}
        BY <1>1, <3>4 DEF Effect
      <4>4. PICK n : n = [r EXCEPT !.no = w0.no]
        OBVIOUS
      <4>5. n \in held' /\ n.key = k /\ n.no = w0.no
        BY <4>1, <4>2, <4>3, <4>4 DEF RecordSet
      <4>6. n \in Records(k)'
        BY <4>5 DEF Records
      <4> QED BY <3>1, <3>4, <4>5, <4>6 DEF KeptAt
    <3> QED BY <1>2, <3>2, <3>3, <3>4
  <2>7. UNCHANGED <<req, expected>> \/ GoesOn(c) \/ Ends(c)
    BY <1>3, <1>5, <2>1
  <2> QED BY <2>4, <2>5, <2>6, <2>7
<1> QED BY <1>11, <1>12

\* Every step keeps what was acknowledged.
LEMMA AckStep == RkInv /\ AckKept /\ [RkNext]_rkVars => AckKept'
<1>1. SUFFICES ASSUME RkInv, AckKept, [RkNext]_rkVars PROVE AckKept'
  OBVIOUS
<1>2. CASE UNCHANGED rkVars
  <2>1. UNCHANGED <<service, held, wires, req, expected, raced, unanswered, torn>>
    BY <1>2 DEF rkVars
  <2>2. \A d \in Callers : \A op : Carries(d, op)' <=> Carries(d, op)
    BY <2>1 DEF Carries
  <2>3. \A d \in Callers : (Untouched(d)' => Untouched(d)) /\ \A k : Writes(d, k)' <=> Writes(d, k)
    BY <2>1, <2>2 DEF Untouched, ChangeAhead, AddAhead, Writes
  <2> QED BY <1>1, <2>1, <2>3, AckStays
<1>3. ASSUME NEW c \in Callers, NEW key \in RemoteKeys, NEW kind \in {"get", "upsert", "delete"}, RkBegin(c, kind, key)
      PROVE  AckKept'
  BY <1>1, <1>3, AckBegin
<1>4. ASSUME NEW c \in Callers,
             \/ \E failure \in Failures : ReadFails(c, failure)
             \/ NextPage(c) \/ LookupFindsNone(c) \/ LookupHits(c) \/ GetReturns(c)
      PROVE  AckKept'
  BY <1>1, <1>4, AckReads
<1>5. ASSUME NEW c \in Callers, SendOnce(c) PROVE AckKept'
  BY <1>1, <1>5, AckSend
<1>6. ASSUME NEW c \in Callers, WriteUnanswered(c) PROVE AckKept'
  BY <1>1, <1>6, AckLost
<1>7. ASSUME NEW w \in wires, WriteArrives(w) PROVE AckKept'
  BY <1>1, <1>7, AckArrives
<1>8. ASSUME NEW w \in wires, WriteRefused(w) PROVE AckKept'
  BY <1>1, <1>8, AckRefused
<1>9. ASSUME NEW w \in wires, WriteLost(w) PROVE AckKept'
  BY <1>1, <1>9, AckLost
<1> QED BY <1>1, <1>2, <1>3, <1>4, <1>5, <1>6, <1>7, <1>8, <1>9 DEF RkNext

\* At the start every stored record is what is expected.
LEMMA AckInitial == ASSUME RkInit PROVE AckKept
<1>1. ASSUME NEW k \in RemoteKeys PROVE KeptAt(k)
  <2>1. RkInv /\ \A c \in Callers : ~Writes(c, k)
    BY RkInitial, RestingFields DEF RkInit, Writes, Writers
  <2>2. Clean(k) /\ torn = {}
    BY DEF RkInit, Clean
  <2>3. Exact(k)
    BY <2>1, <2>2 DEF RkInv, KeyFollowsWriter, KeyOK
  <2>4. CASE Records(k) = {}
    BY <2>2, <2>3, <2>4 DEF Exact, Emptied, KeptAt
  <2>5. CASE Records(k) # {}
    BY <2>3, <2>5 DEF Exact, KeptAt
  <2> QED BY <2>4, <2>5
<1> QED BY <1>1 DEF AckKept, AckOK

\* A settled key has no writer.
LEMMA SettledIdle ==
  ASSUME RkInv, NEW key, Settled(key), NEW c \in Callers PROVE ~Writes(c, key)
<1>1. SUFFICES ASSUME Writes(c, key) PROVE FALSE
  OBVIOUS
<1>2. req[c].step = "rest"
  BY <1>1 DEF Settled, Busy, Writes
<1>3. req[c] = Resting
  BY <1>2, CallFacts DEF CallOK
<1> QED BY <1>1, <1>3, RestingFields DEF Writes, Writers

\* The invariant gives the property.
LEMMA RkInvImplies == RkInv /\ AckKept => KeysSound
<1>1. SUFFICES ASSUME RkInv, AckKept
               PROVE  RkTypeOK /\ SettledKeyExact /\ SettledKeyKept /\ FailedStoreKeepsOne
  BY DEF KeysSound
<1>2. RkTypeOK
  <2>1. \A r \in held : r.key \in RemoteKeys
    BY <1>1 DEF RkInv, RkTyped, RecordSet
  <2>2. \A c \in Callers : req[c].step \in RkSteps /\ req[c].tried < MaxAttempts
    BY <1>1, CallFacts DEF CallSet, CallOK
  <2> QED BY <1>1, <2>1, <2>2 DEF RkInv, IdsUnique, RkTypeOK, RkSteps
<1>3. SettledKeyExact
  <2>1. SUFFICES ASSUME NEW key \in RemoteKeys, Settled(key), key \notin shifted
                 PROVE  \/ {r.no : r \in Records(key)} = {expected[key]} /\ Cardinality(Records(key)) = 1
                        \/ Records(key) = {} /\ expected[key] = 0
                        \/ Records(key) = {} /\ service = "agentmemory" /\ key \in torn
    BY DEF SettledKeyExact
  <2>2. \A c \in Callers : ~Writes(c, key)
    BY <1>1, <2>1, SettledIdle
  <2>3. Exact(key)
    BY <1>1, <2>1, <2>2 DEF RkInv, KeyFollowsWriter, KeyOK, Clean, Settled
  <2>4. CASE Records(key) = {}
    BY <2>3, <2>4 DEF Exact, Emptied
  <2>5. CASE Records(key) # {}
    <3>1. PICK r \in Records(key) : TRUE
      BY <2>5
    <3>2. Records(key) = {r} /\ r.no = expected[key]
      BY <2>3, <3>1 DEF Exact
    <3>3. Cardinality(Records(key)) = 1
      BY <3>2, FS_Singleton
    <3> QED BY <3>2, <3>3
  <2> QED BY <2>4, <2>5
<1>4. SettledKeyKept
  <2>1. SUFFICES ASSUME NEW key \in RemoteKeys, Settled(key) PROVE KeptAt(key)
    BY DEF SettledKeyKept, KeptAt
  <2>2. \A c \in Callers : ~Writes(c, key)
    BY <1>1, <2>1, SettledIdle
  <2>3. AllAnswered(key)
    BY <2>1 DEF Settled, AllAnswered
  <2> QED BY <1>1, <2>2, <2>3 DEF AckKept, AckOK
<1>5. FailedStoreKeepsOne
  BY <1>1 DEF RkInv, OnlyRemovalEmpties, KeptOK, Removing, Writes, FailedStoreKeepsOne
<1> QED BY <1>2, <1>3, <1>4, <1>5

\* KeysSound in every reachable state, for any number of callers, keys, attempts
\* and calls and any page size and limit of pages: a key nobody raced for and whose
\* writes were all answered holds exactly what was last acknowledged, and keeps it
\* also when a page walk missed it; where the service updates in place, no store
\* that fails or races costs the key its record.
THEOREM KeysCorrect == RkSpec => []KeysSound
<1>1. RkInit => RkInv /\ AckKept
  BY RkInitial, AckInitial
<1>2. RkInv /\ AckKept /\ [RkNext]_rkVars => RkInv' /\ AckKept'
  BY RkStep, AckStep
<1>3. RkInv /\ AckKept => KeysSound
  BY RkInvImplies
<1> QED BY <1>1, <1>2, <1>3, PTL DEF RkSpec
=============================================================================
