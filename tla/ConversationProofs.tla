-------------------------- MODULE ConversationProofs --------------------------
(***************************************************************************)
(* The channel subscriber, for any handlers, workspaces, conversations and  *)
(* deliveries.  A thread only ever comes into being under a collision-safe  *)
(* id, unless it was there before the collision fix: that a handler chose   *)
(* its thread in one step and creates it in another, with the user deleting *)
(* in between, cannot start a legacy thread for anybody.  After it, the     *)
(* ranking of search hits, and the thread store itself: its locks and rows  *)
(* through any crash and I/O error, what was acknowledged as long as no     *)
(* line is torn, and without failures the log, the listing and the search   *)
(* index against the message files.                                         *)
(***************************************************************************)
EXTENDS ChannelPersistence, SearchIndex, ConversationStore, SequenceTheorems, TLAPS

Homes(c) == {Safe[c], Legacy[c]}

\* A thread of this id was there at the start, or is somebody's own.
Rooted(t) == t \in legacyKept \/ \E c \in Conversations : Safe[c] = t

ThreadOK(w, t, entry) ==
  entry # Absent =>
    /\ Rooted(t)
    /\ \A i \in DOMAIN entry.rows :
         entry.rows[i].workspace = w /\ t \in Homes(entry.rows[i].conversation)

DeliveryOK(r) ==
  /\ r.step # "free" => r.turn.workspace = r.ws
  /\ r.step \in {"ensure", "lookup", "append"} =>
       r.thread \in Homes(r.turn.conversation) /\ Rooted(r.thread)

StoreTyped == store \in [Workspaces -> [ThreadIds -> Thread \cup {Absent}]]

CpInv ==
  /\ CpTypeOK
  /\ \A w \in Workspaces, t \in ThreadIds : ThreadOK(w, t, store[w][t])
  /\ \A h \in Handlers : DeliveryOK(run[h])

\* What is appended comes after everything there was.
LEMMA AppendOne ==
  ASSUME NEW S, NEW s \in Seq(S), NEW e \in S
  PROVE  /\ Append(s, e) \in Seq(S)
         /\ \A i \in DOMAIN Append(s, e) :
              \/ i \in DOMAIN s /\ Append(s, e)[i] = s[i]
              \/ i = Len(s) + 1 /\ Append(s, e)[i] = e
  OBVIOUS

\* At the start the only threads are empty ones from before the fix.
LEMMA CpInitInv == CpInit => CpInv
<1> SUFFICES ASSUME CpInit PROVE CpInv
  OBVIOUS
<1>1. <<>> \in Seq(Turns)
  OBVIOUS
<1>2. [labels |-> "general", rows |-> <<>>] \in Thread
  BY <1>1 DEF Thread
<1>3. legacyKept \subseteq ThreadIds
  BY DEF CpInit, ThreadIds
<1>4. StoreTyped
  BY <1>2 DEF CpInit, StoreTyped
<1>5. registered \in BOOLEAN
  BY DEF CpInit
<1>6. CpTypeOK
  BY <1>3, <1>4, <1>5, IdsAssumption DEF CpInit, CpTypeOK, StoreTyped, Delivery
<1>7. ASSUME NEW w \in Workspaces, NEW t \in ThreadIds PROVE ThreadOK(w, t, store[w][t])
  BY DEF CpInit, ThreadOK, Rooted
<1>8. \A h \in Handlers : DeliveryOK(run[h])
  BY DEF CpInit, DeliveryOK, Free
<1> QED
  BY <1>6, <1>7, <1>8 DEF CpInv

\* A registration touches neither threads nor deliveries under way.
LEMMA RegistrationStep ==
  ASSUME CpInv, NEW r \in Registrars,
         \/ \E w \in Workspaces : RegisterBind(r, w)
         \/ RegisterCheck(r) \/ RegisterSubscribe(r) \/ RegisterMark(r)
  PROVE  CpInv'
<1>1. /\ store' = store /\ run' = run /\ legacyKept' = legacyKept /\ deliveries' = deliveries
      /\ crossed' = crossed
  BY DEF RegisterBind, RegisterCheck, RegisterSubscribe, RegisterMark
<1>2. registered' \in BOOLEAN
  BY Zenon DEF RegisterBind, RegisterCheck, RegisterSubscribe, RegisterMark, CpInv, CpTypeOK
<1>3. subs' \in Nat
  <2>1. subs \in Nat
    BY DEF CpInv, CpTypeOK
  <2>2. subs' \in {subs, subs + 1}
    BY DEF RegisterBind, RegisterCheck, RegisterSubscribe, RegisterMark
  <2> QED BY <2>1, <2>2
<1>4. bound' \in Workspaces \cup {Absent}
  BY DEF RegisterBind, RegisterCheck, RegisterSubscribe, RegisterMark, CpInv, CpTypeOK
<1>5. reg' \in [Registrars -> {"ready", "bound", "subscribing", "subscribed", "done"}]
  BY DEF RegisterBind, RegisterCheck, RegisterSubscribe, RegisterMark, CpInv, CpTypeOK
<1>6. CpTypeOK'
  BY <1>1, <1>2, <1>3, <1>4, <1>5 DEF CpInv, CpTypeOK
<1> QED
  BY <1>1, <1>6 DEF CpInv, ThreadOK, DeliveryOK, Rooted

\* What a handler or the user leaves alone of the rest.
Aside == UNCHANGED <<bound, registered, subs, reg, legacyKept>> /\ crossed' \subseteq TurnKeys

LEMMA AsideTyped ==
  ASSUME CpInv, Aside, deliveries' \in 0..MaxDeliveries, StoreTyped', run' \in [Handlers -> Delivery]
  PROVE  CpTypeOK'
BY DEF CpInv, CpTypeOK, Aside, StoreTyped

\* A delivery is begun for an event of the workspace bound, and chooses between the
\* conversation's two ids.
LEMMA DeliveryBegins ==
  ASSUME CpInv, NEW h \in Handlers, (\E e \in Turns : Handle(h, e)) \/ Choose(h) \/ Lookup(h)
  PROVE  CpInv'
<1> USE IdsAssumption
<1>1. Aside /\ store' = store
  BY DEF Handle, Choose, Lookup, Aside, CpInv, CpTypeOK
<1>2. deliveries' \in 0..MaxDeliveries
  <2>1. deliveries \in 0..MaxDeliveries /\ MaxDeliveries \in Nat
    BY DEF CpInv, CpTypeOK
  <2>2. deliveries' = deliveries \/ (deliveries < MaxDeliveries /\ deliveries' = deliveries + 1)
    BY DEF Handle, Choose, Lookup
  <2> QED BY <2>1, <2>2
<1>3. run \in [Handlers -> Delivery] /\ run[h] \in Delivery
  BY DEF CpInv, CpTypeOK
<1>4. PICK d : run' = [run EXCEPT ![h] = d] /\ d \in Delivery /\ (DeliveryOK(d) \/ d = run[h])
  <2>1. ASSUME NEW e \in Turns, Handle(h, e)
        PROVE \E d : run' = [run EXCEPT ![h] = d] /\ d \in Delivery /\ (DeliveryOK(d) \/ d = run[h])
    <3>1. CASE e.workspace = bound
      <4> DEFINE d == [step |-> "choose", turn |-> e, ws |-> bound, thread |-> Absent]
      <4>1. run' = [run EXCEPT ![h] = d]
        BY <2>1, <3>1 DEF Handle
      <4>2. d \in Delivery
        BY <3>1 DEF Delivery
      <4>3. DeliveryOK(d)
        BY <3>1 DEF DeliveryOK
      <4> QED BY <4>1, <4>2, <4>3
    <3>2. CASE e.workspace # bound
      BY <1>3, <2>1, <3>2 DEF Handle
    <3> QED BY <3>1, <3>2
  <2>2. ASSUME Choose(h)
        PROVE \E d : run' = [run EXCEPT ![h] = d] /\ d \in Delivery /\ (DeliveryOK(d) \/ d = run[h])
    <3> DEFINE t == ThreadOf(run[h].ws, run[h].turn.conversation)
               d == [run[h] EXCEPT !.step = "ensure", !.thread = t]
    <3>1. run' = [run EXCEPT ![h] = d]
      BY <1>3, <2>2 DEF Choose
    <3>2. run[h] \in [step : {"choose"}, turn : Turns, ws : Workspaces, thread : {Absent}]
      BY <1>3, <2>2 DEF Choose, Delivery, Free
    <3>3. PICK c \in Conversations : c = run[h].turn.conversation
      BY <3>2
    <3>4. t \in ThreadIds /\ t \in Homes(c) /\ Rooted(t)
      <4>1. t \in {Legacy[c], Safe[c]} /\ (t # Safe[c] => store[run[h].ws][Legacy[c]] # Absent /\ t = Legacy[c])
        BY <3>3 DEF ThreadOf
      <4>2. Legacy[c] \in ThreadIds /\ Safe[c] \in ThreadIds
        BY DEF ThreadIds
      <4>3. store[run[h].ws][Legacy[c]] # Absent => Rooted(Legacy[c])
        BY <3>2, <4>2 DEF CpInv, ThreadOK
      <4> QED BY <4>1, <4>2, <4>3 DEF Homes, Rooted
    <3>5. d \in Delivery
      BY <3>2, <3>4 DEF Delivery
    <3>6. DeliveryOK(run[h])
      BY DEF CpInv
    <3>7. DeliveryOK(d)
      BY <3>2, <3>3, <3>4, <3>6 DEF DeliveryOK
    <3> QED BY <3>1, <3>5, <3>7
  <2>3. ASSUME Lookup(h)
        PROVE \E d : run' = [run EXCEPT ![h] = d] /\ d \in Delivery /\ (DeliveryOK(d) \/ d = run[h])
    <3> DEFINE d == IF Holds(store[run[h].ws][run[h].thread], run[h].turn) THEN Free
                    ELSE [run[h] EXCEPT !.step = "append"]
    <3>1. run' = [run EXCEPT ![h] = d]
      BY <1>3, <2>3 DEF Lookup
    <3>2. run[h] \in [step : {"ensure", "lookup", "append"}, turn : Turns, ws : Workspaces, thread : ThreadIds]
      BY <1>3, <2>3 DEF Lookup, Delivery, Free
    <3>3. d \in Delivery
      BY <3>2 DEF Delivery
    <3>4. DeliveryOK(run[h]) /\ run[h].step = "lookup"
      BY <2>3 DEF CpInv, Lookup
    <3>5. DeliveryOK(d)
      BY <3>2, <3>4 DEF DeliveryOK, Free
    <3> QED BY <3>1, <3>3, <3>5
  <2> QED BY <2>1, <2>2, <2>3
<1>5. run' \in [Handlers -> Delivery]
  BY <1>3, <1>4
<1>6. CpTypeOK'
  <2>1. StoreTyped'
    BY <1>1 DEF CpInv, CpTypeOK, StoreTyped
  <2> QED BY <1>1, <1>2, <1>5, <2>1, AsideTyped
<1>7. \A k \in Handlers : DeliveryOK(run'[k])
  BY <1>3, <1>4 DEF CpInv
<1>8. legacyKept' = legacyKept
  BY <1>1 DEF Aside
<1> QED
  BY <1>1, <1>6, <1>7, <1>8 DEF CpInv, ThreadOK, DeliveryOK, Rooted

\* A step that puts one entry that is in order into the store, and leaves the
\* delivery it belongs to in order.
LEMMA EntryWritten ==
  ASSUME CpInv, Aside, deliveries' = deliveries,
         NEW w \in Workspaces, NEW t \in ThreadIds, NEW entry \in Thread \cup {Absent},
         store' = [store EXCEPT ![w][t] = entry], ThreadOK(w, t, entry),
         run' \in [Handlers -> Delivery], \A h \in Handlers : DeliveryOK(run'[h])
  PROVE  CpInv'
<1>1. StoreTyped /\ deliveries \in 0..MaxDeliveries
  BY DEF CpInv, CpTypeOK, StoreTyped
<1>2. /\ store' \in [Workspaces -> [ThreadIds -> Thread \cup {Absent}]]
      /\ \A v \in Workspaces, u \in ThreadIds :
           store'[v][u] = IF v = w /\ u = t THEN entry ELSE store[v][u]
  BY <1>1 DEF StoreTyped
<1>3. CpTypeOK'
  BY <1>1, <1>2, AsideTyped DEF StoreTyped
<1>4. \A v \in Workspaces, u \in ThreadIds : ThreadOK(v, u, store'[v][u])
  BY <1>2 DEF CpInv
<1>5. legacyKept' = legacyKept
  BY DEF Aside
<1> QED
  BY <1>3, <1>4, <1>5 DEF CpInv, ThreadOK, DeliveryOK, Rooted

\* A delivery that writes has its event, its workspace and a thread of its own.
LEMMA Writing ==
  ASSUME CpInv, NEW h \in Handlers, run[h].step \in {"ensure", "lookup", "append"}
  PROVE  /\ run[h] \in [step : {"ensure", "lookup", "append"}, turn : Turns, ws : Workspaces,
                        thread : ThreadIds]
         /\ run[h].turn.workspace = run[h].ws
         /\ run[h].thread \in Homes(run[h].turn.conversation) /\ Rooted(run[h].thread)
<1>1. run[h] \in Delivery
  BY DEF CpInv, CpTypeOK
<1>2. run[h] \in [step : {"ensure", "lookup", "append"}, turn : Turns, ws : Workspaces, thread : ThreadIds]
  BY <1>1 DEF Delivery, Free
<1>3. DeliveryOK(run[h])
  BY DEF CpInv
<1> QED
  BY <1>2, <1>3 DEF DeliveryOK

\* ensure_thread creates an empty thread under the id that was chosen.
LEMMA EnsureStep == ASSUME CpInv, NEW h \in Handlers, Ensure(h) PROVE CpInv'
<1> DEFINE w == run[h].ws
           t == run[h].thread
           entry == Touched(store[w][t])
<1>1. /\ run[h] \in [step : {"ensure", "lookup", "append"}, turn : Turns, ws : Workspaces, thread : ThreadIds]
      /\ Rooted(t)
  BY Writing DEF Ensure
<1>2. w \in Workspaces /\ t \in ThreadIds
  BY <1>1
<1>3. <<>> \in Seq(Turns)
  OBVIOUS
<1>4. store[w][t] \in Thread \cup {Absent} /\ ThreadOK(w, t, store[w][t])
  BY <1>2 DEF CpInv, CpTypeOK
<1>5. entry \in Thread \cup {Absent}
  BY <1>3, <1>4 DEF Touched, Thread
<1>6. ThreadOK(w, t, entry)
  BY <1>1, <1>4 DEF Touched, ThreadOK
<1>7. store' = [store EXCEPT ![w][t] = entry]
  BY DEF Ensure
<1>8. run \in [Handlers -> Delivery] /\ \A k \in Handlers : DeliveryOK(run[k])
  BY DEF CpInv, CpTypeOK
<1>9. PICK d : d = [run[h] EXCEPT !.step = "lookup"]
  OBVIOUS
<1>10. d \in Delivery /\ run' = [run EXCEPT ![h] = d]
  BY <1>1, <1>8, <1>9 DEF Ensure, Delivery
<1>11. DeliveryOK(d)
  BY <1>1, <1>8, <1>9 DEF DeliveryOK, Ensure
<1>12. run' \in [Handlers -> Delivery] /\ \A k \in Handlers : DeliveryOK(run'[k])
  BY <1>8, <1>10, <1>11
<1>13. Aside /\ deliveries' = deliveries
  BY DEF Ensure, Aside, CpInv, CpTypeOK
<1> HIDE DEF w, t, entry
<1> QED
  BY <1>2, <1>5, <1>6, <1>7, <1>12, <1>13, EntryWritten

\* append_message puts the turn at the end of a thread that is still there.
LEMMA AppendStep == ASSUME CpInv, NEW h \in Handlers, AppendTurn(h) PROVE CpInv'
<1> DEFINE w == run[h].ws
           t == run[h].thread
           old == store[w][t]
           entry == Appended(old, run[h].turn)
<1>1. /\ run[h] \in [step : {"ensure", "lookup", "append"}, turn : Turns, ws : Workspaces, thread : ThreadIds]
      /\ run[h].turn.workspace = w
      /\ t \in Homes(run[h].turn.conversation) /\ Rooted(t)
  BY Writing DEF AppendTurn
<1>2. w \in Workspaces /\ t \in ThreadIds
  BY <1>1
<1>3. old \in Thread \cup {Absent} /\ ThreadOK(w, t, old)
  BY <1>2 DEF CpInv, CpTypeOK
<1>4. entry \in Thread \cup {Absent} /\ ThreadOK(w, t, entry)
  <2>1. CASE old = Absent
    BY <2>1 DEF ThreadOK, Appended
  <2>2. CASE old # Absent
    <3>1. old \in Thread /\ old.rows \in Seq(Turns) /\ run[h].turn \in Turns
      BY <1>1, <1>3, <2>2 DEF Thread
    <3>2. PICK rows : rows = Append(old.rows, run[h].turn)
      OBVIOUS
    <3>3. /\ rows \in Seq(Turns)
          /\ \A i \in DOMAIN rows : \/ i \in DOMAIN old.rows /\ rows[i] = old.rows[i]
                                    \/ rows[i] = run[h].turn
      BY <3>1, <3>2, AppendOne
    <3>4. entry = [old EXCEPT !.rows = rows]
      BY <2>2, <3>2 DEF Appended
    <3>5. entry \in Thread /\ entry.rows = rows
      BY <3>1, <3>3, <3>4 DEF Thread
    <3>6. ThreadOK(w, t, entry)
      BY <1>1, <1>3, <2>2, <3>3, <3>5 DEF ThreadOK
    <3> QED BY <3>5, <3>6
  <2> QED BY <2>1, <2>2
<1>5. store' = [store EXCEPT ![w][t] = entry]
  BY DEF AppendTurn
<1>6. run \in [Handlers -> Delivery] /\ \A k \in Handlers : DeliveryOK(run[k])
  BY DEF CpInv, CpTypeOK
<1>7. Free \in Delivery /\ DeliveryOK(Free)
  BY DEF Delivery, DeliveryOK, Free
<1>8. run' \in [Handlers -> Delivery] /\ \A k \in Handlers : DeliveryOK(run'[k])
  BY <1>6, <1>7 DEF AppendTurn
<1>9. Aside /\ deliveries' = deliveries
  <2>1. TurnKey(h) \in TurnKeys
    BY <1>1 DEF TurnKey, TurnKeys
  <2>2. crossed \subseteq TurnKeys /\ crossed' \subseteq crossed \cup {TurnKey(h)}
    BY DEF AppendTurn, CpInv, CpTypeOK
  <2> QED BY <2>1, <2>2 DEF AppendTurn, Aside
<1> HIDE DEF w, t, entry
<1> QED
  BY <1>2, <1>4, <1>5, <1>8, <1>9, EntryWritten

\* The user labels a thread that is there, or deletes it.
LEMMA UserStep ==
  ASSUME CpInv, NEW w \in Workspaces, NEW t \in ThreadIds, UserLabels(w, t) \/ UserDeletes(w, t)
  PROVE  CpInv'
<1>1. store[w][t] \in Thread \cup {Absent} /\ ThreadOK(w, t, store[w][t])
  BY DEF CpInv, CpTypeOK
<1>2. run' \in [Handlers -> Delivery] /\ (\A h \in Handlers : DeliveryOK(run'[h]))
  BY DEF CpInv, CpTypeOK, UserLabels, UserDeletes
<1>3. Aside /\ deliveries' = deliveries
  BY DEF UserLabels, UserDeletes, Aside, CpInv, CpTypeOK
<1>4. CASE UserDeletes(w, t)
  <2>1. ThreadOK(w, t, Absent)
    BY DEF ThreadOK
  <2> QED BY <1>2, <1>3, <1>4, <2>1, EntryWritten DEF UserDeletes
<1>5. CASE UserLabels(w, t)
  <2>1. PICK entry : entry = [store[w][t] EXCEPT !.labels = "user"]
    OBVIOUS
  <2>2. store[w][t] \in Thread /\ store[w][t] # Absent
    BY <1>1, <1>5 DEF UserLabels
  <2>3. entry \in Thread /\ entry.rows = store[w][t].rows
    BY <2>1, <2>2 DEF Thread
  <2>4. ThreadOK(w, t, entry)
    BY <1>1, <2>2, <2>3 DEF ThreadOK
  <2>5. store' = [store EXCEPT ![w][t] = entry]
    BY <1>5, <2>1 DEF UserLabels
  <2> QED BY <1>2, <1>3, <2>3, <2>4, <2>5, EntryWritten
<1> QED
  BY <1>4, <1>5

LEMMA CpStep == CpInv /\ [CpNext]_cpVars => CpInv'
<1> SUFFICES ASSUME CpInv, [CpNext]_cpVars PROVE CpInv'
  OBVIOUS
<1>1. CASE UNCHANGED cpVars
  BY <1>1 DEF cpVars, CpInv, CpTypeOK, ThreadOK, DeliveryOK, Rooted
<1> QED
  BY <1>1, RegistrationStep, DeliveryBegins, EnsureStep, AppendStep, UserStep DEF CpNext

\* Two conversations in one thread are both at home there: their safe ids differ,
\* so one of them is there by its legacy id.
LEMMA SharedIsKept == CpInv => ConversationsNotMixed
<1> SUFFICES ASSUME CpInv, NEW w \in Workspaces, NEW t \in ThreadIds, store[w][t] # Absent,
                    NEW i \in DOMAIN store[w][t].rows, NEW j \in DOMAIN store[w][t].rows
             PROVE  \/ store[w][t].rows[i].conversation = store[w][t].rows[j].conversation
                    \/ t \in legacyKept \/ Imitated(t)
  BY DEF ConversationsNotMixed, Range
<1>1. store[w][t].rows \in Seq(Turns) /\ ThreadOK(w, t, store[w][t])
  BY DEF CpInv, CpTypeOK, Thread
<1>2. store[w][t].rows[i] \in Turns /\ store[w][t].rows[j] \in Turns
  BY <1>1
<1>3. PICK c \in Conversations : c = store[w][t].rows[i].conversation /\ t \in Homes(c)
  BY <1>1, <1>2, IdsAssumption DEF ThreadOK
<1>4. PICK d \in Conversations : d = store[w][t].rows[j].conversation /\ t \in Homes(d)
  BY <1>1, <1>2, IdsAssumption DEF ThreadOK
<1>5. Rooted(t)
  BY <1>1 DEF ThreadOK
<1> QED
  BY <1>3, <1>4, <1>5, IdsAssumption DEF Homes, Rooted, Imitated

\* For any number of handlers, turns stay in the workspace they target, however the
\* binding is switched, and two conversations share a thread only where one from
\* before the fix is carried on or one id imitates the other.
THEOREM ThreadsSeparate == CpSpec => [](CpTypeOK /\ TurnsStayInWorkspace /\ ConversationsNotMixed)
<1>1. CpInv => TurnsStayInWorkspace
  BY DEF CpInv, ThreadOK, TurnsStayInWorkspace, Range
<1>2. CpInv => CpTypeOK
  BY DEF CpInv
<1> QED
  BY <1>1, <1>2, CpInitInv, CpStep, SharedIsKept, PTL DEF CpSpec

-----------------------------------------------------------------------------
(* Redelivery.  What a handler did not find in its dedup read is not in the      *)
(* thread when it appends, unless another handler put it there in between, which *)
(* `crossed` records.                                                            *)

OnceIn(w, t, entry, cr) ==
  entry # Absent =>
    \A i, j \in DOMAIN entry.rows :
      PersistedId(entry.rows[i]) = PersistedId(entry.rows[j]) =>
        i = j \/ <<w, t, PersistedId(entry.rows[i])>> \in cr

NewToThread(h) ==
  run[h].step = "append" =>
    ~Holds(store[run[h].ws][run[h].thread], run[h].turn) \/ TurnKey(h) \in crossed

OnceInv == RedeliveryIsNoOp /\ \A h \in Handlers : NewToThread(h)

\* The rows of a thread after an append.
LEMMA RowsAppended ==
  ASSUME NEW entry \in Thread, entry # Absent, NEW e \in Turns
  PROVE  /\ Appended(entry, e) # Absent
         /\ \A i \in DOMAIN Appended(entry, e).rows :
              \/ i \in DOMAIN entry.rows /\ Appended(entry, e).rows[i] = entry.rows[i]
              \/ i = Len(entry.rows) + 1 /\ Appended(entry, e).rows[i] = e
<1>1. entry.rows \in Seq(Turns)
  BY DEF Thread
<1>2. PICK rows : rows = Append(entry.rows, e)
  OBVIOUS
<1>3. /\ rows \in Seq(Turns)
      /\ \A i \in DOMAIN rows : \/ i \in DOMAIN entry.rows /\ rows[i] = entry.rows[i]
                                \/ i = Len(entry.rows) + 1 /\ rows[i] = e
  BY <1>1, <1>2, AppendOne
<1>4. Appended(entry, e) = [entry EXCEPT !.rows = rows]
  BY <1>2 DEF Appended
<1>5. Appended(entry, e).rows = rows /\ Appended(entry, e) \in Thread
  BY <1>3, <1>4 DEF Thread
<1> QED BY <1>3, <1>5, IdsAssumption

\* A turn whose id the thread does not hold leaves every other id in it once.
LEMMA AppendedOnce ==
  ASSUME NEW entry \in Thread \cup {Absent}, NEW e \in Turns, NEW w, NEW t, NEW cr,
         OnceIn(w, t, entry, cr), ~Holds(entry, e) \/ <<w, t, PersistedId(e)>> \in cr
  PROVE  OnceIn(w, t, Appended(entry, e), cr)
<1>1. CASE entry = Absent
  BY <1>1 DEF Appended, OnceIn
<1>2. CASE entry # Absent
  <2>1. PICK rows : rows = Appended(entry, e).rows
    OBVIOUS
  <2>2. \A i \in DOMAIN rows : \/ i \in DOMAIN entry.rows /\ rows[i] = entry.rows[i]
                               \/ i = Len(entry.rows) + 1 /\ rows[i] = e
    BY <1>2, <2>1, RowsAppended
  <2> HIDE DEF PersistedId
  <2>3. \/ \A i \in DOMAIN entry.rows : PersistedId(entry.rows[i]) # PersistedId(e)
        \/ <<w, t, PersistedId(e)>> \in cr
    BY <1>2 DEF Holds
  <2>4. \A i, j \in DOMAIN entry.rows :
          PersistedId(entry.rows[i]) = PersistedId(entry.rows[j]) =>
            i = j \/ <<w, t, PersistedId(entry.rows[i])>> \in cr
    BY <1>2 DEF OnceIn
  <2>5. \A i, j \in DOMAIN rows :
          PersistedId(rows[i]) = PersistedId(rows[j]) =>
            i = j \/ <<w, t, PersistedId(rows[i])>> \in cr
    <3> SUFFICES ASSUME NEW i \in DOMAIN rows, NEW j \in DOMAIN rows,
                        PersistedId(rows[i]) = PersistedId(rows[j]), i # j
                 PROVE  <<w, t, PersistedId(rows[i])>> \in cr
      OBVIOUS
    <3>1. CASE i \in DOMAIN entry.rows /\ j \in DOMAIN entry.rows
               /\ rows[i] = entry.rows[i] /\ rows[j] = entry.rows[j]
      BY <2>4, <3>1
    <3>2. CASE rows[i] = e /\ j \in DOMAIN entry.rows /\ rows[j] = entry.rows[j]
      BY <2>3, <3>2
    <3>3. CASE rows[j] = e /\ i \in DOMAIN entry.rows /\ rows[i] = entry.rows[i]
      BY <2>3, <3>3
    <3> QED BY <2>2, <3>1, <3>2, <3>3
  <2> QED BY <2>1, <2>5 DEF OnceIn
<1> QED BY <1>1, <1>2

\* An append adds no id but the turn's own.
LEMMA AppendedHolds ==
  ASSUME NEW entry \in Thread \cup {Absent}, NEW e \in Turns, NEW f \in Turns,
         Holds(Appended(entry, e), f)
  PROVE  Holds(entry, f) \/ PersistedId(f) = PersistedId(e)
<1>1. entry # Absent
  BY DEF Appended, Holds
<1>2. PICK i \in DOMAIN Appended(entry, e).rows :
        PersistedId(Appended(entry, e).rows[i]) = PersistedId(f)
  BY DEF Holds
<1>3. \/ i \in DOMAIN entry.rows /\ Appended(entry, e).rows[i] = entry.rows[i]
      \/ Appended(entry, e).rows[i] = e
  BY <1>1, <1>2, RowsAppended
<1> HIDE DEF PersistedId
<1> QED BY <1>1, <1>2, <1>3 DEF Holds

\* What is new to a handler about to append is so after `entry` is written, or it was
\* crossed.
Undisturbed(w, t, entry) ==
  \A k \in Handlers : run'[k].step = "append" =>
    /\ run'[k] = run[k]
    /\ (run[k].ws = w /\ run[k].thread = t) =>
         \/ Holds(entry, run[k].turn) => Holds(store[w][t], run[k].turn)
         \/ TurnKey(k) \in crossed'

\* A step that writes one entry: ids stay single if they are in it, and a handler
\* about to append still has something new if the entry holds nothing new to it.
LEMMA OnceWritten ==
  ASSUME CpInv, OnceInv, NEW w \in Workspaces, NEW t \in ThreadIds, NEW entry,
         store' = [store EXCEPT ![w][t] = entry], crossed \subseteq crossed',
         OnceIn(w, t, entry, crossed'),
         Undisturbed(w, t, entry)
  PROVE  OnceInv'
<1> USE DEF Undisturbed
<1>1. /\ StoreTyped
      /\ \A v \in Workspaces, u \in ThreadIds : OnceIn(v, u, store[v][u], crossed)
  BY DEF CpInv, CpTypeOK, StoreTyped, OnceInv, RedeliveryIsNoOp, OnceIn
<1>2. \A v \in Workspaces, u \in ThreadIds :
        store'[v][u] = IF v = w /\ u = t THEN entry ELSE store[v][u]
  BY <1>1 DEF StoreTyped
<1>3. RedeliveryIsNoOp'
  <2>1. \A v \in Workspaces, u \in ThreadIds : OnceIn(v, u, store'[v][u], crossed')
    BY <1>1, <1>2 DEF OnceIn
  <2> QED BY <2>1 DEF RedeliveryIsNoOp, OnceIn
<1>4. ASSUME NEW h \in Handlers PROVE NewToThread(h)'
  <2> SUFFICES ASSUME run'[h].step = "append"
               PROVE  \/ ~Holds(store'[run'[h].ws][run'[h].thread], run'[h].turn)
                      \/ TurnKey(h)' \in crossed'
    BY DEF NewToThread, Holds
  <2>1. run'[h] = run[h] /\ TurnKey(h)' = TurnKey(h)
    BY DEF TurnKey
  <2>2. run[h].ws \in Workspaces /\ run[h].thread \in ThreadIds
    BY <2>1, Writing
  <2>3. ~Holds(store[run[h].ws][run[h].thread], run[h].turn) \/ TurnKey(h) \in crossed
    BY <2>1 DEF OnceInv, NewToThread
  <2> HIDE DEF Holds
  <2>4. CASE run[h].ws = w /\ run[h].thread = t
    BY <1>2, <2>1, <2>3, <2>4
  <2>5. CASE ~(run[h].ws = w /\ run[h].thread = t)
    BY <1>2, <2>1, <2>2, <2>3, <2>5
  <2> QED BY <2>4, <2>5
<1> QED BY <1>3, <1>4 DEF OnceInv

\* A handler appends what it has not found, unless it was crossed.
LEMMA OnceStep == CpInv /\ OnceInv /\ [CpNext]_cpVars => OnceInv'
<1> SUFFICES ASSUME CpInv, OnceInv, [CpNext]_cpVars PROVE OnceInv'
  OBVIOUS
<1>0. /\ StoreTyped /\ run \in [Handlers -> Delivery]
      /\ \A w \in Workspaces, t \in ThreadIds : OnceIn(w, t, store[w][t], crossed)
  BY DEF CpInv, CpTypeOK, StoreTyped, OnceInv, RedeliveryIsNoOp, OnceIn
<1>1. ASSUME store' = store, crossed' = crossed,
             \A h \in Handlers : run'[h].step = "append" => run'[h] = run[h]
      PROVE  OnceInv'
  BY <1>1 DEF OnceInv, RedeliveryIsNoOp, NewToThread, TurnKey
<1>2. CASE \/ UNCHANGED cpVars
           \/ \E r \in Registrars : \/ \E w \in Workspaces : RegisterBind(r, w)
                                    \/ RegisterCheck(r) \/ RegisterSubscribe(r) \/ RegisterMark(r)
  <2>1. store' = store /\ run' = run /\ crossed' = crossed
    BY <1>2 DEF cpVars, RegisterBind, RegisterCheck, RegisterSubscribe, RegisterMark
  <2> QED BY <1>1, <2>1
<1>3. ASSUME NEW h \in Handlers, (\E e \in Turns : Handle(h, e)) \/ Choose(h) PROVE OnceInv'
  <2>1. store' = store /\ crossed' = crossed
    BY <1>3 DEF Handle, Choose
  <2>2. \A k \in Handlers : run'[k].step = "append" => run'[k] = run[k]
    BY <1>0, <1>3 DEF Handle, Choose, Delivery, Free
  <2> QED BY <1>1, <2>1, <2>2
<1>4. ASSUME NEW h \in Handlers, Lookup(h) PROVE OnceInv'
  <2>1. store' = store /\ crossed' = crossed /\ RedeliveryIsNoOp'
    BY <1>4 DEF Lookup, OnceInv, RedeliveryIsNoOp
  <2>2. CASE Holds(store[run[h].ws][run[h].thread], run[h].turn)
    <3>1. \A k \in Handlers : run'[k].step = "append" => run'[k] = run[k]
      BY <1>0, <1>4, <2>2 DEF Lookup, Free
    <3> QED BY <1>1, <2>1, <3>1
  <2>3. CASE ~Holds(store[run[h].ws][run[h].thread], run[h].turn)
    <3>1. run[h] \in [step : {"ensure", "lookup", "append"}, turn : Turns, ws : Workspaces, thread : ThreadIds]
      BY <1>4, Writing DEF Lookup
    <3>2. PICK d : d = [run[h] EXCEPT !.step = "append"]
      OBVIOUS
    <3>3. run' = [run EXCEPT ![h] = d]
      BY <1>4, <2>3, <3>2 DEF Lookup
    <3>4. d.ws = run[h].ws /\ d.thread = run[h].thread /\ d.turn = run[h].turn
      BY <3>1, <3>2
    <3>5. \A k \in Handlers : run'[k] = IF k = h THEN d ELSE run[k]
      BY <1>0, <3>3
    <3>6. NewToThread(h)'
      <4>1. store'[run'[h].ws][run'[h].thread] = store[run[h].ws][run[h].thread]
            /\ run'[h].turn = run[h].turn
        BY <2>1, <3>4, <3>5
      <4> QED BY <2>3, <4>1 DEF NewToThread, Holds
    <3>7. ASSUME NEW k \in Handlers, k # h PROVE NewToThread(k)'
      <4>1. run'[k] = run[k] /\ TurnKey(k)' = TurnKey(k)
        BY <3>5, <3>7 DEF TurnKey
      <4> QED BY <2>1, <4>1 DEF OnceInv, NewToThread, Holds
    <3> QED BY <2>1, <3>6, <3>7 DEF OnceInv
  <2> QED BY <2>2, <2>3
<1>6. ASSUME NEW h \in Handlers, Ensure(h) PROVE OnceInv'
  <2>1. run[h] \in [step : {"ensure", "lookup", "append"}, turn : Turns, ws : Workspaces, thread : ThreadIds]
    BY <1>6, Writing DEF Ensure
  <2>2. PICK w \in Workspaces, t \in ThreadIds : w = run[h].ws /\ t = run[h].thread
    BY <2>1
  <2>3. PICK entry : entry = Touched(store[w][t])
    OBVIOUS
  <2>4. store' = [store EXCEPT ![w][t] = entry] /\ crossed' = crossed
    BY <1>6, <2>2, <2>3 DEF Ensure
  <2>5. OnceIn(w, t, entry, crossed') /\ \A e : Holds(entry, e) => Holds(store[w][t], e)
    BY <1>0, <2>3, <2>4 DEF Touched, OnceIn, Holds
  <2>6. \A k \in Handlers : run'[k].step = "append" => run'[k] = run[k]
    BY <1>0, <1>6, <2>1 DEF Ensure
  <2> HIDE DEF Holds, OnceIn, TurnKey
  <2>7. Undisturbed(w, t, entry)
    BY <2>5, <2>6 DEF Undisturbed
  <2>8. crossed \subseteq crossed' /\ OnceIn(w, t, entry, crossed')
    BY <2>4, <2>5
  <2> QED BY <2>4, <2>7, <2>8, OnceWritten
<1>7. ASSUME NEW h \in Handlers, AppendTurn(h) PROVE OnceInv'
  <2>1. run[h] \in [step : {"ensure", "lookup", "append"}, turn : Turns, ws : Workspaces, thread : ThreadIds]
    BY <1>7, Writing DEF AppendTurn
  <2>2. PICK w \in Workspaces, t \in ThreadIds, e \in Turns :
          w = run[h].ws /\ t = run[h].thread /\ e = run[h].turn
    BY <2>1
  <2>3. PICK entry : entry = Appended(store[w][t], e)
    OBVIOUS
  <2>4. store' = [store EXCEPT ![w][t] = entry] /\ run' = [run EXCEPT ![h] = Free]
    BY <1>7, <2>2, <2>3 DEF AppendTurn
  <2>5. crossed \subseteq crossed'
        /\ \A k \in Handlers \ {h} :
             run[k].step = "append" /\ TurnKey(k) = TurnKey(h) => TurnKey(k) \in crossed'
    BY <1>7 DEF AppendTurn
  <2>6. ~Holds(store[w][t], e) \/ <<w, t, PersistedId(e)>> \in crossed'
    BY <1>7, <2>2, <2>5 DEF AppendTurn, OnceInv, NewToThread, TurnKey
  <2>7. OnceIn(w, t, store[w][t], crossed') /\ store[w][t] \in Thread \cup {Absent}
    BY <1>0, <2>5 DEF OnceIn, StoreTyped
  <2>8. OnceIn(w, t, entry, crossed')
    BY <2>3, <2>6, <2>7, AppendedOnce
  <2>9. ASSUME NEW k \in Handlers, run'[k].step = "append"
        PROVE  /\ run'[k] = run[k]
               /\ (run[k].ws = w /\ run[k].thread = t) =>
                    \/ Holds(entry, run[k].turn) => Holds(store[w][t], run[k].turn)
                    \/ TurnKey(k) \in crossed'
    <3>1. k # h /\ run'[k] = run[k]
      BY <1>0, <2>4, <2>9 DEF Free
    <3>2. run[k].turn \in Turns
      BY <2>9, <3>1, Writing
    <3> SUFFICES ASSUME run[k].ws = w, run[k].thread = t,
                        Holds(entry, run[k].turn), ~Holds(store[w][t], run[k].turn)
                 PROVE  TurnKey(k) \in crossed'
      BY <3>1
    <3>3. PersistedId(run[k].turn) = PersistedId(e)
      BY <2>3, <2>7, <3>2, AppendedHolds
    <3>4. TurnKey(k) = TurnKey(h)
      BY <2>2, <3>3 DEF TurnKey
    <3> QED BY <2>5, <2>9, <3>1, <3>4
  <2> HIDE DEF Holds, OnceIn, TurnKey
  <2>10. Undisturbed(w, t, entry)
    BY <2>9 DEF Undisturbed
  <2> QED BY <2>4, <2>5, <2>8, <2>10, OnceWritten
<1>8. ASSUME NEW w \in Workspaces, NEW t \in ThreadIds, UserLabels(w, t) \/ UserDeletes(w, t)
      PROVE  OnceInv'
  <2>1. PICK entry : /\ store' = [store EXCEPT ![w][t] = entry]
                     /\ entry = Absent \/ (store[w][t] # Absent /\ entry = [store[w][t] EXCEPT !.labels = "user"])
    BY <1>8 DEF UserLabels, UserDeletes
  <2>2. entry # Absent => (store[w][t] # Absent /\ entry.rows = store[w][t].rows)
    <3>1. store[w][t] \in Thread \cup {Absent}
      BY <1>0 DEF StoreTyped
    <3> QED BY <2>1, <3>1 DEF Thread
  <2>3. run' = run /\ crossed' = crossed
    BY <1>8 DEF UserLabels, UserDeletes
  <2>4. OnceIn(w, t, entry, crossed') /\ \A e : Holds(entry, e) => Holds(store[w][t], e)
    BY <1>0, <2>2, <2>3 DEF OnceIn, Holds
  <2> HIDE DEF Holds, OnceIn, TurnKey
  <2>5. Undisturbed(w, t, entry)
    BY <2>3, <2>4 DEF Undisturbed
  <2>6. crossed \subseteq crossed' /\ OnceIn(w, t, entry, crossed')
    BY <2>3, <2>4
  <2> QED BY <2>1, <2>5, <2>6, OnceWritten
<1> QED
  BY <1>2, <1>3, <1>4, <1>6, <1>7, <1>8 DEF CpNext

\* For any number of handlers at once, any conversations, events and deliveries: threads
\* hold the turns of one workspace and one conversation, and a persisted id a second
\* time only where two deliveries of it crossed between dedup read and append.
THEOREM ThreadsCorrect == CpSpec => []ThreadsSound
<1>1. CpInit => OnceInv
  BY DEF CpInit, OnceInv, RedeliveryIsNoOp, NewToThread, Free
<1>2. CpInv /\ OnceInv => ThreadsSound
  BY SharedIsKept DEF CpInv, OnceInv, ThreadOK, TurnsStayInWorkspace, ThreadsSound, Range
<1> QED
  BY <1>1, <1>2, OnceStep, CpInitInv, CpStep, PTL DEF CpSpec

\* A channel turn never resets a label of the user's.
THEOREM LabelsCorrect == CpSpec => UserLabelsKept
<1> DEFINE UserKept == \A w \in Workspaces, t \in ThreadIds :
          (store[w][t] # Absent /\ store[w][t].labels = "user") =>
              (store'[w][t] = Absent \/ store'[w][t].labels = "user")
<1>1. ASSUME CpInv, [CpNext]_cpVars PROVE UserKept
  <2> SUFFICES ASSUME NEW w \in Workspaces, NEW t \in ThreadIds, store[w][t] # Absent,
                      store[w][t].labels = "user"
               PROVE  store'[w][t] = Absent \/ store'[w][t].labels = "user"
    OBVIOUS
  <2>1. StoreTyped /\ store[w][t] \in Thread
    BY <1>1 DEF CpInv, CpTypeOK, StoreTyped
  <2>2. CASE store' = store
    BY <2>2
  <2>3. ASSUME NEW h \in Handlers, Ensure(h)
        PROVE  store'[w][t] = Absent \/ store'[w][t].labels = "user"
    BY <2>1, <2>3 DEF Ensure, Touched, StoreTyped
  <2>4. ASSUME NEW h \in Handlers, AppendTurn(h)
        PROVE  store'[w][t] = Absent \/ store'[w][t].labels = "user"
    <3>1. store'[w][t] \in {store[w][t], Appended(store[w][t], run[h].turn)}
      BY <2>1, <2>4 DEF AppendTurn, StoreTyped
    <3>2. Appended(store[w][t], run[h].turn).labels = "user"
      BY <2>1 DEF Appended, Thread
    <3> QED BY <3>1, <3>2
  <2>5. ASSUME NEW v \in Workspaces, NEW u \in ThreadIds, UserLabels(v, u) \/ UserDeletes(v, u)
        PROVE  store'[w][t] = Absent \/ store'[w][t].labels = "user"
    <3>1. store'[w][t] \in {store[w][t], Absent, [store[w][t] EXCEPT !.labels = "user"]}
      BY <2>1, <2>5 DEF UserLabels, UserDeletes, StoreTyped
    <3>2. [store[w][t] EXCEPT !.labels = "user"].labels = "user"
      BY <2>1 DEF Thread
    <3> QED BY <3>1, <3>2
  <2> QED
    BY <1>1, <2>2, <2>3, <2>4, <2>5 DEF CpNext, cpVars, RegisterBind, RegisterCheck,
       RegisterSubscribe, RegisterMark, Handle, Choose, Lookup
<1>2. CpInv /\ [CpNext]_cpVars => [UserKept]_cpVars
  BY <1>1
<1> QED
  BY <1>2, CpInitInv, CpStep, PTL DEF CpSpec, UserLabelsKept

-----------------------------------------------------------------------------
(* The search index                                                         *)

\* A window of the term is a window of every text that has the term.
LEMMA NgramsOfTerm ==
  ASSUME NEW S, NEW text \in Seq(S), NEW term \in Seq(S), Includes(text, term)
  PROVE  ngrams(term) \subseteq ngrams(text)
<1>1. PICK k \in 0..(Len(text) - Len(term)) : \A i \in 1..Len(term) : text[k + i] = term[i]
  BY DEF Includes
<1>2. SUFFICES ASSUME NEW w \in (0..Len(term)) \X {2, 3}, w[1] + w[2] <= Len(term), OneScript(term, w[1], w[2])
               PROVE  Window(term, w[1], w[2]) \in ngrams(text)
  BY DEF ngrams
<1> DEFINE j == w[1]  n == w[2]
<1>3. j \in Nat /\ n \in {2, 3} /\ j + n <= Len(term) /\ k \in Nat /\ k + Len(term) <= Len(text)
      /\ Len(term) \in Nat /\ Len(text) \in Nat
  BY <1>2
<1>4. \A i \in 1..n : text[(k + j) + i] = term[j + i]
  <2> TAKE i \in 1..n
  <2>1. j + i \in 1..Len(term) /\ k + (j + i) = (k + j) + i
    BY <1>3
  <2> QED BY <2>1, <1>1
<1>5. Window(term, j, n) = Window(text, k + j, n)
  BY <1>4 DEF Window
<1>6. OneScript(text, k + j, n)
  BY <1>2, <1>4 DEF OneScript
<1>7. <<k + j, n>> \in (0..Len(text)) \X {2, 3} /\ k + j + n <= Len(text)
  BY <1>3
<1>8. Window(text, k + j, n) \in ngrams(text)
  <2> DEFINE v == <<k + j, n>>
  <2>1. v \in (0..Len(text)) \X {2, 3} /\ v[1] = k + j /\ v[2] = n
    BY <1>7
  <2>2. v[1] + v[2] <= Len(text) /\ OneScript(text, v[1], v[2])
    BY <2>1, <1>6, <1>7
  <2> HIDE DEF v
  <2> QED BY <2>1, <2>2 DEF ngrams
<1> QED BY <1>5, <1>8

\* The interned names are those of the threads that have documents.
PoolExact == pool = {docs[d].thread : d \in Filled}

SiInv == SiTypeOK /\ PostingsExact /\ ByMessageExact /\ PoolExact

\* The slots are numbered from one; a filled one holds an entry.
LEMMA FilledIs ==
  ASSUME SiTypeOK
  PROVE  /\ DOMAIN docs = 1..Len(docs) /\ Len(docs) \in Nat
         /\ \A d \in Filled : docs[d] \in Entry /\ d \in 1..Len(docs)
BY DEF SiTypeOK, Filled

\* An empty index is exact.
LEMMA SiInitInv == SiInit => SiInv
<1> SUFFICES ASSUME SiInit PROVE SiInv
  OBVIOUS
<1>1. docs = <<>> /\ Len(docs) = 0 /\ DOMAIN docs = {} /\ docs \in Seq(Entry \cup {Gone})
  BY DEF SiInit
<1>2. Filled = {}
  BY <1>1 DEF Filled
<1>3. DOMAIN postings = {} /\ DOMAIN byMessage = {} /\ pool = {}
  BY DEF SiInit
<1> QED BY <1>1, <1>2, <1>3, IndexAssumption DEF SiInv, SiTypeOK, PostingsExact, ByMessageExact, PoolExact

\* insert posts the new document under its n-grams and its pair.
LEMMA InsertInv ==
  ASSUME SiInv, NEW t \in Channels, NEW m \in Incoming, insert(t, m)
  PROVE  SiInv'
<1> DEFINE e == [thread |-> t, id |-> m.id, text |-> normalize(m.content), ms |-> CreatedMs(m.at)]
           d == Len(docs) + 1
<1> USE DEF SiInv
<1>1. e \in Entry /\ e # Gone
  <2>1. CreatedMs(m.at) \in Int
    BY IndexAssumption DEF CreatedMs
  <2>2. e \in Entry
    BY <2>1 DEF Entry, Texts
  <2> QED BY <2>2, IndexAssumption DEF Entry
<1>2. /\ Len(docs) < MaxDocs /\ Key(e) \notin DOMAIN byMessage /\ postings' = Posted(d, e.text)
      /\ pool' = pool \cup {t} /\ docs' = Append(docs, e)
      /\ byMessage' = [k \in DOMAIN byMessage \cup {Key(e)} |-> IF k = Key(e) THEN d ELSE byMessage[k]]
  BY DEF insert, Interned
<1>3. DOMAIN docs = 1..Len(docs) /\ Len(docs) \in Nat /\ \A c \in Filled : docs[c] \in Entry /\ c \in 1..Len(docs)
  BY FilledIs
<1> HIDE DEF e
<1>4. /\ docs' \in Seq(Entry \cup {Gone}) /\ Len(docs') = d /\ DOMAIN docs' = 1..d /\ docs'[d] = e
      /\ \A c \in 1..Len(docs) : docs'[c] = docs[c]
  BY <1>1, <1>2 DEF SiTypeOK
<1>5. Filled' = Filled \cup {d} /\ d \notin Filled
  BY <1>1, <1>3, <1>4 DEF Filled
<1>6. \A c \in Filled : docs'[c] = docs[c]
  BY <1>3, <1>4
<1>7. e.thread = t /\ e.text = normalize(m.content)
  BY DEF e
<1>8. SiTypeOK'
  BY <1>2, <1>3, <1>4, IndexAssumption DEF SiTypeOK
<1> HIDE DEF d
<1>9. PostingsExact'
  <2>1. DOMAIN postings' = DOMAIN postings \cup ngrams(e.text)
    BY <1>2 DEF Posted
  <2>2. UNION {ngrams(docs'[c].text) : c \in Filled'} = (UNION {ngrams(docs[c].text) : c \in Filled}) \cup ngrams(e.text)
    BY <1>4, <1>5, <1>6
  <2>3. ASSUME NEW g \in DOMAIN postings'
        PROVE  postings'[g] = {c \in Filled' : g \in ngrams(docs'[c].text)}
    <3>1. postings'[g] = (IF g \in DOMAIN postings THEN postings[g] ELSE {}) \cup
                         (IF g \in ngrams(e.text) THEN {d} ELSE {})
      BY <1>2, <2>1 DEF Posted
    <3>2. (IF g \in DOMAIN postings THEN postings[g] ELSE {}) = {c \in Filled : g \in ngrams(docs[c].text)}
      BY DEF PostingsExact
    <3> QED BY <3>1, <3>2, <1>4, <1>5, <1>6
  <2> QED BY <2>1, <2>2, <2>3 DEF PostingsExact
<1>10. ByMessageExact'
  <2>1. DOMAIN byMessage' = DOMAIN byMessage \cup {Key(e)}
    BY <1>2
  <2>2. {Key(docs'[c]) : c \in Filled'} = {Key(docs[c]) : c \in Filled} \cup {Key(e)}
    BY <1>4, <1>5, <1>6
  <2>3. ASSUME NEW c \in Filled PROVE byMessage'[Key(docs'[c])] = c
    BY <1>2, <1>6 DEF ByMessageExact
  <2>4. byMessage'[Key(docs'[d])] = d
    BY <1>2, <1>4
  <2> QED BY <2>1, <2>2, <2>3, <2>4, <1>5 DEF ByMessageExact
<1>11. PoolExact'
  BY <1>2, <1>4, <1>5, <1>6, <1>7 DEF PoolExact
<1> QED BY <1>8, <1>9, <1>10, <1>11

\* remove_thread takes exactly the thread's documents out of everything.
LEMMA RemoveInv ==
  ASSUME SiInv, NEW t \in Channels, remove_thread(t)
  PROVE  SiInv'
<1> DEFINE D == {byMessage[k] : k \in {j \in DOMAIN byMessage : j[1] = t}}
<1> USE DEF SiInv
<1>1. /\ postings' = Unposted(D)
      /\ byMessage' = [k \in DOMAIN byMessage \ {Key(docs[d]) : d \in D} |-> byMessage[k]]
      /\ docs' = [d \in DOMAIN docs |-> IF d \in D THEN Gone ELSE docs[d]]
      /\ pool' = pool \ {t}
  BY DEF remove_thread
<1>2. DOMAIN docs = 1..Len(docs) /\ Len(docs) \in Nat /\ \A c \in Filled : docs[c] \in Entry /\ c \in 1..Len(docs)
  BY FilledIs
<1>3. D = {d \in Filled : docs[d].thread = t}
  <2>1. ASSUME NEW d \in D PROVE d \in Filled /\ docs[d].thread = t
    <3>1. PICK k \in DOMAIN byMessage : k[1] = t /\ d = byMessage[k]
      OBVIOUS
    <3>2. PICK c \in Filled : k = Key(docs[c])
      BY DEF ByMessageExact
    <3> QED BY <3>1, <3>2 DEF ByMessageExact, Key
  <2>2. ASSUME NEW d \in Filled, docs[d].thread = t PROVE d \in D
    <3>1. Key(docs[d]) \in DOMAIN byMessage /\ byMessage[Key(docs[d])] = d
      BY DEF ByMessageExact
    <3>2. Key(docs[d])[1] = t
      BY <2>2 DEF Key
    <3> QED BY <3>1, <3>2
  <2> QED BY <2>1, <2>2
<1> HIDE DEF D
<1>4. DOMAIN docs' = DOMAIN docs /\ \A d \in DOMAIN docs : docs'[d] = IF d \in D THEN Gone ELSE docs[d]
  BY <1>1
<1>5. Filled' = Filled \ D /\ \A d \in Filled' : docs'[d] = docs[d]
  BY <1>4 DEF Filled
<1>6. SiTypeOK'
  <2>1. docs' \in [1..Len(docs) -> Entry \cup {Gone}]
    BY <1>1, <1>2 DEF SiTypeOK
  <2>2. docs' \in Seq(Entry \cup {Gone}) /\ Len(docs') = Len(docs)
    BY <2>1, <1>2
  <2> QED BY <2>2, <1>1 DEF SiTypeOK
<1>7. PostingsExact'
  <2> DEFINE rest(g) == {d \in postings[g] : d \notin D \/ g \notin ngrams(docs[d].text)}
  <2>1. ASSUME NEW g \in DOMAIN postings PROVE rest(g) = {d \in Filled' : g \in ngrams(docs'[d].text)}
    BY <1>5 DEF PostingsExact
  <2>2. /\ DOMAIN postings' = {g \in DOMAIN postings : rest(g) # {}}
        /\ \A g \in DOMAIN postings' : postings'[g] = rest(g)
    BY <1>1 DEF Unposted
  <2>3. ASSUME NEW g \in DOMAIN postings'
        PROVE  /\ postings'[g] = {d \in Filled' : g \in ngrams(docs'[d].text)}
               /\ g \in UNION {ngrams(docs'[d].text) : d \in Filled'}
    <3>1. g \in DOMAIN postings /\ rest(g) # {} /\ postings'[g] = rest(g)
      BY <2>2
    <3>2. rest(g) = {d \in Filled' : g \in ngrams(docs'[d].text)}
      BY <2>1, <3>1
    <3> HIDE DEF rest
    <3>3. PICK d \in Filled' : g \in ngrams(docs'[d].text)
      BY <3>1, <3>2
    <3> QED BY <3>1, <3>2, <3>3
  <2>4. ASSUME NEW d \in Filled', NEW g \in ngrams(docs'[d].text) PROVE g \in DOMAIN postings'
    <3>1. d \in Filled /\ g \in ngrams(docs[d].text)
      BY <1>5
    <3>2. g \in DOMAIN postings
      BY <3>1 DEF PostingsExact
    <3>3. d \in {c \in Filled' : g \in ngrams(docs'[c].text)}
      OBVIOUS
    <3>4. rest(g) # {}
      BY <3>2, <3>3, <2>1
    <3> QED BY <2>2, <3>2, <3>4
  <2> HIDE DEF rest
  <2>5. DOMAIN postings' = UNION {ngrams(docs'[d].text) : d \in Filled'}
    BY <2>3, <2>4
  <2> QED BY <2>3, <2>5 DEF PostingsExact
<1>8. ByMessageExact'
  <2>1. \A c, d \in Filled : Key(docs[c]) = Key(docs[d]) => c = d
    BY DEF ByMessageExact
  <2>2. DOMAIN byMessage' = DOMAIN byMessage \ {Key(docs[d]) : d \in D} /\ \A k \in DOMAIN byMessage' : byMessage'[k] = byMessage[k]
    BY <1>1
  <2>3. DOMAIN byMessage = {Key(docs[d]) : d \in Filled}
    BY DEF ByMessageExact
  <2>4. DOMAIN byMessage' = {Key(docs[d]) : d \in Filled \ D}
    BY <2>1, <2>2, <2>3, <1>3
  <2>5. {Key(docs[d]) : d \in Filled \ D} = {Key(docs'[d]) : d \in Filled'}
    BY <1>5
  <2>6. ASSUME NEW d \in Filled' PROVE byMessage'[Key(docs'[d])] = d
    BY <2>2, <2>4, <2>5, <1>5 DEF ByMessageExact
  <2> QED BY <2>4, <2>5, <2>6 DEF ByMessageExact
<1>9. PoolExact'
  <2>1. {docs[d].thread : d \in Filled} \ {t} = {docs[d].thread : d \in Filled \ D}
    BY <1>3
  <2> QED BY <2>1, <1>1, <1>5 DEF PoolExact
<1> QED BY <1>6, <1>7, <1>8, <1>9

\* No document that has the term is missing from its candidates.
LEMMA NoneMissed ==
  ASSUME SiInv, NEW term \in Seq(Chars), NEW d \in Filled, Includes(docs[d].text, term)
  PROVE  d \in Candidates(term)
<1>1. docs[d] \in Entry /\ d \in DOMAIN docs
  BY FilledIs DEF SiInv, Filled
<1>2. docs[d].text \in Seq(Chars)
  BY <1>1, IndexAssumption DEF Entry
<1>3. ngrams(term) \subseteq ngrams(docs[d].text)
  BY <1>2, NgramsOfTerm
<1>4. ASSUME NEW g \in ngrams(term) PROVE g \in DOMAIN postings /\ d \in postings[g]
  <2>1. g \in ngrams(docs[d].text)
    BY <1>3
  <2> QED BY <2>1 DEF SiInv, PostingsExact
<1> QED BY <1>1, <1>4 DEF Candidates, Intersection

\* Verifying the candidates gives what verifying every document gives.
LEMMA SearchIsScan ==
  ASSUME SiInv, NEW q \in Queries, NEW n, NEW x, ~TooCommon(q)
  PROVE  search(q, n, x) = scan(q, n, x)
<1>1. ASSUME NEW s \in Terms(q) PROVE Verified(Term(q, s), x) = Scanned(Term(q, s), x)
  <2>1. normalize(q) \in Seq(Chars)
    BY IndexAssumption
  <2>2. s[1] \in 1..Len(normalize(q)) /\ s[2] \in 1..Len(normalize(q))
    BY DEF Terms
  <2> HIDE DEF normalize
  <2>3. Term(q, s) \in Seq(Chars)
    <3> DEFINE w == normalize(q)
    <3>1. w \in Seq(Chars) /\ s[1] \in 1..Len(w) /\ s[2] \in 1..Len(w)
      BY <2>1, <2>2
    <3> HIDE DEF w
    <3>2. SubSeq(w, s[1], s[2]) \in Seq(Chars)
      BY <3>1
    <3> QED BY <3>2 DEF Term, w
  <2> QED BY <2>3, NoneMissed DEF Verified, Scanned, Visible
<1>2. [s \in Terms(q) |-> Verified(Term(q, s), x)] = [s \in Terms(q) |-> Scanned(Term(q, s), x)]
  BY <1>1
<1> QED BY <1>2 DEF search, scan

\* The cross-thread search index, for any scripts, folds, messages and
\* queries: it stays exact through every insert and removal, and searching it
\* (inverted_index.rs, search) finds what scanning every message would.
THEOREM SearchCorrect == SiSpec => []SearchSound
<1>1. SiInit => SiInv
  BY SiInitInv
<1>2. SiInv /\ [SiNext]_siVars => SiInv'
  <2> SUFFICES ASSUME SiInv, [SiNext]_siVars PROVE SiInv'
    OBVIOUS
  <2>1. CASE \E t \in Channels, m \in Incoming : insert(t, m)
    BY <2>1, InsertInv
  <2>2. CASE \E t \in Channels : remove_thread(t)
    BY <2>2, RemoveInv
  <2>3. CASE UNCHANGED siVars
    BY <2>3 DEF siVars, SiInv, SiTypeOK, PostingsExact, ByMessageExact, PoolExact, Filled
  <2> QED BY <2>1, <2>2, <2>3 DEF SiNext
<1>3. SiInv => SearchSound
  <2> SUFFICES ASSUME SiInv PROVE SearchSound
    OBVIOUS
  <2>1. \A q \in Queries, n \in Limits, x \in Channels \cup {Gone} :
           ~TooCommon(q) => search(q, n, x) = scan(q, n, x)
    BY SearchIsScan
  <2> QED BY <2>1 DEF SiInv, SearchSound, PoolExact
<1> QED BY <1>1, <1>2, <1>3, PTL DEF SiSpec

-----------------------------------------------------------------------------
(***************************************************************************)
(* The conversation store (ConversationStore): which locks an operation    *)
(* holds at each of its steps, and what the rows of a thread are.          *)
(***************************************************************************)
Holding == {"append", "patch", "truncate", "delete"}

OpRecord ==
  [kind : Holding \cup {"idle", "purge", "list", "search"},
   step : {"idle", "row", "stat", "rewrite", "stats", "evict", "remove", "snapshot", "repair",
           "build", "scan", "query"},
   thread : Threads \cup {None}, message : Messages \cup {None}, rows : Seq(Messages),
   todo : SUBSET (Threads \cup {"log"}), bad : SUBSET Threads,
   built : {None} \cup [Threads -> SUBSET Messages]]

Building(p) == op[p].kind = "search" /\ op[p].step \in {"snapshot", "scan"}

OpTyped == op \in [Procs -> OpRecord]
OwnerTyped == owner \in [Threads -> Procs \cup {None}]
JournalTyped == journal = None \/ journal \subseteq Threads \X Messages
OwnsItsThread ==
  \A p \in Procs : op[p].kind \in Holding => op[p].thread \in Threads /\ owner[op[p].thread] = p
BuilderBuilds == builder \in Procs \cup {None} /\ \A p \in Procs : Building(p) <=> builder = p
LocksOK == OpTyped /\ OwnerTyped /\ JournalTyped /\ OwnsItsThread /\ BuilderBuilds /\ JournalOnlyWhileBuilding

LEMMA IdleTyped == Idle \in OpRecord /\ Idle.kind = "idle"
<1>1. {} \in SUBSET (Threads \cup {"log"}) /\ {} \in SUBSET Threads /\ <<>> \in Seq(Messages)
  OBVIOUS
<1> QED
  BY <1>1 DEF Idle, OpRecord, Holding

LEMMA LocksInit == Init => LocksOK
  BY IdleTyped, StoreAssumption
  DEF Init, LocksOK, OpTyped, OwnerTyped, JournalTyped, OwnsItsThread, BuilderBuilds,
      JournalOnlyWhileBuilding, Building, Holding

(* An operation that returns gives back what it holds, and nothing of another. *)
LEMMA ReturnKeepsLocks ==
  ASSUME LocksOK, NEW p \in Procs, Returns(p), JournalTyped',
         \/ ~Building(p) /\ (journal' = None <=> journal = None)
         \/ Building(p) /\ journal' = None
  PROVE  LocksOK'
<1>1. op' = [op EXCEPT ![p] = Idle] /\ builder' = (IF builder = p THEN None ELSE builder)
      /\ owner' = [t \in Threads |-> IF owner[t] = p THEN None ELSE owner[t]]
  BY DEF Returns, Released
<1>2. None \notin Procs
  BY StoreAssumption
<1>3. OpTyped' /\ op'[p] = Idle /\ \A q \in Procs \ {p} : op'[q] = op[q]
  BY <1>1, IdleTyped DEF LocksOK, OpTyped
<1>4. OwnerTyped'
  BY <1>1 DEF LocksOK, OwnerTyped
<1>5. OwnsItsThread'
  BY <1>1, <1>2, <1>3, IdleTyped DEF LocksOK, OwnerTyped, OwnsItsThread, Holding
<1>6. BuilderBuilds'
  BY <1>1, <1>2, <1>3, IdleTyped DEF LocksOK, BuilderBuilds, Building
<1>7. JournalOnlyWhileBuilding'
  BY <1>1, <1>2 DEF LocksOK, BuilderBuilds, JournalOnlyWhileBuilding
<1> QED
  BY <1>3, <1>4, <1>5, <1>6, <1>7 DEF LocksOK

(* A step within an operation keeps its thread and its role. *)
LEMMA StepKeepsLocks ==
  ASSUME LocksOK, NEW p \in Procs, NEW new \in OpRecord, op' = [op EXCEPT ![p] = new],
         new.kind = op[p].kind, new.thread = op[p].thread,
         (new.kind = "search" /\ new.step \in {"snapshot", "scan"}) <=> Building(p),
         owner' = owner, builder' = builder, JournalTyped', journal' = None <=> journal = None
  PROVE  LocksOK'
<1>1. OpTyped' /\ op'[p] = new /\ \A q \in Procs \ {p} : op'[q] = op[q]
  BY DEF LocksOK, OpTyped
<1>2. OwnerTyped' /\ OwnsItsThread'
  BY <1>1 DEF LocksOK, OwnerTyped, OwnsItsThread
<1>3. BuilderBuilds' /\ JournalOnlyWhileBuilding'
  BY <1>1 DEF LocksOK, BuilderBuilds, Building, JournalOnlyWhileBuilding
<1> QED
  BY <1>1, <1>2, <1>3 DEF LocksOK

(* An operation that begins takes its thread when nobody has it. *)
LEMMA BeginKeepsLocks ==
  ASSUME LocksOK, NEW p \in Procs, op[p] = Idle, NEW new \in OpRecord, op' = [op EXCEPT ![p] = new],
         ~(new.kind = "search" /\ new.step \in {"snapshot", "scan"}),
         \/ new.kind \notin Holding /\ owner' = owner
         \/ /\ new.thread \in Threads /\ owner[new.thread] = None
            /\ owner' = [owner EXCEPT ![new.thread] = p],
         builder' = builder, journal' = journal
  PROVE  LocksOK'
<1>1. OpTyped' /\ op'[p] = new /\ \A q \in Procs \ {p} : op'[q] = op[q]
  BY DEF LocksOK, OpTyped
<1>2. None \notin Procs
  BY StoreAssumption
<1>3. OwnerTyped'
  BY DEF LocksOK, OwnerTyped
<1>4. OwnsItsThread'
  BY <1>1, <1>2 DEF LocksOK, OwnerTyped, OwnsItsThread
<1>5. ~Building(p)
  BY IdleTyped DEF Building
<1>6. BuilderBuilds' /\ JournalOnlyWhileBuilding' /\ JournalTyped'
  BY <1>1, <1>5 DEF LocksOK, BuilderBuilds, Building, JournalOnlyWhileBuilding, JournalTyped
<1> QED
  BY <1>1, <1>3, <1>4, <1>6 DEF LocksOK

(* What a thread holds on disk: the rows of its file and a complete row on its
   unterminated last line. *)
RowsTyped ==
  /\ file \in [Threads -> Seq(Messages)]
  /\ fileTail \in [Threads -> Messages \cup {None, Partial}]
Stored(t) == ToSet(file[t]) \cup ({fileTail[t]} \cap Messages)

LEMMA TailsApart == None \notin Messages /\ Partial \notin Messages
  BY StoreAssumption

LEMMA RowsInMessages ==
  ASSUME RowsTyped, NEW t \in Threads
  PROVE  Rows(t) \in Seq(Messages)
<1>1. file[t] \in Seq(Messages) /\ fileTail[t] \in Messages \cup {None, Partial}
  BY DEF RowsTyped
<1> QED
  BY <1>1 DEF Rows

(* A sequence and one more element, as sets. *)
LEMMA AppendToSet ==
  ASSUME NEW S, NEW s \in Seq(S), NEW x \in S
  PROVE  ToSet(Append(s, x)) = ToSet(s) \cup {x}
<1>1. Append(s, x) \in Seq(S) /\ Len(Append(s, x)) = Len(s) + 1
      /\ Append(s, x)[Len(s) + 1] = x /\ \A i \in 1..Len(s) : Append(s, x)[i] = s[i]
  OBVIOUS
<1>2. DOMAIN Append(s, x) = 1..(Len(s) + 1) /\ DOMAIN s = 1..Len(s) /\ Len(s) \in Nat
  BY <1>1
<1> QED
  BY <1>1, <1>2 DEF ToSet

LEMMA NewRowDistinct ==
  ASSUME NEW S, NEW s \in Seq(S), NEW x \in S, IsInjective(s), x \notin ToSet(s)
  PROVE  IsInjective(Append(s, x))
<1>1. Append(s, x) \in Seq(S) /\ Len(Append(s, x)) = Len(s) + 1
      /\ Append(s, x)[Len(s) + 1] = x /\ \A i \in 1..Len(s) : Append(s, x)[i] = s[i]
  OBVIOUS
<1>2. DOMAIN Append(s, x) = 1..(Len(s) + 1) /\ DOMAIN s = 1..Len(s) /\ Len(s) \in Nat
  BY <1>1
<1>3. \A a, b \in 1..Len(s) : s[a] = s[b] => a = b
  BY <1>2 DEF IsInjective
<1>4. \A a \in 1..Len(s) : s[a] # x
  BY <1>2 DEF ToSet
<1>5. ASSUME NEW a \in 1..(Len(s) + 1), NEW b \in 1..(Len(s) + 1), Append(s, x)[a] = Append(s, x)[b]
      PROVE  a = b
  BY <1>1, <1>2, <1>3, <1>4, <1>5
<1>6. \A a, b \in 1..(Len(s) + 1) : Append(s, x)[a] = Append(s, x)[b] => a = b
  BY <1>5
<1> QED
  BY <1>2, <1>6, Zenon DEF IsInjective

LEMMA StoredIsRowSet ==
  ASSUME RowsTyped, NEW t \in Threads
  PROVE  RowSet(t) = Stored(t)
<1>1. file[t] \in Seq(Messages) /\ fileTail[t] \in Messages \cup {None, Partial}
  BY DEF RowsTyped
<1> QED
  BY <1>1, TailsApart, AppendToSet DEF RowSet, Rows, Stored

(* `Goto` keeps everything of an operation but the step it stands at. *)
LEMMA GotoKeepsLocks ==
  ASSUME LocksOK, NEW p \in Procs, NEW step, Goto(p, step), op[p].kind # "search",
         step \in {"stat", "stats", "evict", "snapshot"},
         owner' = owner, builder' = builder, journal' = journal
  PROVE  LocksOK'
<1> DEFINE new == [op[p] EXCEPT !.step = step]
<1>1. new \in OpRecord /\ op' = [op EXCEPT ![p] = new] /\ new.kind = op[p].kind
      /\ new.thread = op[p].thread
  <2>1. op[p] \in OpRecord /\ op' = [op EXCEPT ![p] = new]
    BY DEF LocksOK, OpTyped, Goto
  <2> QED BY <2>1 DEF OpRecord
<1>2. ~Building(p) /\ JournalTyped'
  BY DEF Building, LocksOK, JournalTyped
<1> HIDE DEF new
<1> QED
  BY <1>1, <1>2, StepKeepsLocks

(* An action that touches neither the operations nor the locks. *)
LEMMA StillKeepsLocks ==
  ASSUME LocksOK, op' = op, owner' = owner, builder' = builder, journal' = journal
  PROVE  LocksOK'
  BY DEF LocksOK, OpTyped, OwnerTyped, JournalTyped, OwnsItsThread, BuilderBuilds,
         JournalOnlyWhileBuilding, Building

LEMMA BegunTyped ==
  ASSUME NEW kind \in Holding \cup {"purge", "list", "search"},
         NEW step \in {"row", "rewrite", "remove", "snapshot", "build", "query"},
         NEW t \in Threads \cup {None}, NEW m \in Messages \cup {None}
  PROVE  /\ Begun(kind, step, t, m) \in OpRecord
         /\ Begun(kind, step, t, m).kind = kind /\ Begun(kind, step, t, m).step = step
         /\ Begun(kind, step, t, m).thread = t /\ Begun(kind, step, t, m).message = m
         /\ Begun(kind, step, t, m).rows = <<>>
  BY IdleTyped DEF Begun, Idle, OpRecord

LEMMA BeginStepLocks ==
  ASSUME LocksOK, NEW p \in Procs, Begin(p), RowsTyped
  PROVE  LocksOK'
<1>1. ASSUME NEW t \in Threads, NEW m \in Messages, AppendBegin(p, t, m)
      PROVE  LocksOK'
  <2>1. Begun("append", "row", t, m) \in OpRecord /\ Begun("append", "row", t, m).thread = t
        /\ Begun("append", "row", t, m).kind = "append"
    BY BegunTyped DEF Holding
  <2> QED
    BY <1>1, <2>1, BeginKeepsLocks DEF AppendBegin, EnterRead, Holding
<1>2. ASSUME NEW t \in Threads, NEW m \in Messages, TruncateRead(p, t, m)
      PROVE  LocksOK'
  <2> DEFINE b == Begun("truncate", "rewrite", t, m)
             new == [b EXCEPT !.rows = Rows(t)]
  <2>1. b \in OpRecord /\ b.thread = t /\ b.kind = "truncate"
    BY BegunTyped DEF Holding
  <2>2. Rows(t) \in Seq(Messages)
    BY RowsInMessages
  <2>3. op' = [op EXCEPT ![p] = new]
    BY <1>2 DEF TruncateRead
  <2> HIDE DEF b
  <2>4. new \in OpRecord /\ new.thread = t /\ new.kind = "truncate"
    BY <2>1, <2>2 DEF OpRecord
  <2> HIDE DEF new
  <2> QED
    BY <1>2, <2>3, <2>4, BeginKeepsLocks DEF TruncateRead, EnterRead, Holding
<1>3. ASSUME NEW t \in Threads, UpdateRead(p, t)
      PROVE  LocksOK'
  <2> DEFINE b == Begun("patch", "rewrite", t, None)
             new == [b EXCEPT !.rows = Rows(t)]
  <2>1. b \in OpRecord /\ b.thread = t /\ b.kind = "patch"
    BY BegunTyped DEF Holding
  <2>2. Rows(t) \in Seq(Messages)
    BY RowsInMessages
  <2>3. op' = [op EXCEPT ![p] = new]
    BY <1>3 DEF UpdateRead
  <2> HIDE DEF b
  <2>4. new \in OpRecord /\ new.thread = t /\ new.kind = "patch"
    BY <2>1, <2>2 DEF OpRecord
  <2> HIDE DEF new
  <2> QED
    BY <1>3, <2>3, <2>4, BeginKeepsLocks DEF UpdateRead, EnterRead, Holding
<1>4. ASSUME NEW t \in Threads, DeleteBegin(p, t)
      PROVE  LocksOK'
  <2>1. Begun("delete", "remove", t, None) \in OpRecord
        /\ Begun("delete", "remove", t, None).thread = t
        /\ Begun("delete", "remove", t, None).kind = "delete"
    BY BegunTyped DEF Holding
  <2> QED
    BY <1>4, <2>1, BeginKeepsLocks DEF DeleteBegin, Holding
<1>5. CASE PurgeBegin(p)
  <2> DEFINE b == Begun("purge", "remove", None, None)
             new == [b EXCEPT !.todo = Threads \cup {"log"}]
  <2>1. b \in OpRecord /\ b.kind = "purge"
    BY BegunTyped DEF Holding
  <2>2. op' = [op EXCEPT ![p] = new]
    BY <1>5 DEF PurgeBegin
  <2> HIDE DEF b
  <2>3. new \in OpRecord /\ new.kind = "purge"
    BY <2>1 DEF OpRecord
  <2> HIDE DEF new
  <2> QED
    BY <1>5, <2>2, <2>3, BeginKeepsLocks DEF PurgeBegin, Holding
<1>6. CASE ListBegin(p)
  <2>1. Begun("list", "snapshot", None, None) \in OpRecord
        /\ Begun("list", "snapshot", None, None).kind = "list"
    BY BegunTyped DEF Holding
  <2> QED
    BY <1>6, <2>1, BeginKeepsLocks DEF ListBegin, EnterRead, Holding
<1>7. CASE SearchBegin(p)
  <2> DEFINE step == IF cache = None THEN "build" ELSE "query"
             new == Begun("search", step, None, None)
  <2>1. new \in OpRecord /\ new.kind = "search" /\ new.step \in {"build", "query"}
    BY BegunTyped DEF Holding
  <2>2. op' = [op EXCEPT ![p] = new] /\ op[p] = Idle /\ owner' = owner /\ builder' = builder
        /\ journal' = journal
    BY <1>7 DEF SearchBegin, EnterRead
  <2> HIDE DEF new
  <2> QED
    BY <2>1, <2>2, BeginKeepsLocks DEF Holding
<1> QED
  BY <1>1, <1>2, <1>3, <1>4, <1>5, <1>6, <1>7 DEF Begin

(* A return that leaves the journal alone, of an operation that builds nothing. *)
LEMMA PlainReturn ==
  ASSUME LocksOK, NEW p \in Procs, Returns(p), ~Building(p), journal' = journal
  PROVE  LocksOK'
<1>1. JournalTyped'
  BY DEF LocksOK, JournalTyped
<1> QED
  BY <1>1, ReturnKeepsLocks

(* What an append leaves in the journal of a scan. *)
LEMMA AppendIndexedJournal ==
  ASSUME LocksOK, NEW p \in Procs, op[p].kind = "append", op[p].message \in Messages,
         AppendIndexed(p)
  PROVE  JournalTyped' /\ (journal' = None <=> journal = None)
<1>1. op[p].thread \in Threads
  BY DEF LocksOK, OwnsItsThread, Holding
<1>2. CASE journal = None
  BY <1>2 DEF AppendIndexed, JournalTyped
<1>3. CASE journal # None
  <2>1. journal \subseteq Threads \X Messages
    BY <1>3 DEF LocksOK, JournalTyped
  <2>2. journal' = journal \cup {<<op[p].thread, op[p].message>>}
    BY <1>3 DEF AppendIndexed
  <2>3. journal' \in SUBSET (Threads \X Messages)
    BY <1>1, <2>1, <2>2
  <2>4. journal' # None
    BY <2>3, StoreAssumption
  <2> QED
    BY <1>3, <2>3, <2>4 DEF JournalTyped
<1> QED
  BY <1>2, <1>3

(* Every append in progress carries a message, every scan what it has built. *)
OpFits ==
  \A p \in Procs :
    /\ op[p].kind = "append" => op[p].message \in Messages
    /\ op[p].kind = "search" /\ op[p].step = "scan" => op[p].built \in [Threads -> SUBSET Messages]

LEMMA OperationStepLocks ==
  ASSUME LocksOK, OpFits, NEW p \in Procs, Step(p)
  PROVE  LocksOK'
<1>0. op[p] \in OpRecord
  BY DEF LocksOK, OpTyped
<1>1. CASE AppendRow(p)
  BY <1>1, GotoKeepsLocks DEF AppendRow, At, locks
<1>2. CASE AppendStat(p)
  <2>1. ~Building(p) /\ op[p].kind = "append" /\ op[p].message \in Messages
    BY <1>2 DEF AppendStat, At, Building, OpFits
  <2>2. JournalTyped' /\ (journal' = None <=> journal = None)
    BY <1>2, <2>1, AppendIndexedJournal DEF AppendStat
  <2> QED
    BY <1>2, <2>1, <2>2, ReturnKeepsLocks DEF AppendStat
<1>3. CASE UpdateRewrite(p)
  BY <1>3, PlainReturn DEF UpdateRewrite, At, Building
<1>4. CASE TruncateRewrite(p)
  BY <1>4, GotoKeepsLocks DEF TruncateRewrite, At, locks
<1>5. CASE TruncateStats(p)
  BY <1>5, GotoKeepsLocks DEF TruncateStats, At, locks
<1>6. CASE TruncateEvict(p)
  BY <1>6, PlainReturn DEF TruncateEvict, At, Building
<1>7. CASE DeleteRemove(p)
  BY <1>7, GotoKeepsLocks DEF DeleteRemove, At, locks
<1>8. CASE DeleteEvict(p)
  BY <1>8, PlainReturn DEF DeleteEvict, At, Building
<1>9. ASSUME NEW x \in Threads \cup {"log"}, PurgeRemove(p, x)
      PROVE  LocksOK'
  <2> DEFINE new == [op[p] EXCEPT !.todo = @ \ {x}]
  <2>1. new \in OpRecord /\ op' = [op EXCEPT ![p] = new] /\ new.kind = op[p].kind
        /\ new.thread = op[p].thread /\ new.step = op[p].step
    BY <1>0, <1>9 DEF OpRecord, PurgeRemove, LocksOK, OpTyped
  <2>2. JournalTyped' /\ owner' = owner /\ builder' = builder /\ journal' = journal
    BY <1>9 DEF PurgeRemove, LocksOK, JournalTyped, locks
  <2> HIDE DEF new
  <2> QED
    BY <2>1, <2>2, StepKeepsLocks DEF Building
<1>10. CASE PurgeFinish(p)
  BY <1>10, PlainReturn DEF PurgeFinish, At, Building
<1>11. CASE ListSnapshot(p)
  <2> DEFINE missing == Unmeasured \ op[p].bad
             new == [op[p] EXCEPT !.todo = missing, !.step = "repair"]
  <2>1. missing \in SUBSET Threads
    BY DEF Unmeasured, Live
  <2>2. op' = [op EXCEPT ![p] = new]
    BY <1>0, <1>11 DEF ListSnapshot, LocksOK, OpTyped
  <2> HIDE DEF missing
  <2>3. new \in OpRecord /\ new.kind = op[p].kind /\ new.thread = op[p].thread /\ op[p].kind = "list"
    BY <1>0, <1>11, <2>1 DEF OpRecord, ListSnapshot, At
  <2>4. JournalTyped' /\ owner' = owner /\ builder' = builder /\ journal' = journal
    BY <1>11 DEF ListSnapshot, LocksOK, JournalTyped, locks
  <2> HIDE DEF new
  <2> QED
    BY <2>2, <2>3, <2>4, StepKeepsLocks DEF Building
<1>12. CASE ListAgain(p)
  BY <1>12, GotoKeepsLocks DEF ListAgain, At, locks
<1>13. CASE ListReturn(p)
  BY <1>13, PlainReturn DEF ListReturn, At, Building
<1>14. CASE BuildSnapshot(p)
  <2> DEFINE none == [t \in Threads |-> {}]
             new == [op[p] EXCEPT !.todo = Live, !.step = "scan", !.built = none]
  <2>1. Live \in SUBSET Threads /\ none \in [Threads -> SUBSET Messages]
    BY DEF Live
  <2>2. op' = [op EXCEPT ![p] = new]
    BY <1>0, <1>14 DEF BuildSnapshot, LocksOK, OpTyped
  <2> HIDE DEF none
  <2>3. new \in OpRecord /\ new.kind = "search" /\ new.step = "scan" /\ new.thread = op[p].thread
        /\ op[p].kind = "search" /\ op[p].step = "snapshot"
    BY <1>0, <1>14, <2>1 DEF OpRecord, BuildSnapshot, At
  <2>4. JournalTyped' /\ owner' = owner /\ builder' = builder /\ journal' = journal
    BY <1>14 DEF BuildSnapshot, LocksOK, JournalTyped, locks
  <2> HIDE DEF new
  <2> QED
    BY <2>2, <2>3, <2>4, StepKeepsLocks DEF Building
<1>15. CASE BuildPublish(p)
  <2> DEFINE new == [op[p] EXCEPT !.step = "query", !.built = None]
  <2>1. op' = [op EXCEPT ![p] = new] /\ op[p].kind = "search" /\ Building(p)
    BY <1>0, <1>15 DEF BuildPublish, LocksOK, OpTyped, At, Building
  <2>2. new \in OpRecord /\ new.kind = "search" /\ new.step = "query"
    BY <1>0, <2>1 DEF OpRecord
  <2>3. journal' = None /\ builder' = None /\ owner' = owner
    BY <1>15 DEF BuildPublish
  <2> HIDE DEF new
  <2>4. OpTyped' /\ op'[p] = new /\ \A q \in Procs \ {p} : op'[q] = op[q]
    BY <2>1, <2>2 DEF LocksOK, OpTyped
  <2>5. None \notin Procs /\ builder = p
    BY <2>1, StoreAssumption DEF LocksOK, BuilderBuilds
  <2>6. OwnerTyped' /\ OwnsItsThread'
    BY <2>2, <2>3, <2>4 DEF LocksOK, OwnerTyped, OwnsItsThread, Holding
  <2>7. BuilderBuilds'
    BY <2>2, <2>3, <2>4, <2>5 DEF LocksOK, BuilderBuilds, Building
  <2> QED
    BY <2>3, <2>4, <2>6, <2>7 DEF LocksOK, JournalTyped, JournalOnlyWhileBuilding
<1>16. CASE SearchReturn(p)
  BY <1>16, PlainReturn DEF SearchReturn, At, Building
<1> QED
  BY <1>1, <1>2, <1>3, <1>4, <1>5, <1>6, <1>7, <1>8, <1>9, <1>10, <1>11, <1>12, <1>13, <1>14,
     <1>15, <1>16 DEF Step

(* A step of a listing or a scan that takes one thread off its list. *)
LEMMA TodoStepLocks ==
  ASSUME LocksOK, NEW p \in Procs, NEW new \in OpRecord, op' = [op EXCEPT ![p] = new],
         new.kind = op[p].kind, new.thread = op[p].thread, new.step = op[p].step,
         owner' = owner, builder' = builder, journal' = journal
  PROVE  LocksOK'
<1>1. JournalTyped'
  BY DEF LocksOK, JournalTyped
<1> QED
  BY <1>1, StepKeepsLocks DEF Building

LEMMA WaitingStepLocks ==
  ASSUME LocksOK, OpFits, RowsTyped, NEW p \in Procs, Wait(p)
  PROVE  LocksOK'
<1>0. op[p] \in OpRecord /\ op \in [Procs -> OpRecord]
  BY DEF LocksOK, OpTyped
<1>1. CASE BuildLock(p) /\ cache # None
  <2> DEFINE new == [op[p] EXCEPT !.step = "query"]
  <2>1. op' = [op EXCEPT ![p] = new] /\ op[p].kind = "search" /\ op[p].step = "build"
        /\ owner' = owner /\ builder' = builder /\ journal' = journal
    BY <1>0, <1>1 DEF BuildLock, Goto, At
  <2>2. new \in OpRecord /\ new.kind = "search" /\ new.step = "query" /\ new.thread = op[p].thread
    BY <1>0, <2>1 DEF OpRecord
  <2>3. JournalTyped'
    BY <2>1 DEF LocksOK, JournalTyped
  <2> HIDE DEF new
  <2> QED
    BY <2>1, <2>2, <2>3, StepKeepsLocks DEF Building
<1>2. CASE BuildLock(p) /\ cache = None
  <2> DEFINE new == [op[p] EXCEPT !.step = "snapshot"]
  <2>1. op' = [op EXCEPT ![p] = new] /\ op[p].kind = "search" /\ op[p].step = "build"
        /\ builder = None /\ owner' = owner /\ builder' = p /\ journal' = {}
    BY <1>0, <1>2 DEF BuildLock, Goto, At
  <2>2. new \in OpRecord /\ new.kind = "search" /\ new.step = "snapshot"
    BY <1>0, <2>1 DEF OpRecord
  <2> HIDE DEF new
  <2>3. OpTyped' /\ op'[p] = new /\ \A q \in Procs \ {p} : op'[q] = op[q]
    BY <1>0, <2>1, <2>2 DEF OpTyped
  <2>4. None \notin Procs /\ journal' # None /\ journal' \subseteq Threads \X Messages
    BY <2>1, StoreAssumption
  <2>5. OwnerTyped' /\ OwnsItsThread'
    BY <2>1, <2>2, <2>3 DEF LocksOK, OwnerTyped, OwnsItsThread, Holding
  <2>6. BuilderBuilds'
    BY <2>1, <2>2, <2>3, <2>4 DEF LocksOK, BuilderBuilds, Building
  <2> QED
    BY <2>1, <2>3, <2>4, <2>5, <2>6 DEF LocksOK, JournalTyped, JournalOnlyWhileBuilding
<1>3. ASSUME NEW t \in Threads, ListRepair(p, t)
      PROVE  LocksOK'
  <2> DEFINE new == [op[p] EXCEPT !.todo = @ \ {t}]
  <2>1. op' = [op EXCEPT ![p] = new] /\ owner' = owner /\ builder' = builder /\ journal' = journal
    BY <1>0, <1>3 DEF ListRepair, locks
  <2>2. new \in OpRecord /\ new.kind = op[p].kind /\ new.step = op[p].step
        /\ new.thread = op[p].thread
    BY <1>0 DEF OpRecord
  <2> HIDE DEF new
  <2> QED
    BY <2>1, <2>2, TodoStepLocks
<1>4. ASSUME NEW t \in Threads, BuildScan(p, t)
      PROVE  LocksOK'
  <2> DEFINE scanned == [op[p].built EXCEPT ![t] = RowSet(t)]
             new == [op[p] EXCEPT !.todo = @ \ {t}, !.built = scanned]
  <2>1. op' = [op EXCEPT ![p] = new] /\ owner' = owner /\ builder' = builder /\ journal' = journal
    BY <1>0, <1>4 DEF BuildScan, locks
  <2>2. scanned \in [Threads -> SUBSET Messages]
    <3>1. RowSet(t) \in SUBSET Messages
      BY RowsInMessages DEF RowSet, ToSet
    <3>2. op[p].built \in [Threads -> SUBSET Messages]
      BY <1>4 DEF BuildScan, At, OpFits
    <3> QED
      BY <3>1, <3>2
  <2> HIDE DEF scanned
  <2>3. new \in OpRecord /\ new.kind = op[p].kind /\ new.step = op[p].step
        /\ new.thread = op[p].thread
    BY <1>0, <2>2 DEF OpRecord
  <2> HIDE DEF new
  <2> QED
    BY <2>1, <2>3, TodoStepLocks
<1> QED
  BY <1>1, <1>2, <1>3, <1>4 DEF Wait

LEMMA FaultStepLocks ==
  ASSUME LocksOK, OpFits, NEW p \in Procs, Fault(p)
  PROVE  LocksOK'
<1>0. op[p] \in OpRecord /\ op \in [Procs -> OpRecord]
  BY DEF LocksOK, OpTyped
<1>1. CASE AppendRowFails(p)
  BY <1>1, PlainReturn DEF AppendRowFails, At, Building
<1>2. CASE AppendStatFails(p)
  <2>1. ~Building(p) /\ op[p].kind = "append" /\ op[p].message \in Messages
    BY <1>2 DEF AppendStatFails, At, Building, OpFits
  <2>2. JournalTyped' /\ (journal' = None <=> journal = None)
    BY <1>2, <2>1, AppendIndexedJournal DEF AppendStatFails
  <2> QED
    BY <1>2, <2>1, <2>2, ReturnKeepsLocks DEF AppendStatFails
<1>3. CASE TruncateStatsFails(p) \/ RewriteFails(p)
  BY <1>3, PlainReturn DEF TruncateStatsFails, RewriteFails, At, Building
<1>4. CASE DeleteRemoveFails(p)
  BY <1>4, GotoKeepsLocks DEF DeleteRemoveFails, At, locks
<1>5. CASE PurgeRemoveFails(p)
  BY <1>5, PlainReturn DEF PurgeRemoveFails, At, Building
<1>6. CASE ListFails(p)
  BY <1>6, PlainReturn DEF ListFails, At, Building
<1>7. CASE BuildSnapshotFails(p)
  <2>1. Building(p) /\ journal' = None /\ JournalTyped' /\ Returns(p)
    BY <1>7 DEF BuildSnapshotFails, At, Building, JournalTyped
  <2> QED
    BY <2>1, ReturnKeepsLocks
<1>8. ASSUME NEW t \in Threads, ListUnreadable(p, t)
      PROVE  LocksOK'
  <2> DEFINE new == [op[p] EXCEPT !.todo = @ \ {t}, !.bad = @ \cup {t}]
  <2>1. op' = [op EXCEPT ![p] = new] /\ owner' = owner /\ builder' = builder /\ journal' = journal
    BY <1>0, <1>8 DEF ListUnreadable, locks
  <2>2. new \in OpRecord /\ new.kind = op[p].kind /\ new.step = op[p].step
        /\ new.thread = op[p].thread
    BY <1>0 DEF OpRecord
  <2> HIDE DEF new
  <2> QED
    BY <2>1, <2>2, TodoStepLocks
<1>9. ASSUME NEW t \in Threads, BuildScanFails(p, t)
      PROVE  LocksOK'
  <2> DEFINE new == [op[p] EXCEPT !.todo = @ \ {t}]
  <2>1. op' = [op EXCEPT ![p] = new] /\ owner' = owner /\ builder' = builder /\ journal' = journal
    BY <1>0, <1>9 DEF BuildScanFails, locks
  <2>2. new \in OpRecord /\ new.kind = op[p].kind /\ new.step = op[p].step
        /\ new.thread = op[p].thread
    BY <1>0 DEF OpRecord
  <2> HIDE DEF new
  <2> QED
    BY <2>1, <2>2, TodoStepLocks
<1>10. CASE LineFails(p)
  BY <1>10, StillKeepsLocks DEF LineFails, locks
<1> QED
  BY <1>1, <1>2, <1>3, <1>4, <1>5, <1>6, <1>7, <1>8, <1>9, <1>10 DEF Fault

LEMMA CrashLocks == ASSUME Crash PROVE LocksOK'
<1>1. op' = [p \in Procs |-> Idle] /\ journal' = None /\ builder' = None
      /\ owner' = [t \in Threads |-> None]
  BY DEF Crash
<1> QED
  BY <1>1, IdleTyped, StoreAssumption
  DEF LocksOK, OpTyped, OwnerTyped, JournalTyped, OwnsItsThread, BuilderBuilds,
      JournalOnlyWhileBuilding, Building, Holding

LEMMA LocksStep ==
  ASSUME LocksOK, OpFits, RowsTyped, [Next]_vars
  PROVE  LocksOK'
<1>1. CASE UNCHANGED vars
  BY <1>1, StillKeepsLocks DEF vars, locks
<1>2. CASE Mutations
  BY <1>2, StillKeepsLocks DEF Mutations, EnsureThread, UpdateThread, AppendExisting, locks
<1>3. ASSUME NEW p \in Procs, Begin(p) \/ Step(p) \/ Wait(p) \/ Fault(p)
      PROVE  LocksOK'
  BY <1>3, BeginStepLocks, OperationStepLocks, WaitingStepLocks, FaultStepLocks
<1>4. CASE Crash
  BY <1>4, CrashLocks
<1> QED
  BY <1>1, <1>2, <1>3, <1>4 DEF Next

(***************************************************************************)
(* The rows of a thread. A fresh id on disk or in a transcript being       *)
(* rewritten is an id presented before; a message about to be appended is  *)
(* not in its thread, because its lookup and its append are under one hold *)
(* of the thread's lock; a torn last line is never a row the file has.     *)
(***************************************************************************)
RowsDistinct ==
  \A t \in Threads :
    /\ IsInjective(file[t])
    /\ fileTail[t] \in Messages => fileTail[t] \notin ToSet(file[t])
FreshUsed == \A t \in Threads : Stored(t) \cap Fresh \subseteq used
ReadRows ==
  \A p \in Procs : IsInjective(op[p].rows) /\ ToSet(op[p].rows) \cap Fresh \subseteq used
TruncateFound ==
  \A p \in Procs : op[p].kind = "truncate" /\ op[p].step = "rewrite"
                     => op[p].message \in ToSet(op[p].rows)
AppendNew ==
  \A p \in Procs : op[p].kind = "append" /\ op[p].step = "row"
                     => /\ op[p].message \notin Stored(op[p].thread)
                        /\ op[p].message \in Fresh => op[p].message \in used
RowsOK == RowsTyped /\ OpFits /\ RowsDistinct /\ FreshUsed /\ ReadRows /\ TruncateFound /\ AppendNew

(* The step of another operation, or a step past a read. *)
Calm(q) ==
  \/ op'[q] = Idle
  \/ /\ op'[q].rows = op[q].rows /\ op'[q].thread = op[q].thread
     /\ op'[q].message = op[q].message /\ op'[q].kind = op[q].kind
     /\ op'[q].step = op[q].step \/ op'[q].step \notin {"row", "rewrite"}
     /\ op'[q].kind = "search" /\ op'[q].step = "scan"
          => op'[q].built \in [Threads -> SUBSET Messages]

LEMMA EmptyRows ==
  <<>> \in Seq(Messages) /\ IsInjective(<<>>) /\ ToSet(<<>>) = {}
<1>1. DOMAIN <<>> = {}
  OBVIOUS
<1> QED
  BY <1>1 DEF IsInjective, ToSet

LEMMA IdleRows ==
  Idle.rows = <<>> /\ Idle.kind = "idle" /\ Idle.step = "idle"
  BY DEF Idle

LEMMA RowsInit == Init => RowsOK
<1>1. ASSUME Init PROVE RowsTyped
  BY <1>1, EmptyRows DEF Init, RowsTyped
<1>2. ASSUME Init PROVE OpFits /\ ReadRows /\ TruncateFound /\ AppendNew
  BY <1>2, EmptyRows, IdleRows DEF Init, OpFits, ReadRows, TruncateFound, AppendNew
<1>3. ASSUME Init PROVE RowsDistinct /\ FreshUsed
  BY <1>3, EmptyRows, TailsApart DEF Init, RowsDistinct, FreshUsed, Stored
<1> QED
  BY <1>1, <1>2, <1>3 DEF RowsOK

(* Calm operations keep what they have read. *)
LEMMA CalmReads ==
  ASSUME RowsOK, used' = used, \A q \in Procs : Calm(q)
  PROVE  OpFits' /\ ReadRows' /\ TruncateFound'
<1>1. ASSUME NEW q \in Procs
      PROVE  /\ op'[q].kind = "append" => op'[q].message \in Messages
             /\ op'[q].kind = "search" /\ op'[q].step = "scan"
                  => op'[q].built \in [Threads -> SUBSET Messages]
             /\ IsInjective(op'[q].rows) /\ ToSet(op'[q].rows) \cap Fresh \subseteq used
             /\ op'[q].kind = "truncate" /\ op'[q].step = "rewrite"
                  => op'[q].message \in ToSet(op'[q].rows)
  <2>1. CASE op'[q] = Idle
    BY <2>1, EmptyRows, IdleRows
  <2>2. CASE op'[q] # Idle
    BY <2>2 DEF Calm, RowsOK, OpFits, ReadRows, TruncateFound
  <2> QED
    BY <2>1, <2>2
<1> QED
  BY <1>1 DEF OpFits, ReadRows, TruncateFound

(* Nothing is written. *)
LEMMA CalmRows ==
  ASSUME RowsOK, \A q \in Procs : Calm(q), file' = file, fileTail' = fileTail, used' = used
  PROVE  RowsOK'
<1>1. RowsTyped' /\ RowsDistinct' /\ FreshUsed'
  BY DEF RowsOK, RowsTyped, RowsDistinct, FreshUsed, Stored
<1>2. AppendNew'
  BY IdleRows DEF RowsOK, AppendNew, Calm, Stored
<1> QED
  BY <1>1, <1>2, CalmReads DEF RowsOK

(* A whole file is written, of a thread nobody is about to append to. *)
LEMMA RewrittenRows ==
  ASSUME LocksOK, RowsOK, \A q \in Procs : Calm(q), used' = used,
         NEW t \in Threads, NEW rows \in Seq(Messages), Rewritten(t, rows),
         IsInjective(rows), ToSet(rows) \cap Fresh \subseteq used,
         \A q \in Procs : (op'[q].kind = "append" /\ op'[q].step = "row")
                            => op'[q].thread # t \/ rows = <<>>
  PROVE  RowsOK'
<1>1. RowsTyped' /\ file'[t] = rows /\ fileTail'[t] = None
      /\ \A u \in Threads \ {t} : file'[u] = file[u] /\ fileTail'[u] = fileTail[u]
  BY DEF RowsOK, RowsTyped, Rewritten
<1>2. RowsDistinct'
  BY <1>1, TailsApart DEF RowsOK, RowsDistinct
<1>3. (\A u \in Threads \ {t} : Stored(u)' = Stored(u)) /\ Stored(t)' = ToSet(rows)
  BY <1>1, TailsApart DEF Stored
<1>4. FreshUsed'
  BY <1>3 DEF RowsOK, FreshUsed
<1>5. AppendNew'
  <2> SUFFICES ASSUME NEW q \in Procs, op'[q].kind = "append", op'[q].step = "row"
               PROVE  /\ op'[q].message \notin Stored(op[q].thread)'
                      /\ op'[q].message \in Fresh => op'[q].message \in used'
    BY DEF AppendNew
  <2>1. op'[q].message = op[q].message /\ op'[q].thread = op[q].thread
        /\ op[q].kind = "append" /\ op[q].step = "row"
    BY IdleRows DEF Calm
  <2>2. op[q].message \notin Stored(op[q].thread) /\ (op[q].message \in Fresh => op[q].message \in used)
    BY <2>1 DEF RowsOK, AppendNew
  <2>3. op[q].thread \in Threads
    BY <2>1 DEF LocksOK, OwnsItsThread, Holding
  <2>4. Stored(op[q].thread)' = ToSet(file'[op[q].thread]) \cup ({fileTail'[op[q].thread]} \cap Messages)
    BY <2>1 DEF Stored
  <2>5. CASE op[q].thread = t
    BY <1>1, <2>1, <2>2, <2>4, <2>5, EmptyRows, TailsApart
  <2>6. CASE op[q].thread # t
    BY <1>1, <2>1, <2>2, <2>3, <2>4, <2>6 DEF Stored
  <2> QED
    BY <2>5, <2>6
<1> QED
  BY <1>1, <1>2, <1>4, <1>5, CalmReads DEF RowsOK

LEMMA ReturnsCalm ==
  ASSUME LocksOK, RowsOK, NEW p \in Procs, Returns(p)
  PROVE  \A q \in Procs : Calm(q)
<1>1. op'[p] = Idle /\ \A q \in Procs \ {p} : op'[q] = op[q]
  BY DEF Returns, LocksOK, OpTyped
<1> QED
  BY <1>1 DEF Calm, RowsOK, OpFits

LEMMA GotoCalm ==
  ASSUME LocksOK, RowsOK, NEW p \in Procs, NEW step, Goto(p, step),
         step \notin {"row", "rewrite", "scan"}
  PROVE  \A q \in Procs : Calm(q)
<1>1. op'[p] = [op[p] EXCEPT !.step = step] /\ op[p] \in OpRecord
      /\ \A q \in Procs \ {p} : op'[q] = op[q]
  BY DEF Goto, LocksOK, OpTyped
<1>2. op'[p].rows = op[p].rows /\ op'[p].thread = op[p].thread /\ op'[p].message = op[p].message
      /\ op'[p].kind = op[p].kind /\ op'[p].step = step
  BY <1>1 DEF OpRecord
<1> QED
  BY <1>1, <1>2 DEF Calm, RowsOK, OpFits

(* A step that replaces the operation by one with the same reads. *)
LEMMA ReplacedCalm ==
  ASSUME LocksOK, RowsOK, NEW p \in Procs, NEW new, op' = [op EXCEPT ![p] = new],
         new.rows = op[p].rows, new.thread = op[p].thread, new.message = op[p].message,
         new.kind = op[p].kind, new.step = op[p].step \/ new.step \notin {"row", "rewrite"},
         new.kind = "search" /\ new.step = "scan" => new.built \in [Threads -> SUBSET Messages]
  PROVE  \A q \in Procs : Calm(q)
<1>1. op'[p] = new /\ \A q \in Procs \ {p} : op'[q] = op[q]
  BY DEF LocksOK, OpTyped
<1> QED
  BY <1>1 DEF Calm, RowsOK, OpFits

LEMMA StepCalm ==
  ASSUME LocksOK, RowsOK, NEW p \in Procs, Step(p)
  PROVE  \A q \in Procs : Calm(q)
<1>0. op[p] \in OpRecord /\ op \in [Procs -> OpRecord]
  BY DEF LocksOK, OpTyped
<1>1. CASE AppendRow(p)
  BY <1>1, GotoCalm DEF AppendRow
<1>2. CASE AppendStat(p) \/ UpdateRewrite(p) \/ TruncateEvict(p) \/ DeleteEvict(p) \/ PurgeFinish(p)
           \/ ListReturn(p) \/ SearchReturn(p)
  BY <1>2, ReturnsCalm
  DEF AppendStat, UpdateRewrite, TruncateEvict, DeleteEvict, PurgeFinish, ListReturn, SearchReturn
<1>3. CASE TruncateRewrite(p)
  BY <1>3, GotoCalm DEF TruncateRewrite
<1>4. CASE TruncateStats(p) \/ DeleteRemove(p)
  BY <1>4, GotoCalm DEF TruncateStats, DeleteRemove
<1>5. CASE ListAgain(p)
  BY <1>5, GotoCalm DEF ListAgain
<1>6. ASSUME NEW x \in Threads \cup {"log"}, PurgeRemove(p, x)
      PROVE  \A q \in Procs : Calm(q)
  <2> DEFINE new == [op[p] EXCEPT !.todo = @ \ {x}]
  <2>1. op' = [op EXCEPT ![p] = new] /\ op[p].kind = "purge"
    BY <1>0, <1>6 DEF PurgeRemove, At
  <2>2. new.rows = op[p].rows /\ new.thread = op[p].thread /\ new.message = op[p].message
        /\ new.kind = op[p].kind /\ new.step = op[p].step
    BY <1>0 DEF OpRecord
  <2> HIDE DEF new
  <2> QED
    BY <2>1, <2>2, ReplacedCalm
<1>7. CASE ListSnapshot(p)
  <2> DEFINE new == [op[p] EXCEPT !.todo = Unmeasured \ op[p].bad, !.step = "repair"]
  <2>1. op' = [op EXCEPT ![p] = new] /\ op[p].kind = "list"
    BY <1>0, <1>7 DEF ListSnapshot, At
  <2>2. new.rows = op[p].rows /\ new.thread = op[p].thread /\ new.message = op[p].message
        /\ new.kind = op[p].kind /\ new.step = "repair"
    BY <1>0 DEF OpRecord
  <2> HIDE DEF new
  <2> QED
    BY <2>1, <2>2, ReplacedCalm
<1>8. CASE BuildSnapshot(p)
  <2> DEFINE none == [t \in Threads |-> {}]
             new == [op[p] EXCEPT !.todo = Live, !.step = "scan", !.built = none]
  <2>1. op' = [op EXCEPT ![p] = new] /\ none \in [Threads -> SUBSET Messages]
    BY <1>0, <1>8 DEF BuildSnapshot, At
  <2> HIDE DEF none
  <2>2. new.rows = op[p].rows /\ new.thread = op[p].thread /\ new.message = op[p].message
        /\ new.kind = op[p].kind /\ new.step = "scan" /\ new.built = none
    BY <1>0 DEF OpRecord
  <2> HIDE DEF new
  <2> QED
    BY <2>1, <2>2, ReplacedCalm
<1>9. CASE BuildPublish(p)
  <2> DEFINE new == [op[p] EXCEPT !.step = "query", !.built = None]
  <2>1. op' = [op EXCEPT ![p] = new]
    BY <1>0, <1>9 DEF BuildPublish
  <2>2. new.rows = op[p].rows /\ new.thread = op[p].thread /\ new.message = op[p].message
        /\ new.kind = op[p].kind /\ new.step = "query"
    BY <1>0 DEF OpRecord
  <2> HIDE DEF new
  <2> QED
    BY <2>1, <2>2, ReplacedCalm
<1> QED
  BY <1>1, <1>2, <1>3, <1>4, <1>5, <1>6, <1>7, <1>8, <1>9 DEF Step

LEMMA WaitOrFaultCalm ==
  ASSUME LocksOK, RowsOK, NEW p \in Procs, Wait(p) \/ Fault(p)
  PROVE  \A q \in Procs : Calm(q)
<1>0. op[p] \in OpRecord /\ op \in [Procs -> OpRecord]
  BY DEF LocksOK, OpTyped
<1>1. CASE BuildLock(p) \/ DeleteRemoveFails(p)
  BY <1>1, GotoCalm DEF BuildLock, DeleteRemoveFails
<1>2. CASE \/ AppendRowFails(p) \/ AppendStatFails(p) \/ TruncateStatsFails(p)
           \/ PurgeRemoveFails(p) \/ ListFails(p) \/ BuildSnapshotFails(p) \/ RewriteFails(p)
  BY <1>2, ReturnsCalm
  DEF AppendRowFails, AppendStatFails, TruncateStatsFails, PurgeRemoveFails, ListFails,
      BuildSnapshotFails, RewriteFails
<1>3. ASSUME NEW t \in Threads, ListRepair(p, t) \/ BuildScanFails(p, t)
      PROVE  \A q \in Procs : Calm(q)
  <2> DEFINE new == [op[p] EXCEPT !.todo = @ \ {t}]
  <2>1. op' = [op EXCEPT ![p] = new]
    BY <1>0, <1>3 DEF ListRepair, BuildScanFails
  <2>2. new.rows = op[p].rows /\ new.thread = op[p].thread /\ new.message = op[p].message
        /\ new.kind = op[p].kind /\ new.step = op[p].step /\ new.built = op[p].built
    BY <1>0 DEF OpRecord
  <2>3. op[p].kind = "search" /\ op[p].step = "scan" => op[p].built \in [Threads -> SUBSET Messages]
    BY DEF RowsOK, OpFits
  <2> HIDE DEF new
  <2> QED
    BY <2>1, <2>2, <2>3, ReplacedCalm
<1>4. ASSUME NEW t \in Threads, ListUnreadable(p, t)
      PROVE  \A q \in Procs : Calm(q)
  <2> DEFINE new == [op[p] EXCEPT !.todo = @ \ {t}, !.bad = @ \cup {t}]
  <2>1. op' = [op EXCEPT ![p] = new] /\ op[p].kind = "list"
    BY <1>0, <1>4 DEF ListUnreadable, At
  <2>2. new.rows = op[p].rows /\ new.thread = op[p].thread /\ new.message = op[p].message
        /\ new.kind = op[p].kind /\ new.step = op[p].step
    BY <1>0 DEF OpRecord
  <2> HIDE DEF new
  <2> QED
    BY <2>1, <2>2, ReplacedCalm
<1>5. ASSUME NEW t \in Threads, BuildScan(p, t)
      PROVE  \A q \in Procs : Calm(q)
  <2> DEFINE scanned == [op[p].built EXCEPT ![t] = RowSet(t)]
             new == [op[p] EXCEPT !.todo = @ \ {t}, !.built = scanned]
  <2>1. op' = [op EXCEPT ![p] = new]
    BY <1>0, <1>5 DEF BuildScan
  <2>2. scanned \in [Threads -> SUBSET Messages]
    <3>1. RowSet(t) \in SUBSET Messages
      BY RowsInMessages DEF RowSet, ToSet, RowsOK
    <3>2. op[p].built \in [Threads -> SUBSET Messages]
      BY <1>5 DEF BuildScan, At, RowsOK, OpFits
    <3> QED
      BY <3>1, <3>2
  <2> HIDE DEF scanned
  <2>3. new.rows = op[p].rows /\ new.thread = op[p].thread /\ new.message = op[p].message
        /\ new.kind = op[p].kind /\ new.step = op[p].step /\ new.built = scanned
    BY <1>0 DEF OpRecord
  <2> HIDE DEF new
  <2> QED
    BY <2>1, <2>2, <2>3, ReplacedCalm
<1>9. CASE LineFails(p)
  BY <1>9 DEF LineFails, Calm, RowsOK, OpFits
<1> QED
  BY <1>1, <1>2, <1>3, <1>4, <1>5, <1>9 DEF Wait, Fault

(* `Kept` is a proper prefix: the id is there, and only once. *)
LEMMA KeptRows ==
  ASSUME NEW rows \in Seq(Messages), IsInjective(rows), NEW m \in ToSet(rows)
  PROVE  /\ Kept(rows, m) \in Seq(Messages) /\ IsInjective(Kept(rows, m))
         /\ ToSet(Kept(rows, m)) \subseteq ToSet(rows)
<1> DEFINE first(i) == rows[i] = m /\ \A j \in 1..(i-1) : rows[j] # m
           cut == CHOOSE i \in 1..Len(rows) : first(i)
<1>1. DOMAIN rows = 1..Len(rows) /\ Len(rows) \in Nat
  OBVIOUS
<1>2. PICK k \in 1..Len(rows) : rows[k] = m
  BY <1>1 DEF ToSet
<1>3. first(k)
  BY <1>1, <1>2 DEF IsInjective
<1>4. cut \in 1..Len(rows)
  BY <1>3
<1>5. Kept(rows, m) = SubSeq(rows, 1, cut - 1)
  BY DEF Kept
<1> HIDE DEF cut
<1>6. /\ SubSeq(rows, 1, cut - 1) \in Seq(Messages)
      /\ Len(SubSeq(rows, 1, cut - 1)) = cut - 1
      /\ \A i \in 1..(cut - 1) : SubSeq(rows, 1, cut - 1)[i] = rows[i]
  BY <1>1, <1>4
<1>7. DOMAIN SubSeq(rows, 1, cut - 1) = 1..(cut - 1) /\ 1..(cut - 1) \subseteq 1..Len(rows)
  BY <1>1, <1>4, <1>6
<1> QED
  BY <1>1, <1>5, <1>6, <1>7 DEF IsInjective, ToSet

LEMMA OwnerAlone ==
  ASSUME LocksOK, NEW p \in Procs, op[p].kind \in Holding, NEW q \in Procs, q # p,
         op[q].kind = "append"
  PROVE  op[q].thread # op[p].thread
  BY DEF LocksOK, OwnsItsThread, Holding

(* An operation that rewrites its thread, and is not an append. *)
LEMMA OwnRewrite ==
  ASSUME LocksOK, RowsOK, NEW p \in Procs, op[p].kind \in Holding, op[p].kind # "append",
         \A q \in Procs : Calm(q), used' = used, NEW rows \in Seq(Messages),
         Rewritten(op[p].thread, rows), IsInjective(rows), ToSet(rows) \cap Fresh \subseteq used
  PROVE  RowsOK'
<1>1. op[p].thread \in Threads
  BY DEF LocksOK, OwnsItsThread
<1>2. \A q \in Procs : (op'[q].kind = "append" /\ op'[q].step = "row") => op'[q].thread # op[p].thread
  BY OwnerAlone, IdleRows DEF Calm
<1> QED
  BY <1>1, <1>2, RewrittenRows

(* The row is appended, or swallowed by the torn line it lands on. *)
LEMMA AppendRowRows ==
  ASSUME LocksOK, RowsOK, NEW p \in Procs, AppendRow(p), \A q \in Procs : Calm(q)
  PROVE  RowsOK'
<1> DEFINE t == op[p].thread
           m == op[p].message
<1>1. /\ t \in Threads /\ m \in Messages /\ m \notin Stored(t) /\ (m \in Fresh => m \in used)
      /\ op[p].kind = "append" /\ used' = used
  BY DEF AppendRow, At, LocksOK, OwnsItsThread, Holding, RowsOK, OpFits, AppendNew
<1>2. file[t] \in Seq(Messages) /\ fileTail[t] \in Messages \cup {None, Partial}
  BY <1>1 DEF RowsOK, RowsTyped
<1>3. /\ fileTail'[t] = None
      /\ file'[t] = IF fileTail[t] = None THEN Append(file[t], m) ELSE file[t]
      /\ \A u \in Threads \ {t} : file'[u] = file[u] /\ fileTail'[u] = fileTail[u]
  BY <1>1 DEF AppendRow, RowAppended, RowsOK, RowsTyped
<1>4. RowsTyped'
  BY <1>1, <1>2 DEF AppendRow, RowAppended, RowsOK, RowsTyped
<1>5. IsInjective(file'[t]) /\ ToSet(file'[t]) \subseteq ToSet(file[t]) \cup {m}
  <2>1. IsInjective(file[t]) /\ m \notin ToSet(file[t])
    BY <1>1 DEF RowsOK, RowsDistinct, Stored
  <2> QED
    BY <1>1, <1>2, <1>3, <2>1, AppendToSet, NewRowDistinct
<1>6. op'[p].step = "stat"
  BY DEF AppendRow, Goto, LocksOK, OpTyped, OpRecord
<1> HIDE DEF t, m
<1>7. RowsDistinct'
  BY <1>3, <1>5, TailsApart DEF RowsOK, RowsDistinct
<1>8. FreshUsed'
  BY <1>1, <1>3, <1>5, TailsApart DEF RowsOK, FreshUsed, Stored
<1>9. AppendNew'
  <2> SUFFICES ASSUME NEW q \in Procs, op'[q].kind = "append", op'[q].step = "row"
               PROVE  /\ op'[q].message \notin Stored(op[q].thread)'
                      /\ op'[q].message \in Fresh => op'[q].message \in used'
    BY DEF AppendNew
  <2>1. op'[q].message = op[q].message /\ op'[q].thread = op[q].thread
        /\ op[q].kind = "append" /\ op[q].step = "row"
    BY IdleRows DEF Calm
  <2>2. op[q].message \notin Stored(op[q].thread) /\ (op[q].message \in Fresh => op[q].message \in used)
    BY <2>1 DEF RowsOK, AppendNew
  <2>3. op[q].thread \in Threads /\ op[q].thread # t
    BY <1>1, <1>6, <2>1, OwnerAlone DEF LocksOK, OwnsItsThread, Holding, t
  <2>4. Stored(op[q].thread)' = Stored(op[q].thread)
    BY <1>3, <2>1, <2>3 DEF Stored
  <2> QED
    BY <1>1, <2>1, <2>2, <2>4
<1> QED
  BY <1>1, <1>4, <1>7, <1>8, <1>9, CalmReads DEF RowsOK

(* A failed append may leave half a line, on which nothing that was a whole row survives. *)
LEMMA TornTailRows ==
  ASSUME LocksOK, RowsOK, NEW t \in Threads, fileTail' = [fileTail EXCEPT ![t] = Partial],
         file' = file, used' = used, \A q \in Procs : Calm(q)
  PROVE  RowsOK'
<1>1. fileTail'[t] = Partial /\ \A u \in Threads \ {t} : fileTail'[u] = fileTail[u]
  BY DEF RowsOK, RowsTyped
<1>2. RowsTyped'
  BY DEF RowsOK, RowsTyped
<1>3. RowsDistinct'
  BY <1>1, TailsApart DEF RowsOK, RowsDistinct
<1>4. \A u \in Threads : ToSet(file'[u]) \cup ({fileTail'[u]} \cap Messages) \subseteq Stored(u)
  BY <1>1, TailsApart DEF Stored
<1>5. FreshUsed'
  BY <1>4 DEF RowsOK, FreshUsed, Stored
<1>6. AppendNew'
  <2> SUFFICES ASSUME NEW q \in Procs, op'[q].kind = "append", op'[q].step = "row"
               PROVE  /\ op'[q].message \notin Stored(op[q].thread)'
                      /\ op'[q].message \in Fresh => op'[q].message \in used'
    BY DEF AppendNew
  <2>1. op'[q].message = op[q].message /\ op'[q].thread = op[q].thread
        /\ op[q].kind = "append" /\ op[q].step = "row"
    BY IdleRows DEF Calm
  <2>2. op[q].message \notin Stored(op[q].thread) /\ (op[q].message \in Fresh => op[q].message \in used)
    BY <2>1 DEF RowsOK, AppendNew
  <2>3. op[q].thread \in Threads
    BY <2>1 DEF LocksOK, OwnsItsThread, Holding
  <2>4. Stored(op[q].thread)' = ToSet(file'[op[q].thread]) \cup ({fileTail'[op[q].thread]} \cap Messages)
    BY <2>1 DEF Stored
  <2> QED
    BY <1>4, <2>1, <2>2, <2>3, <2>4
<1> QED
  BY <1>2, <1>3, <1>5, <1>6, CalmReads DEF RowsOK

(* An operation begins: it has read nothing yet, or the rows of its thread. *)
LEMMA BegunRows ==
  ASSUME LocksOK, RowsOK, NEW p \in Procs, NEW new, op' = [op EXCEPT ![p] = new],
         file' = file, fileTail' = fileTail, used \subseteq used',
         IsInjective(new.rows), ToSet(new.rows) \cap Fresh \subseteq used,
         new.kind = "append" => /\ new.message \in Messages
                                /\ new.message \notin Stored(new.thread)
                                /\ new.message \in Fresh => new.message \in used',
         new.kind = "truncate" => new.message \in ToSet(new.rows),
         new.step # "scan"
  PROVE  RowsOK'
<1>1. op'[p] = new /\ \A q \in Procs \ {p} : op'[q] = op[q]
  BY DEF LocksOK, OpTyped
<1>2. RowsTyped' /\ RowsDistinct' /\ FreshUsed'
  BY DEF RowsOK, RowsTyped, RowsDistinct, FreshUsed, Stored
<1>3. OpFits' /\ ReadRows' /\ TruncateFound'
  BY <1>1 DEF RowsOK, OpFits, ReadRows, TruncateFound
<1>4. AppendNew'
  BY <1>1 DEF RowsOK, AppendNew, Stored
<1> QED
  BY <1>2, <1>3, <1>4 DEF RowsOK

LEMMA RowsInjective ==
  ASSUME RowsOK, NEW t \in Threads
  PROVE  IsInjective(Rows(t)) /\ Rows(t) \in Seq(Messages) /\ ToSet(Rows(t)) = Stored(t)
<1>1. /\ file[t] \in Seq(Messages) /\ fileTail[t] \in Messages \cup {None, Partial}
      /\ IsInjective(file[t]) /\ (fileTail[t] \in Messages => fileTail[t] \notin ToSet(file[t]))
  BY DEF RowsOK, RowsTyped, RowsDistinct
<1>2. IsInjective(Rows(t))
  BY <1>1, NewRowDistinct DEF Rows
<1> QED
  BY <1>2, RowsInMessages, StoredIsRowSet DEF RowsOK, RowSet

LEMMA BeginRows ==
  ASSUME LocksOK, RowsOK, NEW p \in Procs, Begin(p)
  PROVE  RowsOK'
<1>1. ASSUME NEW t \in Threads, NEW m \in Messages, AppendBegin(p, t, m)
      PROVE  RowsOK'
  <2> DEFINE new == Begun("append", "row", t, m)
  <2>1. new.kind = "append" /\ new.step = "row" /\ new.thread = t /\ new.message = m /\ new.rows = <<>>
    BY BegunTyped DEF Holding
  <2>2. m \notin Stored(t)
    <3>1. m \in Fresh => m \notin Stored(t)
      BY <1>1 DEF AppendBegin, RowsOK, FreshUsed
    <3>2. m \in Minted => m \notin Stored(t)
      BY <1>1, StoredIsRowSet DEF AppendBegin, RowsOK
    <3> QED
      BY <3>1, <3>2 DEF Messages
  <2>3. op' = [op EXCEPT ![p] = new] /\ file' = file /\ fileTail' = fileTail
        /\ used \subseteq used' /\ (m \in Fresh => m \in used')
    BY <1>1 DEF AppendBegin, disk
  <2> HIDE DEF new
  <2> QED
    BY <2>1, <2>2, <2>3, EmptyRows, BegunRows
<1>2. ASSUME NEW t \in Threads, NEW m \in Messages, TruncateRead(p, t, m)
      PROVE  RowsOK'
  <2> DEFINE b == Begun("truncate", "rewrite", t, m)
             new == [b EXCEPT !.rows = Rows(t)]
  <2>1. b \in OpRecord /\ b.kind = "truncate" /\ b.step = "rewrite" /\ b.message = m
    BY BegunTyped DEF Holding
  <2>2. op' = [op EXCEPT ![p] = new] /\ file' = file /\ fileTail' = fileTail /\ used' = used
        /\ m \in ToSet(Rows(t))
    BY <1>2 DEF TruncateRead, disk, aux, RowSet
  <2> HIDE DEF b
  <2>3. new.kind = "truncate" /\ new.step = "rewrite" /\ new.message = m /\ new.rows = Rows(t)
    BY <2>1 DEF OpRecord
  <2>4. IsInjective(Rows(t)) /\ ToSet(Rows(t)) \cap Fresh \subseteq used
    BY RowsInjective DEF RowsOK, FreshUsed
  <2> HIDE DEF new
  <2> QED
    BY <2>2, <2>3, <2>4, BegunRows
<1>3. ASSUME NEW t \in Threads, UpdateRead(p, t)
      PROVE  RowsOK'
  <2> DEFINE b == Begun("patch", "rewrite", t, None)
             new == [b EXCEPT !.rows = Rows(t)]
  <2>1. b \in OpRecord /\ b.kind = "patch" /\ b.step = "rewrite"
    BY BegunTyped DEF Holding
  <2>2. op' = [op EXCEPT ![p] = new] /\ file' = file /\ fileTail' = fileTail /\ used' = used
    BY <1>3 DEF UpdateRead, disk, aux
  <2> HIDE DEF b
  <2>3. new.kind = "patch" /\ new.step = "rewrite" /\ new.rows = Rows(t)
    BY <2>1 DEF OpRecord
  <2>4. IsInjective(Rows(t)) /\ ToSet(Rows(t)) \cap Fresh \subseteq used
    BY RowsInjective DEF RowsOK, FreshUsed
  <2> HIDE DEF new
  <2> QED
    BY <2>2, <2>3, <2>4, BegunRows
<1>4. ASSUME NEW t \in Threads, DeleteBegin(p, t)
      PROVE  RowsOK'
  <2> DEFINE new == Begun("delete", "remove", t, None)
  <2>1. new.kind = "delete" /\ new.step = "remove" /\ new.rows = <<>>
    BY BegunTyped DEF Holding
  <2>2. op' = [op EXCEPT ![p] = new] /\ file' = file /\ fileTail' = fileTail /\ used' = used
    BY <1>4 DEF DeleteBegin
  <2> HIDE DEF new
  <2> QED
    BY <2>1, <2>2, EmptyRows, BegunRows
<1>5. CASE PurgeBegin(p)
  <2> DEFINE b == Begun("purge", "remove", None, None)
             new == [b EXCEPT !.todo = Threads \cup {"log"}]
  <2>1. b \in OpRecord /\ b.kind = "purge" /\ b.step = "remove" /\ b.rows = <<>>
    BY BegunTyped DEF Holding
  <2>2. op' = [op EXCEPT ![p] = new] /\ file' = file /\ fileTail' = fileTail /\ used' = used
    BY <1>5 DEF PurgeBegin
  <2> HIDE DEF b
  <2>3. new.kind = "purge" /\ new.step = "remove" /\ new.rows = <<>>
    BY <2>1 DEF OpRecord
  <2> HIDE DEF new
  <2> QED
    BY <2>2, <2>3, EmptyRows, BegunRows
<1>6. CASE ListBegin(p)
  <2> DEFINE new == Begun("list", "snapshot", None, None)
  <2>1. new.kind = "list" /\ new.step = "snapshot" /\ new.rows = <<>>
    BY BegunTyped DEF Holding
  <2>2. op' = [op EXCEPT ![p] = new] /\ file' = file /\ fileTail' = fileTail /\ used' = used
    BY <1>6 DEF ListBegin, disk, aux
  <2> HIDE DEF new
  <2> QED
    BY <2>1, <2>2, EmptyRows, BegunRows
<1>7. CASE SearchBegin(p)
  <2> DEFINE step == IF cache = None THEN "build" ELSE "query"
             new == Begun("search", step, None, None)
  <2>1. new.kind = "search" /\ new.step \in {"build", "query"} /\ new.rows = <<>>
    BY BegunTyped DEF Holding
  <2>2. op' = [op EXCEPT ![p] = new] /\ file' = file /\ fileTail' = fileTail /\ used' = used
    BY <1>7 DEF SearchBegin, disk, aux
  <2> HIDE DEF new
  <2> QED
    BY <2>1, <2>2, EmptyRows, BegunRows
<1> QED
  BY <1>1, <1>2, <1>3, <1>4, <1>5, <1>6, <1>7 DEF Begin

(* The row that a crash tears was not in the file: its tail is a row of its own, or none. *)
LEMMA CrashRows ==
  ASSUME LocksOK, RowsOK, Crash
  PROVE  RowsOK'
<1>1. (\A q \in Procs : Calm(q)) /\ used' = used /\ \A q \in Procs : op'[q] = Idle
  BY DEF Crash, Calm
<1>2. CASE UNCHANGED disk
  BY <1>1, <1>2, CalmRows DEF disk
<1>3. CASE CrashTearsLog
  BY <1>1, <1>3, CalmRows DEF CrashTearsLog
<1>4. CASE CrashTearsRow
  <2>1. PICK p \in Procs :
          /\ op[p].kind = "append" /\ op[p].step = "row" /\ file' = file
          /\ \/ fileTail' = [fileTail EXCEPT ![op[p].thread] = Torn(@, Partial)]
             \/ fileTail' = [fileTail EXCEPT ![op[p].thread] = Torn(@, op[p].message)]
    <3>1. PICK torn \in TornRows :
            /\ fileTail' = [fileTail EXCEPT ![op[torn.p].thread] = Torn(@, torn.tail)]
            /\ file' = file
      BY <1>4 DEF CrashTearsRow
    <3>2. PICK q \in Procs : /\ At(q, "append", "row")
                             /\ torn = [p |-> q, tail |-> Partial] \/ torn = [p |-> q, tail |-> op[q].message]
      BY DEF TornRows
    <3>3. torn.p = q /\ (torn.tail = Partial \/ torn.tail = op[q].message)
      BY <3>2
    <3> QED
      BY <3>1, <3>2, <3>3 DEF At
  <2> DEFINE t == op[p].thread
             m == op[p].message
  <2>2. t \in Threads /\ m \in Messages /\ m \notin Stored(t) /\ (m \in Fresh => m \in used)
    BY <2>1 DEF LocksOK, OwnsItsThread, Holding, RowsOK, OpFits, AppendNew
  <2>3. fileTail'[t] \in {Partial, m} /\ \A u \in Threads \ {t} : fileTail'[u] = fileTail[u]
    BY <2>1, <2>2 DEF RowsOK, RowsTyped, Torn
  <2>4. RowsTyped'
    BY <2>1, <2>2, <2>3 DEF RowsOK, RowsTyped, Torn
  <2> HIDE DEF t, m
  <2>5. RowsDistinct'
    BY <2>1, <2>2, <2>3, TailsApart DEF RowsOK, RowsDistinct, Stored
  <2>6. FreshUsed'
    BY <1>1, <2>1, <2>2, <2>3, TailsApart DEF RowsOK, FreshUsed, Stored
  <2>7. AppendNew'
    BY <1>1, IdleRows DEF AppendNew
  <2> QED
    BY <1>1, <2>4, <2>5, <2>6, <2>7, CalmReads DEF RowsOK
<1> QED
  BY <1>2, <1>3, <1>4 DEF Crash

LEMMA StepRows ==
  ASSUME LocksOK, RowsOK, NEW p \in Procs, Step(p)
  PROVE  RowsOK'
<1>0. (\A q \in Procs : Calm(q)) /\ op[p] \in OpRecord
  BY StepCalm DEF LocksOK, OpTyped
<1>1. CASE AppendRow(p)
  BY <1>0, <1>1, AppendRowRows
<1>2. CASE AppendStat(p)
  BY <1>0, <1>2, CalmRows DEF AppendStat
<1>3. CASE UpdateRewrite(p)
  <2>1. op[p].kind = "patch" /\ op[p].rows \in Seq(Messages) /\ IsInjective(op[p].rows)
        /\ ToSet(op[p].rows) \cap Fresh \subseteq used /\ used' = used
    BY <1>0, <1>3 DEF UpdateRewrite, At, OpRecord, RowsOK, ReadRows, aux
  <2> QED
    BY <1>0, <1>3, <2>1, OwnRewrite DEF UpdateRewrite, Holding
<1>4. CASE TruncateRewrite(p)
  <2>1. op[p].kind = "truncate" /\ op[p].rows \in Seq(Messages) /\ IsInjective(op[p].rows)
        /\ ToSet(op[p].rows) \cap Fresh \subseteq used /\ op[p].message \in ToSet(op[p].rows)
        /\ used' = used
    BY <1>0, <1>4 DEF TruncateRewrite, At, OpRecord, RowsOK, ReadRows, TruncateFound
  <2> DEFINE kept == Kept(op[p].rows, op[p].message)
  <2>2. kept \in Seq(Messages) /\ IsInjective(kept) /\ ToSet(kept) \cap Fresh \subseteq used
    BY <2>1, KeptRows
  <2>3. Rewritten(op[p].thread, kept)
    BY <1>4 DEF TruncateRewrite
  <2> HIDE DEF kept
  <2> QED
    BY <1>0, <2>1, <2>2, <2>3, OwnRewrite DEF Holding
<1>5. CASE TruncateStats(p) \/ TruncateEvict(p)
  BY <1>0, <1>5, CalmRows DEF TruncateStats, TruncateEvict, disk, aux
<1>6. CASE DeleteRemove(p)
  <2>1. op[p].kind = "delete" /\ Rewritten(op[p].thread, <<>>) /\ used' = used
    BY <1>6 DEF DeleteRemove, At, aux
  <2> QED
    BY <1>0, <2>1, EmptyRows, OwnRewrite DEF Holding
<1>7. CASE DeleteEvict(p) \/ PurgeFinish(p)
  BY <1>0, <1>7, CalmRows DEF DeleteEvict, PurgeFinish, disk, aux
<1>8. ASSUME NEW x \in Threads \cup {"log"}, PurgeRemove(p, x)
      PROVE  RowsOK'
  <2>1. CASE x = "log"
    BY <1>0, <1>8, <2>1, CalmRows DEF PurgeRemove, aux
  <2>2. CASE x # "log"
    <3>1. x \in Threads /\ Rewritten(x, <<>>) /\ used' = used
      BY <1>8, <2>2 DEF PurgeRemove, aux
    <3> QED
      BY <1>0, <3>1, EmptyRows, RewrittenRows
  <2> QED
    BY <2>1, <2>2
<1>9. CASE ListSnapshot(p) \/ ListAgain(p) \/ ListReturn(p)
  BY <1>0, <1>9, CalmRows DEF ListSnapshot, ListAgain, ListReturn, disk, aux
<1>10. CASE BuildSnapshot(p) \/ BuildPublish(p) \/ SearchReturn(p)
  BY <1>0, <1>10, CalmRows DEF BuildSnapshot, BuildPublish, SearchReturn, disk, aux
<1> QED
  BY <1>1, <1>2, <1>3, <1>4, <1>5, <1>6, <1>7, <1>8, <1>9, <1>10 DEF Step

LEMMA WaitOrFaultRows ==
  ASSUME LocksOK, RowsOK, NEW p \in Procs, Wait(p) \/ Fault(p)
  PROVE  RowsOK'
<1>0. \A q \in Procs : Calm(q)
  BY WaitOrFaultCalm
<1>1. CASE BuildLock(p)
  BY <1>0, <1>1, CalmRows DEF BuildLock, disk, aux
<1>2. ASSUME NEW t \in Threads, ListRepair(p, t) \/ BuildScan(p, t)
      PROVE  RowsOK'
  BY <1>0, <1>2, CalmRows DEF ListRepair, BuildScan, disk, aux
<1>3. CASE AppendRowFails(p)
  <2>1. op[p].thread \in Threads /\ file' = file /\ used' = used
    BY <1>3 DEF AppendRowFails, At, LocksOK, OwnsItsThread, Holding
  <2> QED
    BY <1>0, <1>3, <2>1, CalmRows, TornTailRows DEF AppendRowFails
<1>4. CASE AppendStatFails(p) \/ TruncateStatsFails(p) \/ DeleteRemoveFails(p) \/ RewriteFails(p)
  BY <1>0, <1>4, CalmRows
  DEF AppendStatFails, TruncateStatsFails, DeleteRemoveFails, RewriteFails, LogTorn, disk
<1>5. CASE PurgeRemoveFails(p) \/ ListFails(p) \/ BuildSnapshotFails(p) \/ LineFails(p)
  BY <1>0, <1>5, CalmRows
  DEF PurgeRemoveFails, ListFails, BuildSnapshotFails, LineFails, LogTorn, disk
<1>6. ASSUME NEW t \in Threads, ListUnreadable(p, t) \/ BuildScanFails(p, t)
      PROVE  RowsOK'
  BY <1>0, <1>6, CalmRows DEF ListUnreadable, BuildScanFails, disk
<1> QED
  BY <1>1, <1>2, <1>3, <1>4, <1>5, <1>6 DEF Wait, Fault

LEMMA StillRows ==
  ASSUME LocksOK, RowsOK, op' = op, file' = file, fileTail' = fileTail, used' = used
  PROVE  RowsOK'
<1>1. \A q \in Procs : Calm(q)
  BY DEF Calm, RowsOK, OpFits
<1> QED
  BY <1>1, CalmRows

LEMMA RowsStep ==
  ASSUME LocksOK, RowsOK, [Next]_vars
  PROVE  RowsOK'
<1>1. CASE UNCHANGED vars
  BY <1>1, StillRows DEF vars, disk, aux
<1>2. CASE Mutations
  BY <1>2, StillRows DEF Mutations, EnsureThread, UpdateThread, AppendExisting, disk, aux
<1>3. ASSUME NEW p \in Procs, Begin(p) \/ Step(p) \/ Wait(p) \/ Fault(p)
      PROVE  RowsOK'
  BY <1>3, BeginRows, StepRows, WaitOrFaultRows
<1>4. CASE Crash
  BY <1>4, CrashRows
<1> QED
  BY <1>1, <1>2, <1>3, <1>4 DEF Next

LEMMA RowsAndLocks == LocksOK /\ RowsOK => CrashesLeaveNothing
  BY RowsInjective DEF CrashesLeaveNothing, NoDuplicateIds, LocksOK

(* However many crashes, torn lines and failed writes fall between its steps, the
   conversation store never holds a message twice in a thread, and the journal of
   appends lives exactly as long as the index build that drains it. *)
THEOREM CrashesCorrect == Spec => []CrashesLeaveNothing
<1>1. Init => LocksOK /\ RowsOK
  BY LocksInit, RowsInit
<1>2. LocksOK /\ RowsOK /\ [Next]_vars => (LocksOK /\ RowsOK)'
  BY LocksStep, RowsStep DEF RowsOK
<1> QED
  BY <1>1, <1>2, RowsAndLocks, PTL DEF Spec

(***************************************************************************)
(* The lifecycle lock: an operation on one thread's rows, a listing and a  *)
(* search are readers, a deletion and a purge the writer, alone.           *)
(***************************************************************************)
Reading == {"append", "patch", "truncate", "list", "search"}
LifecycleOK ==
  /\ readers \subseteq Procs /\ writer \in Procs \cup {None}
  /\ writer # None => readers = {}
  /\ \A p \in Procs : op[p].kind \in Reading => p \in readers
  /\ \A p \in Procs : op[p].kind \in {"delete", "purge"} => writer = p

LEMMA LifecycleInit == Init => LifecycleOK
  BY IdleRows DEF Init, LifecycleOK, Reading

LEMMA CalmLifecycle ==
  ASSUME LifecycleOK, \A q \in Procs : Calm(q), readers' = readers, writer' = writer
  PROVE  LifecycleOK'
  BY IdleRows DEF LifecycleOK, Calm, Reading

LEMMA ReturnLifecycle ==
  ASSUME LocksOK, LifecycleOK, NEW p \in Procs, Returns(p)
  PROVE  LifecycleOK'
<1>1. op'[p] = Idle /\ \A q \in Procs \ {p} : op'[q] = op[q]
  BY DEF Returns, LocksOK, OpTyped
<1>2. readers' = readers \ {p} /\ writer' = IF writer = p THEN None ELSE writer
  BY DEF Returns, Released
<1> QED
  BY <1>1, <1>2, IdleRows DEF LifecycleOK, Reading

LEMMA BegunLifecycle ==
  ASSUME LocksOK, LifecycleOK, NEW p \in Procs, NEW new, op' = [op EXCEPT ![p] = new],
         \/ EnterRead(p) /\ new.kind \in Reading
         \/ CanWrite /\ writer' = p /\ readers' = readers /\ new.kind \in {"delete", "purge"}
  PROVE  LifecycleOK'
<1>1. op'[p] = new /\ \A q \in Procs \ {p} : op'[q] = op[q]
  BY DEF LocksOK, OpTyped
<1> QED
  BY <1>1, StoreAssumption DEF LifecycleOK, EnterRead, CanRead, CanWrite, Reading

LEMMA BeginLifecycle ==
  ASSUME LocksOK, LifecycleOK, NEW p \in Procs, Begin(p)
  PROVE  LifecycleOK'
<1>1. ASSUME NEW t \in Threads, NEW m \in Messages, AppendBegin(p, t, m)
      PROVE  LifecycleOK'
  <2>1. Begun("append", "row", t, m).kind \in Reading
    BY BegunTyped DEF Holding, Reading
  <2> QED
    BY <1>1, <2>1, BegunLifecycle DEF AppendBegin
<1>2. ASSUME NEW t \in Threads, NEW m \in Messages, TruncateRead(p, t, m)
      PROVE  LifecycleOK'
  <2> DEFINE b == Begun("truncate", "rewrite", t, m)
  <2>1. b \in OpRecord /\ b.kind = "truncate"
    BY BegunTyped DEF Holding
  <2> HIDE DEF b
  <2>2. [b EXCEPT !.rows = Rows(t)].kind \in Reading
    BY <2>1 DEF OpRecord, Reading
  <2> QED
    BY <1>2, <2>2, BegunLifecycle DEF TruncateRead, b
<1>3. ASSUME NEW t \in Threads, UpdateRead(p, t)
      PROVE  LifecycleOK'
  <2> DEFINE b == Begun("patch", "rewrite", t, None)
  <2>1. b \in OpRecord /\ b.kind = "patch"
    BY BegunTyped DEF Holding
  <2> HIDE DEF b
  <2>2. [b EXCEPT !.rows = Rows(t)].kind \in Reading
    BY <2>1 DEF OpRecord, Reading
  <2> QED
    BY <1>3, <2>2, BegunLifecycle DEF UpdateRead, b
<1>4. ASSUME NEW t \in Threads, DeleteBegin(p, t)
      PROVE  LifecycleOK'
  <2>1. Begun("delete", "remove", t, None).kind = "delete"
    BY BegunTyped DEF Holding
  <2> QED
    BY <1>4, <2>1, BegunLifecycle DEF DeleteBegin
<1>5. CASE PurgeBegin(p)
  <2> DEFINE b == Begun("purge", "remove", None, None)
  <2>1. b \in OpRecord /\ b.kind = "purge"
    BY BegunTyped DEF Holding
  <2> HIDE DEF b
  <2>2. [b EXCEPT !.todo = Threads \cup {"log"}].kind = "purge"
    BY <2>1 DEF OpRecord
  <2> QED
    BY <1>5, <2>2, BegunLifecycle DEF PurgeBegin, b
<1>6. CASE ListBegin(p)
  <2>1. Begun("list", "snapshot", None, None).kind \in Reading
    BY BegunTyped DEF Holding, Reading
  <2> QED
    BY <1>6, <2>1, BegunLifecycle DEF ListBegin
<1>7. CASE SearchBegin(p)
  <2> DEFINE step == IF cache = None THEN "build" ELSE "query"
  <2>1. Begun("search", step, None, None).kind \in Reading
    BY BegunTyped DEF Holding, Reading
  <2> QED
    BY <1>7, <2>1, BegunLifecycle DEF SearchBegin
<1> QED
  BY <1>1, <1>2, <1>3, <1>4, <1>5, <1>6, <1>7 DEF Begin

LEMMA StepLifecycle ==
  ASSUME LocksOK, RowsOK, LifecycleOK, NEW p \in Procs, Step(p)
  PROVE  LifecycleOK'
<1>0. \A q \in Procs : Calm(q)
  BY StepCalm
<1>1. CASE \/ AppendStat(p) \/ UpdateRewrite(p) \/ TruncateEvict(p) \/ DeleteEvict(p)
           \/ PurgeFinish(p) \/ ListReturn(p) \/ SearchReturn(p)
  BY <1>1, ReturnLifecycle
  DEF AppendStat, UpdateRewrite, TruncateEvict, DeleteEvict, PurgeFinish, ListReturn, SearchReturn
<1>2. CASE \/ AppendRow(p) \/ TruncateRewrite(p) \/ TruncateStats(p) \/ DeleteRemove(p)
           \/ (\E x \in Threads \cup {"log"} : PurgeRemove(p, x)) \/ ListSnapshot(p)
           \/ ListAgain(p) \/ BuildSnapshot(p) \/ BuildPublish(p)
  <2>1. readers' = readers /\ writer' = writer
    BY <1>2
    DEF AppendRow, TruncateRewrite, TruncateStats, DeleteRemove, PurgeRemove, ListSnapshot,
        ListAgain, BuildSnapshot, BuildPublish, locks
  <2> QED
    BY <1>0, <2>1, CalmLifecycle
<1> QED
  BY <1>1, <1>2 DEF Step

LEMMA WaitOrFaultLifecycle ==
  ASSUME LocksOK, RowsOK, LifecycleOK, NEW p \in Procs, Wait(p) \/ Fault(p)
  PROVE  LifecycleOK'
<1>0. \A q \in Procs : Calm(q)
  BY WaitOrFaultCalm
<1>1. CASE \/ AppendRowFails(p) \/ AppendStatFails(p) \/ TruncateStatsFails(p)
           \/ PurgeRemoveFails(p) \/ ListFails(p) \/ BuildSnapshotFails(p) \/ RewriteFails(p)
  BY <1>1, ReturnLifecycle
  DEF AppendRowFails, AppendStatFails, TruncateStatsFails, PurgeRemoveFails, ListFails,
      BuildSnapshotFails, RewriteFails
<1>2. CASE \/ BuildLock(p) \/ DeleteRemoveFails(p) \/ LineFails(p)
           \/ \E t \in Threads : \/ ListRepair(p, t) \/ BuildScan(p, t)
                                \/ ListUnreadable(p, t) \/ BuildScanFails(p, t)
  <2>1. readers' = readers /\ writer' = writer
    BY <1>2
    DEF BuildLock, DeleteRemoveFails, LineFails, ListRepair, BuildScan, ListUnreadable,
        BuildScanFails, locks
  <2> QED
    BY <1>0, <2>1, CalmLifecycle
<1> QED
  BY <1>1, <1>2 DEF Wait, Fault

LEMMA LifecycleStep ==
  ASSUME LocksOK, RowsOK, LifecycleOK, [Next]_vars
  PROVE  LifecycleOK'
<1>1. CASE UNCHANGED vars
  BY <1>1 DEF LifecycleOK, vars, locks
<1>2. CASE Mutations
  BY <1>2 DEF LifecycleOK, Mutations, EnsureThread, UpdateThread, AppendExisting, locks
<1>3. ASSUME NEW p \in Procs, Begin(p) \/ Step(p) \/ Wait(p) \/ Fault(p)
      PROVE  LifecycleOK'
  BY <1>3, BeginLifecycle, StepLifecycle, WaitOrFaultLifecycle
<1>4. CASE Crash
  BY <1>4, IdleRows DEF Crash, LifecycleOK, Reading
<1> QED
  BY <1>1, <1>2, <1>3, <1>4 DEF Next

(* A step changes its own operation only, and only `AppendRow` moves on to "stat". *)
Others(p) == \A q \in Procs \ {p} : op'[q] = op[q]
LEMMA OthersKept ==
  ASSUME LocksOK, NEW p \in Procs, Step(p) \/ Wait(p) \/ Fault(p)
  PROVE  Others(p) /\ (AppendRow(p) \/ op'[p].step # "stat")
<1>0. op[p] \in OpRecord /\ op \in [Procs -> OpRecord]
  BY DEF LocksOK, OpTyped
<1>1. ASSUME Returns(p) PROVE Others(p) /\ op'[p].step # "stat"
  BY <1>0, <1>1, IdleRows DEF Returns, Others
<1>2. ASSUME NEW step, Goto(p, step) PROVE Others(p) /\ op'[p].step = step
  BY <1>0, <1>2 DEF Goto, Others, OpRecord
<1>3. CASE \/ AppendStat(p) \/ UpdateRewrite(p) \/ TruncateEvict(p) \/ DeleteEvict(p)
           \/ PurgeFinish(p) \/ ListReturn(p) \/ SearchReturn(p)
  BY <1>1, <1>3
  DEF AppendStat, UpdateRewrite, TruncateEvict, DeleteEvict, PurgeFinish, ListReturn, SearchReturn
<1>4. CASE \/ AppendRowFails(p) \/ AppendStatFails(p) \/ TruncateStatsFails(p)
           \/ PurgeRemoveFails(p) \/ ListFails(p) \/ BuildSnapshotFails(p) \/ RewriteFails(p)
  BY <1>1, <1>4
  DEF AppendRowFails, AppendStatFails, TruncateStatsFails, PurgeRemoveFails, ListFails,
      BuildSnapshotFails, RewriteFails
<1>5. CASE AppendRow(p) \/ DeleteRemove(p) \/ ListAgain(p) \/ TruncateStats(p)
  BY <1>2, <1>5 DEF AppendRow, DeleteRemove, ListAgain, TruncateStats
<1>6. CASE TruncateRewrite(p) \/ BuildLock(p) \/ DeleteRemoveFails(p)
  BY <1>2, <1>6 DEF TruncateRewrite, BuildLock, DeleteRemoveFails
<1>7. CASE \/ (\E x \in Threads \cup {"log"} : PurgeRemove(p, x)) \/ ListSnapshot(p)
           \/ BuildSnapshot(p) \/ BuildPublish(p)
  BY <1>0, <1>7 DEF PurgeRemove, ListSnapshot, BuildSnapshot, BuildPublish, At, Others, OpRecord
<1>8. CASE \E t \in Threads : \/ ListRepair(p, t) \/ BuildScan(p, t)
                              \/ ListUnreadable(p, t) \/ BuildScanFails(p, t)
  BY <1>0, <1>8 DEF ListRepair, BuildScan, ListUnreadable, BuildScanFails, At, Others, OpRecord
<1>12. CASE LineFails(p)
  BY <1>12, IdleRows DEF LineFails, Others
<1> QED
  BY <1>3, <1>4, <1>5, <1>6, <1>7, <1>8, <1>12 DEF Step, Wait, Fault

(***************************************************************************)
(* What was acknowledged. Without torn lines a rewrite writes back the     *)
(* rows its thread has, an appended row is there until it is acknowledged, *)
(* and nothing acknowledged belongs to a thread that is being removed.     *)
(***************************************************************************)
OpKeeps(q) ==
  /\ op[q].kind \in {"patch", "truncate"} /\ op[q].step = "rewrite" => op[q].rows = file[op[q].thread]
  /\ op[q].kind = "append" /\ op[q].step = "stat" => op[q].message \in ToSet(file[op[q].thread])
  /\ op[q].kind = "delete" => \A a \in acked : a[1] # op[q].thread
  /\ op[q].kind = "purge" => acked = {}
Untorn == \A t \in Threads : fileTail[t] = None
AckedThere == acked \subseteq Threads \X Messages /\ \A a \in acked : a[2] \in ToSet(file[a[1]])
AckedOK == Untorn /\ AckedThere /\ \A q \in Procs : OpKeeps(q)

LEMMA AckedInit == Init => AckedOK
  BY IdleRows DEF Init, AckedOK, Untorn, AckedThere, OpKeeps

LEMMA IdleKeeps == ASSUME NEW p \in Procs, op'[p] = Idle PROVE OpKeeps(p)'
  BY IdleRows DEF OpKeeps

(* Nothing is written and nothing acknowledged. *)
LEMMA AckedFrame ==
  ASSUME AckedOK, NEW p \in Procs, Others(p), Calm(p), op'[p].step # "stat" \/ op' = op,
         file' = file, fileTail' = fileTail, acked' \subseteq acked
  PROVE  AckedOK'
<1>1. Untorn' /\ AckedThere'
  BY DEF AckedOK, Untorn, AckedThere
<1>2. \A q \in Procs \ {p} : OpKeeps(q)'
  BY DEF AckedOK, OpKeeps, Others
<1>3. OpKeeps(p)'
  BY IdleRows DEF AckedOK, OpKeeps, Calm
<1> QED
  BY <1>1, <1>2, <1>3 DEF AckedOK

(* The lifecycle lock: while a reader works, no deletion and no purge does. *)
LEMMA NoWriterBeside ==
  ASSUME LifecycleOK, NEW p \in Procs, op[p].kind \in Reading, NEW q \in Procs
  PROVE  op[q].kind \notin {"delete", "purge"}
<1>1. p \in readers
  BY DEF LifecycleOK
<1>2. writer = None
  BY <1>1 DEF LifecycleOK
<1> QED
  BY <1>2, StoreAssumption DEF LifecycleOK

(* p writes its thread's file; the other operations are on other threads. *)
LEMMA AckedOwnWrite ==
  ASSUME LocksOK, RowsOK, AckedOK, NEW p \in Procs, Others(p), op[p].kind \in Holding,
         NEW rows, Rewritten(op[p].thread, rows), acked' \subseteq acked,
         \A a \in acked' : a[1] = op[p].thread => a[2] \in ToSet(rows), OpKeeps(p)'
  PROVE  AckedOK'
<1> DEFINE t == op[p].thread
<1>1. t \in Threads
  BY DEF LocksOK, OwnsItsThread
<1>2. file'[t] = rows /\ fileTail'[t] = None
      /\ \A u \in Threads \ {t} : file'[u] = file[u] /\ fileTail'[u] = fileTail[u]
  BY <1>1 DEF Rewritten, RowsOK, RowsTyped
<1> HIDE DEF t
<1>3. Untorn' /\ AckedThere'
  BY <1>1, <1>2 DEF AckedOK, Untorn, AckedThere, t
<1>4. ASSUME NEW q \in Procs \ {p} PROVE OpKeeps(q)'
  <2>1. op'[q] = op[q] /\ OpKeeps(q)
    BY DEF Others, AckedOK
  <2>2. op[q].kind \in Holding => op[q].thread \in Threads \ {t}
    BY DEF LocksOK, OwnsItsThread, t
  <2> QED
    BY <1>2, <2>1, <2>2 DEF OpKeeps, Holding
<1> QED
  BY <1>3, <1>4 DEF AckedOK

LEMMA AckedAppendRow ==
  ASSUME LocksOK, RowsOK, AckedOK, NEW p \in Procs, AppendRow(p), Others(p)
  PROVE  AckedOK'
<1> DEFINE t == op[p].thread
           m == op[p].message
<1>1. t \in Threads /\ m \in Messages /\ op[p].kind = "append" /\ file[t] \in Seq(Messages)
  BY DEF AppendRow, At, LocksOK, OwnsItsThread, Holding, RowsOK, OpFits, RowsTyped
<1>2. fileTail[t] = None
  BY <1>1 DEF AckedOK, Untorn
<1>3. Rewritten(t, Append(file[t], m)) /\ acked' = acked
  BY <1>1, <1>2 DEF AppendRow, RowAppended, Rewritten, RowsOK, RowsTyped
<1>4. ToSet(Append(file[t], m)) = ToSet(file[t]) \cup {m}
  BY <1>1, AppendToSet
<1>5. op'[p].kind = "append" /\ op'[p].thread = t /\ op'[p].message = m
  BY DEF AppendRow, Goto, LocksOK, OpTyped, OpRecord, At
<1>6. file'[t] = Append(file[t], m)
  BY <1>1, <1>3 DEF Rewritten, RowsOK, RowsTyped
<1>7. OpKeeps(p)'
  BY <1>4, <1>5, <1>6 DEF OpKeeps
<1>8. \A a \in acked' : a[1] = t => a[2] \in ToSet(Append(file[t], m))
  BY <1>3, <1>4 DEF AckedOK, AckedThere
<1> QED
  BY <1>1, <1>3, <1>7, <1>8, AckedOwnWrite DEF Holding

LEMMA AckedAppendStat ==
  ASSUME LocksOK, RowsOK, LifecycleOK, AckedOK, NEW p \in Procs, AppendStat(p), Others(p)
  PROVE  AckedOK'
<1>1. /\ op[p].thread \in Threads /\ op[p].message \in Messages /\ op[p].kind = "append"
      /\ op[p].message \in ToSet(file[op[p].thread])
  BY DEF AppendStat, At, LocksOK, OwnsItsThread, Holding, RowsOK, OpFits, AckedOK, OpKeeps
<1>2. file' = file /\ fileTail' = fileTail /\ acked' = acked \cup {<<op[p].thread, op[p].message>>}
  BY DEF AppendStat
<1>3. Untorn' /\ AckedThere'
  BY <1>1, <1>2 DEF AckedOK, Untorn, AckedThere
<1>4. op'[p] = Idle
  BY DEF AppendStat, Returns, LocksOK, OpTyped
<1>5. ASSUME NEW q \in Procs \ {p} PROVE OpKeeps(q)'
  <2>1. op'[q] = op[q] /\ OpKeeps(q) /\ op[q].kind \notin {"delete", "purge"}
    BY <1>1, NoWriterBeside DEF Others, AckedOK, Reading
  <2> QED
    BY <1>2, <2>1 DEF OpKeeps
<1> QED
  BY <1>3, <1>4, <1>5, IdleKeeps DEF AckedOK

LEMMA AckedExisting ==
  ASSUME RowsOK, LifecycleOK, AckedOK, NEW t \in Threads, NEW m \in Minted, AppendExisting(t, m)
  PROVE  AckedOK'
<1>1. file' = file /\ fileTail' = fileTail /\ op' = op /\ acked' = acked \cup {<<t, m>>}
  BY DEF AppendExisting, disk
<1>2. m \in Messages /\ m \in ToSet(file[t])
  <2>1. m \in Stored(t) /\ fileTail[t] = None
    BY StoredIsRowSet DEF AppendExisting, RowsOK, AckedOK, Untorn
  <2> QED
    BY <2>1, TailsApart DEF Stored, Messages
<1>3. \A q \in Procs : op[q].kind \notin {"delete", "purge"}
  BY StoreAssumption DEF AppendExisting, CanRead, LifecycleOK
<1> QED
  BY <1>1, <1>2, <1>3 DEF AckedOK, Untorn, AckedThere, OpKeeps

(* A purge has the store to itself, and nothing is acknowledged any more. *)
LEMMA AckedPurgeRemove ==
  ASSUME LocksOK, RowsOK, LifecycleOK, AckedOK, NEW p \in Procs, NEW x \in Threads \cup {"log"},
         PurgeRemove(p, x), Others(p), Calm(p)
  PROVE  AckedOK'
<1>1. op[p].kind = "purge" /\ acked' = acked /\ acked = {} /\ op'[p].kind \in {"idle", "purge"}
  BY IdleRows DEF PurgeRemove, At, aux, AckedOK, OpKeeps, Calm
<1>2. \A q \in Procs : op[q].kind \in Reading => FALSE
  BY <1>1, NoWriterBeside
<1>3. Untorn'
  BY DEF PurgeRemove, Rewritten, AckedOK, Untorn, RowsOK, RowsTyped
<1>4. \A q \in Procs : OpKeeps(q)'
  BY <1>1, <1>2 DEF OpKeeps, Others, Reading
<1> QED
  BY <1>1, <1>3, <1>4 DEF AckedOK, AckedThere

LEMMA AckedStep ==
  ASSUME LocksOK, RowsOK, LifecycleOK, AckedOK, NEW p \in Procs, Step(p)
  PROVE  AckedOK'
<1>0. Others(p) /\ Calm(p) /\ (AppendRow(p) \/ op'[p].step # "stat") /\ op[p] \in OpRecord
  BY OthersKept, StepCalm DEF LocksOK, OpTyped
<1>1. CASE AppendRow(p)
  BY <1>0, <1>1, AckedAppendRow
<1>2. CASE AppendStat(p)
  BY <1>0, <1>2, AckedAppendStat
<1>3. CASE UpdateRewrite(p)
  <2>1. op[p].thread \in Threads /\ op[p].rows = file[op[p].thread] /\ fileTail[op[p].thread] = None
    BY <1>3 DEF UpdateRewrite, At, LocksOK, OwnsItsThread, Holding, AckedOK, OpKeeps, Untorn
  <2>2. file' = file /\ fileTail' = fileTail /\ acked' = acked
    BY <1>3, <2>1 DEF UpdateRewrite, Rewritten, RowsOK, RowsTyped, aux
  <2>3. op'[p] = Idle
    BY <1>3 DEF UpdateRewrite, Returns, LocksOK, OpTyped
  <2> QED
    BY <1>0, <2>2, <2>3, IdleRows, AckedFrame
<1>4. CASE TruncateRewrite(p)
  <2> DEFINE kept == Kept(op[p].rows, op[p].message)
  <2>1. op[p].kind = "truncate" /\ Rewritten(op[p].thread, kept)
        /\ acked' = {a \in acked : a[1] = op[p].thread => a[2] \in ToSet(kept)}
    BY <1>4 DEF TruncateRewrite, At
  <2> HIDE DEF kept
  <2>2. op'[p].kind = "truncate" /\ op'[p].step = "stats"
    BY <1>4 DEF TruncateRewrite, At, Goto, LocksOK, OpTyped, OpRecord
  <2>3. OpKeeps(p)'
    BY <2>2 DEF OpKeeps
  <2> QED
    BY <1>0, <2>1, <2>3, AckedOwnWrite DEF Holding
<1>5. CASE DeleteRemove(p)
  <2>1. op[p].kind = "delete" /\ Rewritten(op[p].thread, <<>>) /\ acked' = acked
    BY <1>5 DEF DeleteRemove, At, aux
  <2>2. op'[p].kind = "delete" /\ op'[p].thread = op[p].thread
    BY <1>5 DEF DeleteRemove, At, Goto, LocksOK, OpTyped, OpRecord
  <2>3. OpKeeps(p)' /\ \A a \in acked' : a[1] # op[p].thread
    BY <2>1, <2>2 DEF AckedOK, OpKeeps
  <2> QED
    BY <1>0, <2>1, <2>3, AckedOwnWrite DEF Holding
<1>6. ASSUME NEW x \in Threads \cup {"log"}, PurgeRemove(p, x)
      PROVE  AckedOK'
  BY <1>0, <1>6, AckedPurgeRemove
<1>7. CASE \/ TruncateStats(p) \/ TruncateEvict(p) \/ DeleteEvict(p) \/ PurgeFinish(p)
           \/ ListSnapshot(p) \/ ListAgain(p) \/ ListReturn(p)
           \/ BuildSnapshot(p) \/ BuildPublish(p) \/ SearchReturn(p)
  <2>1. file' = file /\ fileTail' = fileTail /\ acked' = acked
    BY <1>7
    DEF TruncateStats, TruncateEvict, DeleteEvict, PurgeFinish, ListSnapshot, ListAgain,
        ListReturn, BuildSnapshot, BuildPublish, SearchReturn, disk, aux
  <2>2. op'[p].step # "stat"
    BY <1>0, <1>7
    DEF AppendRow, At, TruncateStats, TruncateEvict, DeleteEvict, PurgeFinish, ListSnapshot,
        ListAgain, ListReturn, BuildSnapshot, BuildPublish, SearchReturn
  <2> QED
    BY <1>0, <2>1, <2>2, AckedFrame
<1> QED
  BY <1>1, <1>2, <1>3, <1>4, <1>5, <1>6, <1>7 DEF Step

LEMMA AckedWaitOrFault ==
  ASSUME LocksOK, RowsOK, LifecycleOK, AckedOK, NEW p \in Procs,
         Wait(p) \/ (Fault(p) /\ TearKinds = {})
  PROVE  AckedOK'
<1>0. Others(p) /\ Calm(p) /\ (AppendRow(p) \/ op'[p].step # "stat")
  BY OthersKept, WaitOrFaultCalm
<1>1. CASE /\ TearKinds = {}
           /\ \/ AppendRowFails(p) \/ AppendStatFails(p) \/ TruncateStatsFails(p)
              \/ DeleteRemoveFails(p) \/ PurgeRemoveFails(p) \/ ListFails(p) \/ BuildSnapshotFails(p)
              \/ RewriteFails(p) \/ LineFails(p)
  <2>1. file' = file /\ fileTail' = fileTail /\ acked' = acked
    BY <1>1
    DEF AppendRowFails, AppendStatFails, TruncateStatsFails, DeleteRemoveFails,
        PurgeRemoveFails, ListFails, BuildSnapshotFails, RewriteFails, LineFails, LogTorn, disk
  <2>2. op'[p].step # "stat"
    BY <1>1, IdleRows
    DEF AppendRowFails, AppendStatFails, TruncateStatsFails, DeleteRemoveFails,
        PurgeRemoveFails, ListFails, BuildSnapshotFails, RewriteFails, LineFails, Returns, Goto, LocksOK, OpTyped, OpRecord
  <2> QED
    BY <1>0, <2>1, <2>2, AckedFrame
<1>2. CASE \/ BuildLock(p)
           \/ \E t \in Threads : \/ ListRepair(p, t) \/ BuildScan(p, t)
                                \/ ListUnreadable(p, t) \/ BuildScanFails(p, t)
  <2>1. file' = file /\ fileTail' = fileTail /\ acked' = acked
    BY <1>2 DEF BuildLock, ListRepair, BuildScan, ListUnreadable, BuildScanFails, disk, aux
  <2>2. ~AppendRow(p)
    BY <1>2 DEF AppendRow, BuildLock, ListRepair, BuildScan, ListUnreadable, BuildScanFails, At
  <2> QED
    BY <1>0, <2>1, <2>2, AckedFrame
<1> QED
  BY <1>1, <1>2 DEF Wait, Fault

LEMMA AckedBegun ==
  ASSUME LocksOK, AckedOK, NEW p \in Procs, NEW new, op' = [op EXCEPT ![p] = new],
         file' = file, fileTail' = fileTail, acked' \subseteq acked,
         new.kind \in {"patch", "truncate"} => new.rows = file[new.thread],
         new.step # "stat",
         new.kind = "delete" => \A a \in acked' : a[1] # new.thread,
         new.kind = "purge" => acked' = {}
  PROVE  AckedOK'
<1>1. op'[p] = new /\ \A q \in Procs \ {p} : op'[q] = op[q]
  BY DEF LocksOK, OpTyped
<1>2. Untorn' /\ AckedThere'
  BY DEF AckedOK, Untorn, AckedThere
<1>3. \A q \in Procs : OpKeeps(q)'
  BY <1>1 DEF AckedOK, OpKeeps
<1> QED
  BY <1>2, <1>3 DEF AckedOK

LEMMA AckedBegin ==
  ASSUME LocksOK, RowsOK, AckedOK, NEW p \in Procs, Begin(p)
  PROVE  AckedOK'
<1>0. \A t \in Threads : Rows(t) = file[t]
  BY DEF AckedOK, Untorn, Rows
<1>1. ASSUME NEW t \in Threads, NEW m \in Messages, AppendBegin(p, t, m)
      PROVE  AckedOK'
  <2> DEFINE new == Begun("append", "row", t, m)
  <2>1. new.kind = "append" /\ new.step = "row"
    BY BegunTyped DEF Holding
  <2>2. op' = [op EXCEPT ![p] = new] /\ file' = file /\ fileTail' = fileTail /\ acked' = acked
    BY <1>1 DEF AppendBegin, disk
  <2> HIDE DEF new
  <2> QED
    BY <2>1, <2>2, AckedBegun
<1>2. ASSUME NEW t \in Threads, NEW m \in Messages, TruncateRead(p, t, m)
      PROVE  AckedOK'
  <2> DEFINE b == Begun("truncate", "rewrite", t, m)
             new == [b EXCEPT !.rows = Rows(t)]
  <2>1. b \in OpRecord /\ b.kind = "truncate" /\ b.step = "rewrite" /\ b.thread = t
    BY BegunTyped DEF Holding
  <2>2. op' = [op EXCEPT ![p] = new] /\ file' = file /\ fileTail' = fileTail /\ acked' = acked
    BY <1>2 DEF TruncateRead, disk, aux
  <2> HIDE DEF b
  <2>3. new.kind = "truncate" /\ new.step = "rewrite" /\ new.thread = t /\ new.rows = file[t]
    BY <1>0, <2>1 DEF OpRecord
  <2> HIDE DEF new
  <2> QED
    BY <2>2, <2>3, AckedBegun
<1>3. ASSUME NEW t \in Threads, UpdateRead(p, t)
      PROVE  AckedOK'
  <2> DEFINE b == Begun("patch", "rewrite", t, None)
             new == [b EXCEPT !.rows = Rows(t)]
  <2>1. b \in OpRecord /\ b.kind = "patch" /\ b.step = "rewrite" /\ b.thread = t
    BY BegunTyped DEF Holding
  <2>2. op' = [op EXCEPT ![p] = new] /\ file' = file /\ fileTail' = fileTail /\ acked' = acked
    BY <1>3 DEF UpdateRead, disk, aux
  <2> HIDE DEF b
  <2>3. new.kind = "patch" /\ new.step = "rewrite" /\ new.thread = t /\ new.rows = file[t]
    BY <1>0, <2>1 DEF OpRecord
  <2> HIDE DEF new
  <2> QED
    BY <2>2, <2>3, AckedBegun
<1>4. ASSUME NEW t \in Threads, DeleteBegin(p, t)
      PROVE  AckedOK'
  <2> DEFINE new == Begun("delete", "remove", t, None)
  <2>1. new.kind = "delete" /\ new.step = "remove" /\ new.thread = t
    BY BegunTyped DEF Holding
  <2>2. op' = [op EXCEPT ![p] = new] /\ file' = file /\ fileTail' = fileTail
        /\ acked' = {a \in acked : a[1] # t}
    BY <1>4 DEF DeleteBegin
  <2> HIDE DEF new
  <2> QED
    BY <2>1, <2>2, AckedBegun
<1>5. CASE PurgeBegin(p)
  <2> DEFINE b == Begun("purge", "remove", None, None)
             new == [b EXCEPT !.todo = Threads \cup {"log"}]
  <2>1. b \in OpRecord /\ b.kind = "purge" /\ b.step = "remove"
    BY BegunTyped DEF Holding
  <2>2. op' = [op EXCEPT ![p] = new] /\ file' = file /\ fileTail' = fileTail /\ acked' = {}
    BY <1>5 DEF PurgeBegin
  <2> HIDE DEF b
  <2>3. new.kind = "purge" /\ new.step = "remove"
    BY <2>1 DEF OpRecord
  <2> HIDE DEF new
  <2> QED
    BY <2>2, <2>3, AckedBegun
<1>6. CASE ListBegin(p)
  <2> DEFINE new == Begun("list", "snapshot", None, None)
  <2>1. new.kind = "list" /\ new.step = "snapshot"
    BY BegunTyped DEF Holding
  <2>2. op' = [op EXCEPT ![p] = new] /\ file' = file /\ fileTail' = fileTail /\ acked' = acked
    BY <1>6 DEF ListBegin, disk, aux
  <2> HIDE DEF new
  <2> QED
    BY <2>1, <2>2, AckedBegun
<1>7. CASE SearchBegin(p)
  <2> DEFINE step == IF cache = None THEN "build" ELSE "query"
             new == Begun("search", step, None, None)
  <2>1. new.kind = "search" /\ new.step \in {"build", "query"}
    BY BegunTyped DEF Holding
  <2>2. op' = [op EXCEPT ![p] = new] /\ file' = file /\ fileTail' = fileTail /\ acked' = acked
    BY <1>7 DEF SearchBegin, disk, aux
  <2> HIDE DEF new
  <2> QED
    BY <2>1, <2>2, AckedBegun
<1> QED
  BY <1>1, <1>2, <1>3, <1>4, <1>5, <1>6, <1>7 DEF Begin

LEMMA AckedSmooth ==
  ASSUME LocksOK, RowsOK, LifecycleOK, AckedOK,
         Mutations \/ (\E p \in Procs : Begin(p) \/ Step(p) \/ Wait(p)) \/ UNCHANGED vars
  PROVE  AckedOK'
<1>1. CASE UNCHANGED vars
  BY <1>1 DEF vars, disk, aux, AckedOK, Untorn, AckedThere, OpKeeps
<1>2. ASSUME NEW t \in Threads, EnsureThread(t) \/ UpdateThread(t)
      PROVE  AckedOK'
  <2>1. UNCHANGED <<file, fileTail, acked, op>>
    BY <1>2 DEF EnsureThread, UpdateThread, aux
  <2> QED
    BY <2>1 DEF AckedOK, Untorn, AckedThere, OpKeeps
<1>3. ASSUME NEW t \in Threads, NEW m \in Minted, AppendExisting(t, m)
      PROVE  AckedOK'
  BY <1>3, AckedExisting
<1>4. ASSUME NEW p \in Procs, Begin(p) \/ Step(p) \/ Wait(p)
      PROVE  AckedOK'
  BY <1>4, AckedBegin, AckedStep, AckedWaitOrFault
<1> QED
  BY <1>1, <1>2, <1>3, <1>4 DEF Mutations

LEMMA AckedNext ==
  ASSUME TearKinds = {}, LocksOK, RowsOK, LifecycleOK, AckedOK, [Next]_vars
  PROVE  AckedOK'
<1>1. CASE Mutations \/ (\E p \in Procs : Begin(p) \/ Step(p) \/ Wait(p)) \/ UNCHANGED vars
  BY <1>1, AckedSmooth
<1>2. ASSUME NEW p \in Procs, Fault(p)
      PROVE  AckedOK'
  BY <1>2, AckedWaitOrFault
<1>3. CASE Crash
  <2>1. fileTail' = fileTail /\ file' = file
    BY <1>3 DEF Crash, CrashTearsRow, CrashTearsLog, disk
  <2>2. acked' = acked /\ \A p \in Procs : op'[p] = Idle
    BY <1>3 DEF Crash
  <2> QED
    BY <2>1, <2>2, IdleKeeps DEF AckedOK, Untorn, AckedThere
<1> QED
  BY <1>1, <1>2, <1>3 DEF Next

(* A message whose append was acknowledged stays in its thread until it is
   truncated, deleted or purged, through any interleaving of rewrites and through
   crashes and I/O errors at any step, as long as none of them tears a line. *)
THEOREM AckedSurvives ==
  ASSUME TearKinds = {}
  PROVE  Spec => []AckedDurable
<1>1. Init => LocksOK /\ RowsOK /\ LifecycleOK /\ AckedOK
  BY LocksInit, RowsInit, LifecycleInit, AckedInit
<1>2. LocksOK /\ RowsOK /\ LifecycleOK /\ AckedOK /\ [Next]_vars
        => (LocksOK /\ RowsOK /\ LifecycleOK /\ AckedOK)'
  BY LocksStep, RowsStep, LifecycleStep, AckedNext DEF RowsOK
<1>3. LocksOK /\ RowsOK /\ LifecycleOK /\ AckedOK => AckedDurable
  <2> SUFFICES ASSUME RowsOK, AckedOK, NEW a \in acked PROVE a[2] \in RowSet(a[1])
    BY DEF AckedDurable
  <2>1. a[1] \in Threads /\ a[2] \in ToSet(file[a[1]])
    BY DEF AckedOK, AckedThere
  <2> QED
    BY <2>1, StoredIsRowSet DEF RowsOK, Stored
<1> QED
  BY <1>1, <1>2, <1>3, PTL DEF Spec

(***************************************************************************)
(* The store without failures: what the log and the search index say of    *)
(* the message files while operations are under way.                       *)
(***************************************************************************)
Landed(t) ==
  {op[q].message : q \in {r \in Procs : op[r].kind = "append" /\ op[r].step = "stat" /\ op[r].thread = t}}
Recounting(t) == \E q \in Procs : op[q].kind = "truncate" /\ op[q].step = "stats" /\ op[q].thread = t
Deleting(t) == \E q \in Procs : op[q].kind = "delete" /\ op[q].thread = t
Purging == \E q \in Procs : op[q].kind = "purge"
Removing(t) ==
  \/ \E q \in Procs : op[q].kind = "delete" /\ op[q].step = "remove" /\ op[q].thread = t
  \/ \E q \in Procs : op[q].kind = "purge" /\ t \in op[q].todo

LogTyped == logTail = None /\ index \in [Threads -> {None} \cup ThreadEntry]
RemovedTyped == removed \subseteq Threads \X Messages /\ truncated \subseteq Threads
DeadEmpty == \A t \in Threads : index[t] = None => file[t] = <<>> \/ Removing(t)
RemovedGone == \A a \in removed : a[2] \in ToSet(file[a[1]]) => Removing(a[1])
AppendLive == \A q \in Procs : op[q].kind = "append" => index[op[q].thread] # None
LogGone ==
  \A q \in Procs :
    /\ op[q].kind = "purge" /\ "log" \notin op[q].todo => \A t \in Threads : index[t] = None
    /\ op[q].kind = "purge" => \A t \in Threads \ op[q].todo : file[t] = <<>>
    /\ op[q].kind = "delete" => index[op[q].thread] = None
LandedLast ==
  \A q \in Procs : op[q].kind = "append" /\ op[q].step = "stat"
                     => /\ file[op[q].thread] # <<>>
                        /\ op[q].message = file[op[q].thread][Len(file[op[q].thread])]
MeasuredEntry(t) ==
  [count |-> Len(file[t]), last |-> IF file[t] = <<>> THEN "created" ELSE file[t][Len(file[t])]]
Exact(t) == index[t] = MeasuredEntry(t)
Counted(t) ==
  \/ index[t] = None \/ Recounting(t) \/ Purging
  \/ index[t].count = None
  \/ Landed(t) = {} /\ Exact(t)
  \/ Landed(t) # {} /\ index[t].count + 1 = Len(file[t])
LogOK ==
  /\ LogTyped /\ RemovedTyped /\ DeadEmpty /\ RemovedGone /\ AppendLive /\ LogGone /\ LandedLast
  /\ \A t \in Threads : Counted(t)

Journaled(t) == {m \in Messages : <<t, m>> \in journal}
CacheOK ==
  cache # None =>
    /\ cache \in [Threads -> SUBSET Messages]
    /\ \A t \in Threads \ truncated :
         Deleting(t) \/ Purging \/ cache[t] \cup Landed(t) = ToSet(file[t])
ScanOK ==
  \A q \in Procs : Building(q) =>
    \A t \in Threads \ truncated :
      /\ Journaled(t) \subseteq ToSet(file[t])
      /\ op[q].step = "scan" /\ t \notin op[q].todo
           => op[q].built[t] \cup Journaled(t) \cup Landed(t) = ToSet(file[t])
BuiltTyped == \A q \in Procs : op[q].step = "scan" => op[q].built \in [Threads -> SUBSET Messages]
CutMarked ==
  \A q \in Procs : op[q].kind = "truncate" /\ op[q].step \in {"stats", "evict"}
                     => op[q].thread \in truncated
PostingsOK == CacheOK /\ ScanOK /\ BuiltTyped /\ CutMarked

LEMMA LogInit == Init => LogOK
<1> SUFFICES ASSUME Init PROVE LogOK
  OBVIOUS
<1>1. LogTyped /\ RemovedTyped /\ DeadEmpty /\ RemovedGone /\ \A t \in Threads : Counted(t)
  BY DEF Init, LogTyped, RemovedTyped, DeadEmpty, RemovedGone, Counted
<1>2. AppendLive /\ LogGone /\ LandedLast
  BY IdleRows DEF Init, AppendLive, LogGone, LandedLast
<1> QED
  BY <1>1, <1>2 DEF LogOK

(* What one entry of the log does to its fold. *)
LEMMA LoggedUpsert ==
  ASSUME LogTyped, NEW t \in Threads, Logged(Upsert(t))
  PROVE  /\ LogTyped' /\ \A u \in Threads \ {t} : index'[u] = index[u]
         /\ index'[t] = IF index[t] = None THEN [count |-> None, last |-> None] ELSE index[t]
<1>1. logTail' = None /\ index' = Fold(index, Upsert(t))
  BY DEF LogTyped, Logged
<1>2. Upsert(t).op = "upsert" /\ Upsert(t).thread = t
  BY DEF Upsert
<1>3. index' = IF index[t] = None
               THEN [index EXCEPT ![t] = [count |-> None, last |-> None]] ELSE index
  BY <1>1, <1>2 DEF Fold
<1> QED
  BY <1>1, <1>3 DEF LogTyped, ThreadEntry

LEMMA LoggedDelete ==
  ASSUME LogTyped, NEW t \in Threads, Logged(Delete(t))
  PROVE  /\ LogTyped' /\ \A u \in Threads \ {t} : index'[u] = index[u]
         /\ index'[t] = None
<1>1. logTail' = None /\ index' = Fold(index, Delete(t))
  BY DEF LogTyped, Logged
<1>2. Delete(t).op = "delete" /\ Delete(t).thread = t
  BY DEF Delete
<1>3. index' = [index EXCEPT ![t] = None]
  BY <1>1, <1>2 DEF Fold
<1> QED
  BY <1>1, <1>3 DEF LogTyped

LEMMA LoggedAppended ==
  ASSUME LogTyped, NEW t \in Threads, NEW m \in Messages, Logged(MessageAppended(t, m)),
         index[t] # None
  PROVE  /\ LogTyped' /\ \A u \in Threads \ {t} : index'[u] = index[u]
         /\ index'[t] = [count |-> IF index[t].count = None THEN None ELSE index[t].count + 1,
                         last |-> m]
<1>1. logTail' = None /\ index' = Fold(index, MessageAppended(t, m))
  BY DEF LogTyped, Logged
<1>2. /\ MessageAppended(t, m).op = "appended" /\ MessageAppended(t, m).thread = t
      /\ MessageAppended(t, m).last = m
  BY DEF MessageAppended
<1>3. index' = [index EXCEPT ![t] =
                 [count |-> IF @.count = None THEN None ELSE @.count + 1, last |-> m]]
  BY <1>1, <1>2 DEF Fold
<1>4. index[t].count \in Nat \cup {None}
  BY DEF LogTyped, ThreadEntry
<1> QED
  BY <1>1, <1>3, <1>4 DEF LogTyped, ThreadEntry

(* A measured thread has the number of its rows and the newest of them. *)
LEMMA MeasuredFold ==
  ASSUME LogTyped, RowsTyped, Untorn, NEW t \in Threads
  PROVE  /\ Fold(index, Measured(t)) = IF index[t] = None THEN index
                                       ELSE [index EXCEPT ![t] = MeasuredEntry(t)]
         /\ MeasuredEntry(t) \in ThreadEntry
<1>1. Rows(t) = file[t] /\ file[t] \in Seq(Messages)
  BY DEF Untorn, Rows, RowsTyped
<1>2. file[t] # <<>> => Last(file[t]) = file[t][Len(file[t])] /\ file[t][Len(file[t])] \in Messages
                        /\ Len(file[t]) \in 1..Len(file[t])
  BY <1>1 DEF Last
<1>3. /\ Measured(t).op = "stats" /\ Measured(t).thread = t
      /\ Measured(t).count = MeasuredEntry(t).count /\ Measured(t).last = MeasuredEntry(t).last
  BY <1>1, <1>2 DEF Measured, Stats, MeasuredEntry
<1>4. MeasuredEntry(t) = [count |-> MeasuredEntry(t).count, last |-> MeasuredEntry(t).last]
  BY DEF MeasuredEntry
<1>5. MeasuredEntry(t) \in ThreadEntry
  BY <1>1, <1>2 DEF MeasuredEntry, ThreadEntry
<1>6. Fold(index, Measured(t)) = IF index[t] = None THEN index
                                 ELSE [index EXCEPT ![t] = MeasuredEntry(t)]
  BY <1>3, <1>4, Zenon DEF Fold
<1> QED
  BY <1>5, <1>6

LEMMA LoggedMeasured ==
  ASSUME LogTyped, RowsTyped, Untorn, NEW t \in Threads, Logged(Measured(t))
  PROVE  /\ LogTyped' /\ \A u \in Threads \ {t} : index'[u] = index[u]
         /\ index'[t] = IF index[t] = None THEN None ELSE MeasuredEntry(t)
<1>1. logTail' = None /\ index' = Fold(index, Measured(t))
  BY DEF LogTyped, Logged
<1> QED
  BY <1>1, MeasuredFold DEF LogTyped

(***************************************************************************)
(* Who is doing what to a thread.                                          *)
(***************************************************************************)
Roleless(p) ==
  /\ ~(op[p].kind = "append" /\ op[p].step = "stat")
  /\ ~(op[p].kind = "truncate" /\ op[p].step = "stats")
  /\ op[p].kind \notin {"delete", "purge"}
SameRoles ==
  /\ \A t \in Threads : /\ Landed(t)' = Landed(t) /\ (Recounting(t)' <=> Recounting(t))
                        /\ (Deleting(t)' <=> Deleting(t)) /\ (Removing(t)' <=> Removing(t))
  /\ Purging' <=> Purging

LEMMA RolelessSame ==
  ASSUME NEW p \in Procs, Others(p), Roleless(p), Roleless(p)'
  PROVE  SameRoles
<1>1. \A t \in Threads : Landed(t)' = Landed(t)
  BY DEF Others, Roleless, Landed
<1>2. \A t \in Threads : (Recounting(t)' <=> Recounting(t)) /\ (Deleting(t)' <=> Deleting(t))
  BY DEF Others, Roleless, Recounting, Deleting
<1>3. \A t \in Threads : Removing(t)' <=> Removing(t)
  BY DEF Others, Roleless, Removing
<1>4. Purging' <=> Purging
  BY DEF Others, Roleless, Purging
<1> QED
  BY <1>1, <1>2, <1>3, <1>4 DEF SameRoles

(* Nobody works on a thread whose lock is free. *)
LEMMA FreeThread ==
  ASSUME LocksOK, NEW t \in Threads, owner[t] = None
  PROVE  Landed(t) = {} /\ ~Recounting(t) /\ ~Deleting(t)
<1>1. \A q \in Procs : op[q].kind \in Holding => op[q].thread # t
  BY StoreAssumption DEF LocksOK, OwnsItsThread
<1> QED
  BY <1>1 DEF Landed, Recounting, Deleting, Holding

(* Only the holder of its lock works on a thread. *)
LEMMA OwnThread ==
  ASSUME LocksOK, NEW p \in Procs, op[p].kind \in Holding
  PROVE  /\ Landed(op[p].thread) = IF op[p].kind = "append" /\ op[p].step = "stat"
                                   THEN {op[p].message} ELSE {}
         /\ Recounting(op[p].thread) <=> (op[p].kind = "truncate" /\ op[p].step = "stats")
         /\ Deleting(op[p].thread) <=> op[p].kind = "delete"
<1>1. \A q \in Procs \ {p} : op[q].kind \in Holding => op[q].thread # op[p].thread
  BY DEF LocksOK, OwnsItsThread
<1> QED
  BY <1>1 DEF Landed, Recounting, Deleting, Holding

(* A step of the holder of t's lock, to which no deletion or purge is party. *)
LEMMA OwnStep ==
  ASSUME LocksOK, NEW p \in Procs, Others(p), op[p].kind \in {"append", "truncate"},
         op'[p].kind \in {"idle", "append", "truncate"},
         op'[p].kind # "idle" => op'[p].thread = op[p].thread
  PROVE  /\ \A u \in Threads \ {op[p].thread} :
              /\ Landed(u)' = Landed(u) /\ (Recounting(u)' <=> Recounting(u))
         /\ \A u \in Threads : (Deleting(u)' <=> Deleting(u)) /\ (Removing(u)' <=> Removing(u))
         /\ Purging' <=> Purging
         /\ \A t : t = op[p].thread =>
              /\ Landed(t)' = IF op'[p].kind = "append" /\ op'[p].step = "stat" THEN {op'[p].message} ELSE {}
              /\ Recounting(t)' <=> (op'[p].kind = "truncate" /\ op'[p].step = "stats")
<1>1. \A q \in Procs \ {p} : op'[q] = op[q] /\ (op[q].kind \in Holding => op[q].thread # op[p].thread)
  BY DEF LocksOK, OwnsItsThread, Others, Holding
<1>2. ASSUME NEW u \in Threads \ {op[p].thread}
      PROVE  Landed(u)' = Landed(u) /\ (Recounting(u)' <=> Recounting(u))
  BY <1>1, <1>2 DEF Landed, Recounting
<1>3. ASSUME NEW u \in Threads
      PROVE  (Deleting(u)' <=> Deleting(u)) /\ (Removing(u)' <=> Removing(u))
  BY <1>1 DEF Deleting, Removing
<1>4. Purging' <=> Purging
  BY <1>1 DEF Purging
<1>5. ASSUME NEW t, t = op[p].thread
      PROVE  /\ Landed(t)' = IF op'[p].kind = "append" /\ op'[p].step = "stat" THEN {op'[p].message} ELSE {}
             /\ Recounting(t)' <=> (op'[p].kind = "truncate" /\ op'[p].step = "stats")
  BY <1>1, <1>5 DEF Landed, Recounting, Holding
<1> QED
  BY <1>2, <1>3, <1>4, <1>5

(* A writer is alone: everybody else is idle. *)
LEMMA WriterAlone ==
  ASSUME LocksOK, LifecycleOK, NEW p \in Procs, op[p].kind \in {"delete", "purge"}
  PROVE  \A q \in Procs \ {p} : op[q].kind = "idle"
<1>1. \A q \in Procs : op[q].kind \notin Reading
  BY NoWriterBeside
<1>2. \A q \in Procs \ {p} : op[q].kind \notin {"delete", "purge"}
  BY DEF LifecycleOK
<1>3. \A q \in Procs : op[q].kind \in Holding \cup {"idle", "purge", "list", "search"}
  BY DEF LocksOK, OpTyped, OpRecord
<1> QED
  BY <1>1, <1>2, <1>3 DEF Reading, Holding

(* While there is no writer nothing is being removed. *)
LEMMA NoWriterNoRemoval ==
  ASSUME LifecycleOK, writer = None
  PROVE  ~Purging /\ \A t \in Threads : ~Removing(t) /\ ~Deleting(t)
<1>1. \A q \in Procs : op[q].kind \notin {"delete", "purge"}
  BY StoreAssumption DEF LifecycleOK
<1> QED
  BY <1>1 DEF Purging, Removing, Deleting

LEMMA LogQuiet ==
  ASSUME LogOK, NEW p \in Procs, Others(p), Roleless(p), Roleless(p)',
         op'[p].kind = "append" => index[op'[p].thread] # None,
         index' = index, logTail' = logTail, file' = file, removed' = removed, truncated' = truncated
  PROVE  LogOK'
<1>1. SameRoles
  BY RolelessSame
<1>2. LogTyped' /\ RemovedTyped'
  BY DEF LogOK, LogTyped, RemovedTyped
<1>3. DeadEmpty' /\ RemovedGone'
  BY <1>1 DEF LogOK, DeadEmpty, RemovedGone, SameRoles, RemovedTyped
<1>4. AppendLive'
  BY DEF LogOK, AppendLive, Others
<1>5. LogGone' /\ LandedLast'
  BY DEF LogOK, LogGone, LandedLast, Others, Roleless
<1>6. \A t \in Threads : Counted(t)'
  BY <1>1 DEF LogOK, Counted, SameRoles, Exact, MeasuredEntry
<1> QED
  BY <1>2, <1>3, <1>4, <1>5, <1>6 DEF LogOK

LEMMA LogAppendRow ==
  ASSUME LocksOK, RowsOK, LifecycleOK, AckedOK, LogOK, NEW p \in Procs, AppendRow(p), Others(p)
  PROVE  LogOK'
<1>0. op[p].thread \in Threads /\ op[p].message \in Messages
  BY DEF AppendRow, At, LocksOK, OwnsItsThread, Holding, RowsOK, OpFits
<1> SUFFICES ASSUME NEW t \in Threads, t = op[p].thread, NEW m \in Messages, m = op[p].message
             PROVE  LogOK'
  BY <1>0
<1>1. /\ t \in Threads /\ m \in Messages /\ op[p].kind = "append" /\ op[p].step = "row"
      /\ file[t] \in Seq(Messages) /\ fileTail[t] = None /\ index[t] # None
  BY DEF AppendRow, At, LocksOK, OwnsItsThread, Holding, RowsOK, OpFits, RowsTyped, AckedOK, Untorn,
         LogOK, AppendLive
<1>2. file'[t] = Append(file[t], m) /\ \A u \in Threads \ {t} : file'[u] = file[u]
  BY <1>1 DEF AppendRow, RowAppended, RowsOK, RowsTyped
<1>3. op'[p].kind = "append" /\ op'[p].thread = t /\ op'[p].message = m /\ op'[p].step = "stat"
  BY DEF AppendRow, Goto, LocksOK, OpTyped, OpRecord, At
<1>4. index' = index /\ logTail' = logTail /\ removed' = removed \ {<<t, m>>} /\ truncated' = truncated
  BY DEF AppendRow
<1>5. /\ \A u \in Threads \ {t} : Landed(u)' = Landed(u) /\ (Recounting(u)' <=> Recounting(u))
      /\ \A u \in Threads : Removing(u)' <=> Removing(u)
      /\ Purging' <=> Purging
      /\ Landed(t)' = {m} /\ ~Recounting(t)'
  BY <1>1, <1>3, OwnStep
<1>6. Landed(t) = {} /\ ~Recounting(t)
  BY <1>1, OwnThread DEF Holding
<1>7. Len(file'[t]) = Len(file[t]) + 1 /\ file'[t][Len(file[t]) + 1] = m /\ file'[t] # <<>>
      /\ ToSet(file'[t]) = ToSet(file[t]) \cup {m} /\ Len(file[t]) \in Nat
  BY <1>1, <1>2, AppendToSet
<1>8. LogTyped' /\ RemovedTyped'
  BY <1>4 DEF LogOK, LogTyped, RemovedTyped
<1>9. DeadEmpty'
  BY <1>1, <1>2, <1>4, <1>5 DEF LogOK, DeadEmpty
<1>10. RemovedGone'
  <2> SUFFICES ASSUME NEW a \in removed', a[2] \in ToSet(file'[a[1]]) PROVE Removing(a[1])'
    BY DEF RemovedGone
  <2>1. a \in removed /\ a[1] \in Threads /\ a = <<a[1], a[2]>> /\ a # <<t, m>>
    BY <1>4 DEF LogOK, RemovedTyped
  <2>2. a[2] \in ToSet(file[a[1]])
    BY <1>2, <1>7, <2>1
  <2>3. Removing(a[1])
    BY <2>1, <2>2 DEF LogOK, RemovedGone
  <2> QED
    BY <1>5, <2>1, <2>3
<1>11. AppendLive'
  BY <1>1, <1>3, <1>4 DEF LogOK, AppendLive, Others
<1>12. LogGone'
  BY <1>1, <1>3, NoWriterBeside DEF LogGone, Others, Reading
<1>13. LandedLast'
  <2> SUFFICES ASSUME NEW q \in Procs, op'[q].kind = "append", op'[q].step = "stat"
               PROVE  /\ file'[op'[q].thread] # <<>>
                      /\ op'[q].message = file'[op'[q].thread][Len(file'[op'[q].thread])]
    BY DEF LandedLast
  <2>1. CASE q = p
    BY <1>3, <1>7, <2>1
  <2>2. CASE q # p
    <3>1. op'[q] = op[q]
      BY <2>2 DEF Others
    <3>2. op[q].thread \in Threads \ {t}
      BY <1>1, <2>2, <3>1, OwnerAlone DEF LocksOK, OwnsItsThread, Holding
    <3> QED
      BY <1>2, <3>1, <3>2 DEF LogOK, LandedLast
  <2> QED
    BY <2>1, <2>2
<1>14. ASSUME NEW u \in Threads PROVE Counted(u)'
  <2>1. CASE u # t
    BY <1>2, <1>4, <1>5, <2>1 DEF LogOK, Counted, Exact, MeasuredEntry
  <2>2. CASE u = t
    <3>1. index[t].count \in Nat \cup {None}
      BY <1>1 DEF LogOK, LogTyped, ThreadEntry
    <3>2. Purging \/ index[t].count = None \/ index[t].count = Len(file[t])
      <4>1. MeasuredEntry(t).count = Len(file[t])
        BY DEF MeasuredEntry
      <4>2. Counted(t)
        BY DEF LogOK
      <4> QED
        BY <1>1, <1>6, <4>1, <4>2 DEF Counted, Exact
    <3> QED
      BY <1>4, <1>5, <1>7, <2>2, <3>1, <3>2 DEF Counted
  <2> QED
    BY <2>1, <2>2
<1> QED
  BY <1>8, <1>9, <1>10, <1>11, <1>12, <1>13, <1>14 DEF LogOK

LEMMA LogAppendStat ==
  ASSUME LocksOK, RowsOK, LifecycleOK, AckedOK, LogOK, NEW p \in Procs, AppendStat(p), Others(p)
  PROVE  LogOK'
<1>0. op[p].thread \in Threads /\ op[p].message \in Messages
  BY DEF AppendStat, At, LocksOK, OwnsItsThread, Holding, RowsOK, OpFits
<1> SUFFICES ASSUME NEW t \in Threads, t = op[p].thread, NEW m \in Messages, m = op[p].message
             PROVE  LogOK'
  BY <1>0
<1>1. /\ t \in Threads /\ m \in Messages /\ op[p].kind = "append" /\ op[p].step = "stat"
      /\ index[t] # None /\ file[t] # <<>> /\ m = file[t][Len(file[t])]
  BY DEF AppendStat, At, LocksOK, OwnsItsThread, Holding, RowsOK, OpFits, LogOK, AppendLive, LandedLast
<1>2. file' = file /\ removed' = removed /\ truncated' = truncated /\ Logged(MessageAppended(t, m))
  BY DEF AppendStat
<1>3. op'[p] = Idle
  BY DEF AppendStat, Returns, LocksOK, OpTyped
<1>4. /\ LogTyped' /\ \A u \in Threads \ {t} : index'[u] = index[u]
      /\ index'[t] = [count |-> IF index[t].count = None THEN None ELSE index[t].count + 1, last |-> m]
  BY <1>1, <1>2, LoggedAppended DEF LogOK
<1>5. /\ \A u \in Threads \ {t} : Landed(u)' = Landed(u) /\ (Recounting(u)' <=> Recounting(u))
      /\ \A u \in Threads : Removing(u)' <=> Removing(u)
      /\ Purging' <=> Purging
      /\ Landed(t)' = {} /\ ~Recounting(t)'
  BY <1>1, <1>3, IdleRows, OwnStep
<1>6. Landed(t) = {m} /\ ~Recounting(t)
  BY <1>1, OwnThread DEF Holding
<1>7. \A q \in Procs : op[q].kind \notin {"delete", "purge"}
  BY <1>1, NoWriterBeside DEF Reading
<1>8. index'[t] # None
  <2>1. index'[t] \in ThreadEntry
    BY <1>1, <1>4 DEF LogOK, LogTyped, ThreadEntry
  <2> QED
    BY <2>1, StoreAssumption
<1>9. RemovedTyped' /\ RemovedGone'
  BY <1>2, <1>5 DEF LogOK, RemovedTyped, RemovedGone
<1>10. DeadEmpty'
  BY <1>2, <1>4, <1>5, <1>8 DEF LogOK, DeadEmpty
<1>11. AppendLive' /\ LogGone' /\ LandedLast'
  BY <1>2, <1>3, <1>4, <1>7, <1>8, IdleRows
  DEF LocksOK, OwnsItsThread, Holding, LogOK, AppendLive, LogGone, LandedLast, Others
<1>12. ASSUME NEW u \in Threads PROVE Counted(u)'
  <2>1. CASE u # t
    BY <1>2, <1>4, <1>5, <2>1 DEF LogOK, Counted, Exact, MeasuredEntry
  <2>2. CASE u = t
    <3>1. Purging \/ index[t].count = None \/ index[t].count + 1 = Len(file[t])
      BY <1>1, <1>6 DEF LogOK, Counted
    <3>2. CASE index[t].count = None
      BY <1>4, <2>2, <3>2 DEF Counted
    <3>3. CASE Purging
      BY <1>5, <2>2, <3>3 DEF Counted
    <3>4. CASE index[t].count # None /\ index[t].count + 1 = Len(file[t])
      <4>1. index'[t] = MeasuredEntry(t)'
        BY <1>1, <1>2, <1>4, <3>4 DEF MeasuredEntry
      <4> QED
        BY <1>5, <2>2, <4>1 DEF Counted, Exact
    <3> QED
      BY <3>1, <3>2, <3>3, <3>4
  <2> QED
    BY <2>1, <2>2
<1> QED
  BY <1>4, <1>9, <1>10, <1>11, <1>12 DEF LogOK

LEMMA LogTruncateRewrite ==
  ASSUME LocksOK, RowsOK, LifecycleOK, AckedOK, LogOK, NEW p \in Procs, TruncateRewrite(p), Others(p)
  PROVE  LogOK'
<1>0. op[p].thread \in Threads /\ op[p].kind = "truncate" /\ op[p] \in OpRecord
  BY DEF TruncateRewrite, At, LocksOK, OwnsItsThread, Holding, OpTyped
<1> SUFFICES ASSUME NEW t \in Threads, t = op[p].thread, NEW rows, rows = op[p].rows,
                    NEW kept, kept = Kept(op[p].rows, op[p].message)
             PROVE  LogOK'
  BY <1>0
<1>1. /\ op[p].step = "rewrite" /\ rows = file[t] /\ rows \in Seq(Messages) /\ IsInjective(rows)
      /\ op[p].message \in ToSet(rows)
  BY <1>0 DEF TruncateRewrite, At, AckedOK, OpKeeps, RowsOK, ReadRows, TruncateFound, OpRecord
<1>2. ToSet(kept) \subseteq ToSet(rows) /\ ToSet(rows) \subseteq Messages
  <2>1. ToSet(kept) \subseteq ToSet(rows)
    BY <1>1, KeptRows
  <2>2. ToSet(rows) \subseteq Messages
    BY <1>1 DEF ToSet
  <2> QED
    BY <2>1, <2>2
<1>3. file'[t] = kept /\ \A u \in Threads \ {t} : file'[u] = file[u]
  BY DEF TruncateRewrite, Rewritten, RowsOK, RowsTyped
<1>4. /\ index' = index /\ logTail' = logTail /\ truncated' = truncated \cup {t}
      /\ removed' = removed \cup {<<t, m>> : m \in ToSet(rows) \ ToSet(kept)}
  BY DEF TruncateRewrite
<1>5. op'[p].kind = "truncate" /\ op'[p].thread = t /\ op'[p].step = "stats"
  BY DEF TruncateRewrite, Goto, LocksOK, OpTyped, OpRecord, At
<1>6. /\ \A u \in Threads \ {t} : Landed(u)' = Landed(u) /\ (Recounting(u)' <=> Recounting(u))
      /\ \A u \in Threads : Removing(u)' <=> Removing(u)
      /\ Purging' <=> Purging
      /\ Recounting(t)'
  BY <1>0, <1>5, OwnStep
<1>7. \A u \in Threads : ~Removing(u)
  BY <1>0, NoWriterBeside DEF Removing, Reading
<1>8. index[t] # None
  <2>1. file[t] # <<>>
    BY <1>1, EmptyRows
  <2> QED
    BY <1>7, <2>1 DEF LogOK, DeadEmpty
<1>9. LogTyped' /\ RemovedTyped'
  BY <1>2, <1>4 DEF LogOK, LogTyped, RemovedTyped
<1>10. DeadEmpty'
  BY <1>3, <1>4, <1>6, <1>8 DEF LogOK, DeadEmpty
<1>11. RemovedGone'
  <2> SUFFICES ASSUME NEW a \in removed', a[2] \in ToSet(file'[a[1]]) PROVE FALSE
    BY DEF RemovedGone
  <2>1. CASE a \in removed
    <3>1. a[1] \in Threads /\ a[2] \notin ToSet(file[a[1]])
      BY <1>7, <2>1 DEF LogOK, RemovedTyped, RemovedGone
    <3> QED
      BY <1>1, <1>2, <1>3, <3>1
  <2>2. CASE a \notin removed
    BY <1>3, <1>4, <2>2
  <2> QED
    BY <2>1, <2>2
<1>12. AppendLive' /\ LogGone'
  BY <1>0, <1>4, <1>5, NoWriterBeside DEF LogOK, AppendLive, LogGone, Others, Reading
<1>13. LandedLast'
  <2> SUFFICES ASSUME NEW q \in Procs, op'[q].kind = "append", op'[q].step = "stat"
               PROVE  /\ file'[op'[q].thread] # <<>>
                      /\ op'[q].message = file'[op'[q].thread][Len(file'[op'[q].thread])]
    BY DEF LandedLast
  <2>1. op'[q] = op[q] /\ q # p
    BY <1>5 DEF Others
  <2>2. op[q].thread \in Threads \ {t}
    BY <1>0, <2>1, OwnerAlone DEF LocksOK, OwnsItsThread, Holding
  <2> QED
    BY <1>3, <2>1, <2>2 DEF LogOK, LandedLast
<1>14. ASSUME NEW u \in Threads PROVE Counted(u)'
  <2>1. CASE u # t
    BY <1>3, <1>4, <1>6, <2>1 DEF LogOK, Counted, Exact, MeasuredEntry
  <2>2. CASE u = t
    BY <1>6, <2>2 DEF Counted
  <2> QED
    BY <2>1, <2>2
<1> QED
  BY <1>9, <1>10, <1>11, <1>12, <1>13, <1>14 DEF LogOK

LEMMA LogTruncateStats ==
  ASSUME LocksOK, RowsOK, LifecycleOK, AckedOK, LogOK, NEW p \in Procs, TruncateStats(p), Others(p)
  PROVE  LogOK'
<1>0. op[p].thread \in Threads /\ op[p].kind = "truncate" /\ op[p].step = "stats"
  BY DEF TruncateStats, At, LocksOK, OwnsItsThread, Holding
<1> SUFFICES ASSUME NEW t \in Threads, t = op[p].thread
             PROVE  LogOK'
  BY <1>0
<1>1. file' = file /\ removed' = removed /\ truncated' = truncated /\ Logged(Measured(t))
  BY DEF TruncateStats, aux
<1>2. op'[p].kind = "truncate" /\ op'[p].thread = t /\ op'[p].step = "evict"
  BY DEF TruncateStats, Goto, LocksOK, OpTyped, OpRecord, At
<1>3. /\ LogTyped' /\ \A u \in Threads \ {t} : index'[u] = index[u]
      /\ index'[t] = IF index[t] = None THEN None ELSE MeasuredEntry(t)
  BY <1>1, LoggedMeasured DEF LogOK, RowsOK, AckedOK
<1>4. /\ \A u \in Threads \ {t} : Landed(u)' = Landed(u) /\ (Recounting(u)' <=> Recounting(u))
      /\ \A u \in Threads : Removing(u)' <=> Removing(u)
      /\ Purging' <=> Purging
      /\ Landed(t)' = {}
  BY <1>0, <1>2, OwnStep
<1>5. \A q \in Procs : op[q].kind \notin {"delete", "purge"}
  BY <1>0, NoWriterBeside DEF Reading
<1>6. \A u \in Threads : index'[u] = None <=> index[u] = None
  <2>1. MeasuredEntry(t) # None
    BY MeasuredFold, StoreAssumption DEF LogOK, RowsOK, AckedOK
  <2> QED
    BY <1>3, <2>1
<1>7. RemovedTyped' /\ RemovedGone' /\ DeadEmpty'
  BY <1>1, <1>4, <1>6 DEF LogOK, RemovedTyped, RemovedGone, DeadEmpty
<1>8. AppendLive' /\ LogGone' /\ LandedLast'
  BY <1>1, <1>2, <1>5, <1>6 DEF LocksOK, OwnsItsThread, Holding, LogOK, AppendLive, LogGone, LandedLast, Others
<1>9. ASSUME NEW u \in Threads PROVE Counted(u)'
  <2>1. CASE u # t
    BY <1>1, <1>3, <1>4, <2>1 DEF LogOK, Counted, Exact, MeasuredEntry
  <2>2. CASE u = t
    <3>1. MeasuredEntry(t)' = MeasuredEntry(t)
      BY <1>1 DEF MeasuredEntry
    <3> QED
      BY <1>3, <1>4, <2>2, <3>1 DEF Counted, Exact
  <2> QED
    BY <2>1, <2>2
<1> QED
  BY <1>3, <1>7, <1>8, <1>9 DEF LogOK

(* The log is repaired by a listing. *)
LEMMA LogListRepair ==
  ASSUME LocksOK, RowsOK, LifecycleOK, AckedOK, LogOK, NEW p \in Procs, NEW t \in Threads,
         ListRepair(p, t), Others(p)
  PROVE  LogOK'
<1>0. op[p].kind = "list" /\ op'[p].kind = "list" /\ owner[t] = None /\ op[p] \in OpRecord
  BY DEF ListRepair, At, LocksOK, OpTyped, OpRecord
<1>1. file' = file /\ removed' = removed /\ truncated' = truncated
  BY DEF ListRepair, aux
<1>2. SameRoles
  BY <1>0, RolelessSame DEF Roleless
<1>3. CASE t \notin Unmeasured
  BY <1>0, <1>1, <1>3, LogQuiet DEF ListRepair, Roleless
<1>4. CASE t \in Unmeasured
  <2>1. /\ LogTyped' /\ \A u \in Threads \ {t} : index'[u] = index[u]
        /\ index'[t] = IF index[t] = None THEN None ELSE MeasuredEntry(t)
    BY <1>4, LoggedMeasured DEF ListRepair, LogOK, RowsOK, AckedOK
  <2>2. \A u \in Threads : index'[u] = None <=> index[u] = None
    <3>1. MeasuredEntry(t) # None
      BY MeasuredFold, StoreAssumption DEF LogOK, RowsOK, AckedOK
    <3> QED
      BY <2>1, <3>1
  <2>3. RemovedTyped' /\ RemovedGone' /\ DeadEmpty'
    BY <1>1, <1>2, <2>2 DEF LogOK, RemovedTyped, RemovedGone, DeadEmpty, SameRoles
  <2>4. AppendLive' /\ LogGone' /\ LandedLast'
    BY <1>0, <1>1, <2>2 DEF LocksOK, OwnsItsThread, Holding, LogOK, AppendLive, LogGone, LandedLast, Others
  <2>5. Landed(t)' = {}
    BY <1>0, <1>2, FreeThread DEF SameRoles
  <2>6. ASSUME NEW u \in Threads PROVE Counted(u)'
    <3>1. CASE u # t
      BY <1>1, <1>2, <2>1, <3>1 DEF LogOK, Counted, Exact, MeasuredEntry, SameRoles
    <3>2. CASE u = t
      <4>1. MeasuredEntry(t)' = MeasuredEntry(t)
        BY <1>1 DEF MeasuredEntry
      <4> QED
        BY <2>1, <2>5, <3>2, <4>1 DEF Counted, Exact
    <3> QED
      BY <3>1, <3>2
  <2> QED
    BY <2>1, <2>3, <2>4, <2>6 DEF LogOK
<1> QED
  BY <1>3, <1>4

LEMMA LogUpsert ==
  ASSUME LocksOK, LifecycleOK, LogOK, NEW t \in Threads, EnsureThread(t) \/ UpdateThread(t)
  PROVE  LogOK'
<1>1. UNCHANGED <<file, removed, truncated, op>> /\ Logged(Upsert(t)) /\ writer = None
  BY DEF EnsureThread, UpdateThread, aux, CanRead
<1>2. /\ LogTyped' /\ \A u \in Threads \ {t} : index'[u] = index[u]
      /\ index'[t] = IF index[t] = None THEN [count |-> None, last |-> None] ELSE index[t]
  BY <1>1, LoggedUpsert DEF LogOK
<1>3. SameRoles
  BY <1>1 DEF SameRoles, Landed, Recounting, Deleting, Removing, Purging
<1>4. index'[t] # None
  <2>1. [count |-> None, last |-> None] \in ThreadEntry
    BY DEF ThreadEntry
  <2> QED
    BY <1>2, <2>1, StoreAssumption
<1>5. RemovedTyped' /\ RemovedGone' /\ DeadEmpty'
  BY <1>1, <1>2, <1>3, <1>4 DEF LogOK, RemovedTyped, RemovedGone, DeadEmpty, SameRoles
<1>6. AppendLive' /\ LandedLast'
  BY <1>1, <1>2, <1>4 DEF LocksOK, OwnsItsThread, Holding, LogOK, AppendLive, LandedLast
<1>7. LogGone'
  BY <1>1, StoreAssumption DEF LogGone, LifecycleOK
<1>8. \A u \in Threads : Counted(u)'
  BY <1>1, <1>2, <1>3 DEF LogOK, Counted, Exact, MeasuredEntry, SameRoles
<1> QED
  BY <1>2, <1>5, <1>6, <1>7, <1>8 DEF LogOK

(* Before and after a step of the only operation there is, a removal or none. *)
LEMMA AloneRoles ==
  ASSUME NEW p \in Procs, \A q \in Procs \ {p} : op[q].kind = "idle",
         op[p].kind \in {"idle", "delete", "purge"}
  PROVE  /\ \A t \in Threads :
              /\ Landed(t) = {} /\ ~Recounting(t)
              /\ Removing(t) <=> \/ op[p].kind = "delete" /\ op[p].step = "remove" /\ op[p].thread = t
                                 \/ op[p].kind = "purge" /\ t \in op[p].todo
         /\ Purging <=> op[p].kind = "purge"
  BY DEF Landed, Recounting, Removing, Purging

LEMMA AloneRolesNext ==
  ASSUME NEW p \in Procs, \A q \in Procs \ {p} : op'[q].kind = "idle",
         op'[p].kind \in {"idle", "delete", "purge"}
  PROVE  /\ \A t \in Threads :
              /\ Landed(t)' = {} /\ ~Recounting(t)'
              /\ Removing(t)' <=> \/ op'[p].kind = "delete" /\ op'[p].step = "remove" /\ op'[p].thread = t
                                  \/ op'[p].kind = "purge" /\ t \in op'[p].todo
         /\ Purging' <=> op'[p].kind = "purge"
         /\ AppendLive' /\ LandedLast'
  BY DEF Landed, Recounting, Removing, Purging, AppendLive, LandedLast

LEMMA NobodyThere ==
  ASSUME LocksOK, LifecycleOK, CanWrite
  PROVE  \A q \in Procs : op[q].kind = "idle"
<1>1. \A q \in Procs : op[q].kind \notin Reading \cup {"delete", "purge"}
  BY StoreAssumption DEF CanWrite, LifecycleOK
<1>2. \A q \in Procs : op[q].kind \in Holding \cup {"idle", "purge", "list", "search"}
  BY DEF LocksOK, OpTyped, OpRecord
<1> QED
  BY <1>1, <1>2 DEF Reading, Holding

LEMMA LogDeleteBegin ==
  ASSUME LocksOK, RowsOK, LifecycleOK, AckedOK, LogOK, NEW p \in Procs, NEW t \in Threads,
         DeleteBegin(p, t)
  PROVE  LogOK'
<1> DEFINE new == Begun("delete", "remove", t, None)
<1>1. new.kind = "delete" /\ new.step = "remove" /\ new.thread = t
  BY BegunTyped DEF Holding
<1>2. op' = [op EXCEPT ![p] = new] /\ Logged(Delete(t)) /\ file' = file /\ truncated' = truncated
      /\ removed' = removed \cup {<<t, m>> : m \in RowSet(t)} /\ CanWrite
  BY DEF DeleteBegin
<1> HIDE DEF new
<1>3. op'[p] = new /\ \A q \in Procs \ {p} : op'[q] = op[q]
  BY <1>2 DEF LocksOK, OpTyped
<1>4. \A q \in Procs : op[q].kind = "idle"
  BY <1>2, NobodyThere
<1>5. /\ LogTyped' /\ \A u \in Threads \ {t} : index'[u] = index[u]
      /\ index'[t] = None
  BY <1>2, LoggedDelete DEF LogOK
<1>6. (\A u \in Threads : Landed(u) = {} /\ ~Recounting(u) /\ ~Removing(u)) /\ ~Purging
  BY <1>4, AloneRoles
<1>7. /\ \A u \in Threads : Landed(u)' = {} /\ ~Recounting(u)' /\ (Removing(u)' <=> u = t)
      /\ ~Purging' /\ AppendLive' /\ LandedLast'
  BY <1>1, <1>3, <1>4, AloneRolesNext
<1>8. RowSet(t) \subseteq Messages
  BY RowsInMessages DEF RowSet, ToSet, RowsOK
<1>9. RemovedTyped'
  BY <1>2, <1>8 DEF LogOK, RemovedTyped
<1>10. RemovedGone'
  <2> SUFFICES ASSUME NEW a \in removed', a[2] \in ToSet(file[a[1]]), a[1] # t PROVE FALSE
    BY <1>2, <1>7, <1>9 DEF RemovedGone, RemovedTyped
  <2>1. a \in removed /\ a[1] \in Threads
    BY <1>2 DEF LogOK, RemovedTyped
  <2> QED
    BY <1>6, <2>1 DEF LogOK, RemovedGone
<1>11. DeadEmpty'
  BY <1>2, <1>5, <1>6, <1>7 DEF LogOK, DeadEmpty
<1>12. LogGone'
  BY <1>1, <1>3, <1>4, <1>5 DEF LogGone
<1>13. \A u \in Threads : Counted(u)'
  BY <1>2, <1>5, <1>6, <1>7 DEF LogOK, Counted, Exact, MeasuredEntry
<1> QED
  BY <1>5, <1>7, <1>9, <1>10, <1>11, <1>12, <1>13 DEF LogOK

LEMMA LogDeleteRemove ==
  ASSUME LocksOK, RowsOK, LifecycleOK, LogOK, NEW p \in Procs, DeleteRemove(p), Others(p)
  PROVE  LogOK'
<1>0. op[p].thread \in Threads /\ op[p].kind = "delete" /\ op[p].step = "remove"
  BY DEF DeleteRemove, At, LocksOK, OwnsItsThread, Holding
<1> SUFFICES ASSUME NEW t \in Threads, t = op[p].thread PROVE LogOK'
  BY <1>0
<1>1. /\ index' = index /\ logTail' = logTail /\ removed' = removed /\ truncated' = truncated
      /\ file'[t] = <<>> /\ \A u \in Threads \ {t} : file'[u] = file[u]
  BY DEF DeleteRemove, Rewritten, RowsOK, RowsTyped, aux
<1>2. op'[p].kind = "delete" /\ op'[p].thread = t /\ op'[p].step = "evict"
  BY DEF DeleteRemove, Goto, LocksOK, OpTyped, OpRecord, At
<1>3. \A q \in Procs \ {p} : op[q].kind = "idle" /\ op'[q].kind = "idle"
  BY <1>0, WriterAlone DEF Others
<1>4. (\A u \in Threads : Landed(u) = {} /\ ~Recounting(u) /\ (Removing(u) <=> u = t)) /\ ~Purging
  BY <1>0, <1>3, AloneRoles
<1>5. /\ \A u \in Threads : Landed(u)' = {} /\ ~Recounting(u)' /\ ~Removing(u)'
      /\ ~Purging' /\ AppendLive' /\ LandedLast'
  BY <1>2, <1>3, AloneRolesNext
<1>6. LogTyped' /\ RemovedTyped'
  BY <1>1 DEF LogOK, LogTyped, RemovedTyped
<1>7. DeadEmpty'
  BY <1>1, <1>4, <1>5 DEF LogOK, DeadEmpty
<1>8. RemovedGone'
  <2> SUFFICES ASSUME NEW a \in removed', a[2] \in ToSet(file'[a[1]]) PROVE FALSE
    BY DEF RemovedGone
  <2>1. a \in removed /\ a[1] \in Threads
    BY <1>1 DEF LogOK, RemovedTyped
  <2> QED
    BY <1>1, <1>4, <2>1, EmptyRows DEF LogOK, RemovedGone
<1>9. index[t] = None
  BY <1>0 DEF LogOK, LogGone
<1>10. LogGone'
  BY <1>1, <1>2, <1>3, <1>9 DEF LogGone
<1>11. \A u \in Threads : Counted(u)'
  BY <1>1, <1>4, <1>5, <1>9 DEF LogOK, Counted, Exact, MeasuredEntry
<1> QED
  BY <1>5, <1>6, <1>7, <1>8, <1>10, <1>11 DEF LogOK

LEMMA LogDeleteEvict ==
  ASSUME LocksOK, LifecycleOK, LogOK, NEW p \in Procs, DeleteEvict(p), Others(p)
  PROVE  LogOK'
<1>0. op[p].kind = "delete" /\ op[p].step = "evict"
  BY DEF DeleteEvict, At
<1>1. /\ index' = index /\ logTail' = logTail /\ removed' = removed /\ truncated' = truncated
      /\ file' = file
  BY DEF DeleteEvict, disk, aux
<1>2. op'[p].kind = "idle"
  BY IdleRows DEF DeleteEvict, Returns, LocksOK, OpTyped
<1>3. \A q \in Procs \ {p} : op[q].kind = "idle" /\ op'[q].kind = "idle"
  BY <1>0, WriterAlone DEF Others
<1>4. (\A u \in Threads : Landed(u) = {} /\ ~Recounting(u) /\ ~Removing(u)) /\ ~Purging
  BY <1>0, <1>3, AloneRoles
<1>5. /\ \A u \in Threads : Landed(u)' = {} /\ ~Recounting(u)' /\ ~Removing(u)'
      /\ ~Purging' /\ AppendLive' /\ LandedLast'
  BY <1>2, <1>3, AloneRolesNext
<1>6. LogTyped' /\ RemovedTyped' /\ LogGone'
  BY <1>1, <1>2, <1>3 DEF LogOK, LogTyped, RemovedTyped, LogGone
<1>7. DeadEmpty' /\ RemovedGone'
  BY <1>1, <1>4, <1>5 DEF LogOK, DeadEmpty, RemovedGone, RemovedTyped
<1>8. \A u \in Threads : Counted(u)'
  BY <1>1, <1>4, <1>5 DEF LogOK, Counted, Exact, MeasuredEntry
<1> QED
  BY <1>5, <1>6, <1>7, <1>8 DEF LogOK

LEMMA LogPurgeBegin ==
  ASSUME LocksOK, RowsOK, LifecycleOK, AckedOK, LogOK, NEW p \in Procs, PurgeBegin(p)
  PROVE  LogOK'
<1> DEFINE b == Begun("purge", "remove", None, None)
           new == [b EXCEPT !.todo = Threads \cup {"log"}]
<1>1. b \in OpRecord /\ b.kind = "purge"
  BY BegunTyped DEF Holding
<1>2. op' = [op EXCEPT ![p] = new] /\ file' = file /\ truncated' = truncated /\ CanWrite
      /\ removed' = removed \cup {a \in Threads \X Messages : a[2] \in RowSet(a[1])}
  BY DEF PurgeBegin
<1> HIDE DEF b
<1>3. new.kind = "purge" /\ new.todo = Threads \cup {"log"}
  BY <1>1 DEF OpRecord
<1> HIDE DEF new
<1>4. op'[p] = new /\ \A q \in Procs \ {p} : op'[q] = op[q]
  BY <1>2 DEF LocksOK, OpTyped
<1>5. \A q \in Procs : op[q].kind = "idle"
  BY <1>2, NobodyThere
<1>6. /\ \A u \in Threads : Removing(u)'
      /\ Purging' /\ AppendLive' /\ LandedLast'
  BY <1>3, <1>4, <1>5, AloneRolesNext
<1>7. LogTyped'
  <2>1. CASE Unmeasured = {}
    BY <2>1 DEF PurgeBegin, LogOK, LogTyped
  <2>2. CASE Unmeasured # {}
    <3>1. PICK lost \in SUBSET Unmeasured :
            /\ index' = [t \in Threads |-> IF t \in Unmeasured \ lost
                                           THEN Fold(index, Measured(t))[t] ELSE index[t]]
            /\ logTail' = None
      BY <2>2 DEF PurgeBegin
    <3>2. \A t \in Threads : Fold(index, Measured(t))[t] \in {None} \cup ThreadEntry
                             /\ index[t] \in {None} \cup ThreadEntry
      BY MeasuredFold DEF LogOK, LogTyped, RowsOK, AckedOK
    <3> QED
      BY <3>1, <3>2 DEF LogTyped
  <2> QED
    BY <2>1, <2>2
<1>8. RemovedTyped' /\ RemovedGone' /\ DeadEmpty'
  BY <1>2, <1>6 DEF LogOK, RemovedTyped, RemovedGone, DeadEmpty
<1>9. LogGone'
  BY <1>3, <1>4, <1>5 DEF LogGone
<1>10. \A u \in Threads : Counted(u)'
  BY <1>6 DEF Counted
<1> QED
  BY <1>6, <1>7, <1>8, <1>9, <1>10 DEF LogOK

LEMMA LogPurgeRemove ==
  ASSUME LocksOK, RowsOK, LifecycleOK, LogOK, NEW p \in Procs, NEW x \in Threads \cup {"log"},
         PurgeRemove(p, x), Others(p)
  PROVE  LogOK'
<1>0. op[p].kind = "purge" /\ op[p] \in OpRecord
  BY DEF PurgeRemove, At, LocksOK, OpTyped
<1>1. removed' = removed /\ truncated' = truncated
  BY DEF PurgeRemove, aux
<1>2. op'[p].kind = "purge" /\ op'[p].todo = op[p].todo \ {x}
  BY <1>0 DEF PurgeRemove, LocksOK, OpTyped, OpRecord
<1>3. \A q \in Procs \ {p} : op[q].kind = "idle" /\ op'[q].kind = "idle"
  BY <1>0, WriterAlone DEF Others
<1>4. \A u \in Threads : Removing(u) <=> u \in op[p].todo
  BY <1>0, <1>3, AloneRoles
<1>5. /\ \A u \in Threads : Removing(u)' <=> u \in op[p].todo \ {x}
      /\ Purging' /\ AppendLive' /\ LandedLast'
  BY <1>2, <1>3, AloneRolesNext
<1>6. \A u \in Threads : Counted(u)'
  BY <1>5 DEF Counted
<1>7. RemovedTyped'
  BY <1>1 DEF LogOK, RemovedTyped
<1>8. CASE x = "log"
  <2>1. file' = file /\ index' = [t \in Threads |-> None] /\ logTail' = None /\ x \notin Threads
    BY <1>8, StoreAssumption DEF PurgeRemove
  <2>2. LogTyped' /\ LogGone'
    BY <1>0, <1>2, <1>3, <2>1 DEF LogOK, LogTyped, LogGone
  <2>3. RemovedGone'
    BY <1>1, <1>4, <1>5, <2>1 DEF LogOK, RemovedGone, RemovedTyped
  <2>4. DeadEmpty'
    <3> SUFFICES ASSUME NEW u \in Threads, u \notin op[p].todo PROVE file[u] = <<>>
      BY <1>5, <2>1 DEF DeadEmpty
    <3> QED
      BY <1>0 DEF LogOK, LogGone
  <2> QED
    BY <1>5, <1>6, <1>7, <2>2, <2>3, <2>4 DEF LogOK
<1>9. CASE x # "log"
  <2>1. index' = index /\ logTail' = logTail /\ file'[x] = <<>> /\ x \in Threads
        /\ \A u \in Threads \ {x} : file'[u] = file[u]
    BY <1>9 DEF PurgeRemove, Rewritten, RowsOK, RowsTyped
  <2>2. LogTyped' /\ LogGone'
    BY <1>0, <1>2, <1>3, <1>9, <2>1 DEF LogOK, LogTyped, LogGone
  <2>3. RemovedGone'
    BY <1>1, <1>4, <1>5, <2>1, EmptyRows DEF LogOK, RemovedGone, RemovedTyped
  <2>4. DeadEmpty'
    BY <1>4, <1>5, <2>1 DEF LogOK, DeadEmpty
  <2> QED
    BY <1>5, <1>6, <1>7, <2>2, <2>3, <2>4 DEF LogOK
<1> QED
  BY <1>8, <1>9

LEMMA LogPurgeFinish ==
  ASSUME LocksOK, LifecycleOK, LogOK, NEW p \in Procs, PurgeFinish(p), Others(p)
  PROVE  LogOK'
<1>0. op[p].kind = "purge" /\ op[p].todo = {}
  BY DEF PurgeFinish, At
<1>1. /\ index' = index /\ logTail' = logTail /\ removed' = removed /\ truncated' = truncated
      /\ file' = file
  BY DEF PurgeFinish, disk, aux
<1>2. op'[p].kind = "idle"
  BY IdleRows DEF PurgeFinish, Returns, LocksOK, OpTyped
<1>3. \A q \in Procs \ {p} : op[q].kind = "idle" /\ op'[q].kind = "idle"
  BY <1>0, WriterAlone DEF Others
<1>4. \A u \in Threads : ~Removing(u)
  BY <1>0, <1>3, AloneRoles
<1>5. /\ \A u \in Threads : ~Removing(u)'
      /\ AppendLive' /\ LandedLast'
  BY <1>2, <1>3, AloneRolesNext
<1>6. LogTyped' /\ RemovedTyped' /\ LogGone'
  BY <1>1, <1>2, <1>3 DEF LogOK, LogTyped, RemovedTyped, LogGone
<1>7. DeadEmpty' /\ RemovedGone'
  BY <1>1, <1>4, <1>5 DEF LogOK, DeadEmpty, RemovedGone, RemovedTyped
<1>8. \A u \in Threads : Counted(u)'
  BY <1>0, <1>1 DEF LogOK, LogGone, Counted
<1> QED
  BY <1>5, <1>6, <1>7, <1>8 DEF LogOK

(* An operation begins that is no append and no removal. *)
LEMMA LogBegin ==
  ASSUME LocksOK, RowsOK, LifecycleOK, AckedOK, LogOK, NEW p \in Procs, Begin(p)
  PROVE  LogOK'
<1>0. Roleless(p) /\ Index = index
  <2>1. CASE op[p] = Idle
    BY <2>1, IdleRows DEF Roleless, Index, LogOK, LogTyped
  <2> QED
    BY <2>1 DEF Begin, AppendBegin, TruncateRead, UpdateRead, DeleteBegin, PurgeBegin, ListBegin,
                SearchBegin
<1>1. ASSUME NEW new, op' = [op EXCEPT ![p] = new], new.kind \notin {"delete", "purge"},
             new.step \notin {"stat", "stats"}, new.kind = "append" => index[new.thread] # None,
             index' = index, logTail' = logTail, file' = file, removed' = removed,
             truncated' = truncated
      PROVE  LogOK'
  <2>1. op'[p] = new /\ Others(p)
    BY <1>1 DEF LocksOK, OpTyped, Others
  <2> QED
    BY <1>0, <1>1, <2>1, LogQuiet DEF Roleless
<1>2. ASSUME NEW t \in Threads, NEW m \in Messages, AppendBegin(p, t, m)
      PROVE  LogOK'
  <2> DEFINE new == Begun("append", "row", t, m)
  <2>1. new.kind = "append" /\ new.step = "row" /\ new.thread = t
    BY BegunTyped DEF Holding
  <2>2. op' = [op EXCEPT ![p] = new] /\ index[t] # None /\ index' = index /\ logTail' = logTail
        /\ file' = file /\ removed' = removed /\ truncated' = truncated
    BY <1>0, <1>2 DEF AppendBegin, disk, Live
  <2> HIDE DEF new
  <2> QED
    BY <1>1, <2>1, <2>2
<1>3. ASSUME NEW t \in Threads, NEW m \in Messages, TruncateRead(p, t, m)
      PROVE  LogOK'
  <2> DEFINE b == Begun("truncate", "rewrite", t, m)
             new == [b EXCEPT !.rows = Rows(t)]
  <2>1. b \in OpRecord /\ b.kind = "truncate" /\ b.step = "rewrite"
    BY BegunTyped DEF Holding
  <2>2. op' = [op EXCEPT ![p] = new] /\ index' = index /\ logTail' = logTail
        /\ file' = file /\ removed' = removed /\ truncated' = truncated
    BY <1>3 DEF TruncateRead, disk, aux
  <2> HIDE DEF b
  <2>3. new.kind = "truncate" /\ new.step = "rewrite"
    BY <2>1 DEF OpRecord
  <2> HIDE DEF new
  <2> QED
    BY <1>1, <2>2, <2>3
<1>4. ASSUME NEW t \in Threads, UpdateRead(p, t)
      PROVE  LogOK'
  <2> DEFINE b == Begun("patch", "rewrite", t, None)
             new == [b EXCEPT !.rows = Rows(t)]
  <2>1. b \in OpRecord /\ b.kind = "patch" /\ b.step = "rewrite"
    BY BegunTyped DEF Holding
  <2>2. op' = [op EXCEPT ![p] = new] /\ index' = index /\ logTail' = logTail
        /\ file' = file /\ removed' = removed /\ truncated' = truncated
    BY <1>4 DEF UpdateRead, disk, aux
  <2> HIDE DEF b
  <2>3. new.kind = "patch" /\ new.step = "rewrite"
    BY <2>1 DEF OpRecord
  <2> HIDE DEF new
  <2> QED
    BY <1>1, <2>2, <2>3
<1>5. CASE ListBegin(p)
  <2> DEFINE new == Begun("list", "snapshot", None, None)
  <2>1. new.kind = "list" /\ new.step = "snapshot"
    BY BegunTyped DEF Holding
  <2>2. op' = [op EXCEPT ![p] = new] /\ index' = index /\ logTail' = logTail
        /\ file' = file /\ removed' = removed /\ truncated' = truncated
    BY <1>5 DEF ListBegin, disk, aux
  <2> HIDE DEF new
  <2> QED
    BY <1>1, <2>1, <2>2
<1>6. CASE SearchBegin(p)
  <2> DEFINE step == IF cache = None THEN "build" ELSE "query"
             new == Begun("search", step, None, None)
  <2>1. new.kind = "search" /\ new.step \in {"build", "query"}
    BY BegunTyped DEF Holding
  <2>2. op' = [op EXCEPT ![p] = new] /\ index' = index /\ logTail' = logTail
        /\ file' = file /\ removed' = removed /\ truncated' = truncated
    BY <1>6 DEF SearchBegin, disk, aux
  <2> HIDE DEF new
  <2> QED
    BY <1>1, <2>1, <2>2
<1> QED
  BY <1>2, <1>3, <1>4, <1>5, <1>6, LogDeleteBegin, LogPurgeBegin DEF Begin

(* The steps that change neither the log nor a file, nor the part their operation plays. *)
LEMMA LogStill ==
  ASSUME LocksOK, RowsOK, LogOK, NEW p \in Procs, Others(p), Calm(p),
         op[p].kind \in {"patch", "truncate", "list", "search"}, op[p].step # "stats",
         op'[p].step # "stats",
         index' = index, logTail' = logTail, file' = file, removed' = removed, truncated' = truncated
  PROVE  LogOK'
<1>1. Roleless(p) /\ Roleless(p)' /\ op'[p].kind # "append"
  BY IdleRows DEF Roleless, Calm
<1> QED
  BY <1>1, LogQuiet

LEMMA LogStep ==
  ASSUME LocksOK, RowsOK, LifecycleOK, AckedOK, LogOK, NEW p \in Procs, Step(p)
  PROVE  LogOK'
<1>0. Others(p) /\ Calm(p) /\ op[p] \in OpRecord /\ op \in [Procs -> OpRecord]
  BY OthersKept, StepCalm DEF LocksOK, OpTyped
<1>1. CASE AppendRow(p) \/ AppendStat(p)
  BY <1>0, <1>1, LogAppendRow, LogAppendStat
<1>2. CASE UpdateRewrite(p)
  <2>1. op[p].thread \in Threads /\ op[p].rows = file[op[p].thread] /\ op[p].kind = "patch"
        /\ op[p].step = "rewrite"
    BY <1>2 DEF UpdateRewrite, At, LocksOK, OwnsItsThread, Holding, AckedOK, OpKeeps
  <2>2. file' = file /\ index' = index /\ logTail' = logTail /\ removed' = removed
        /\ truncated' = truncated
    BY <1>2, <2>1 DEF UpdateRewrite, Rewritten, RowsOK, RowsTyped, aux
  <2>3. op'[p] = Idle
    BY <1>2 DEF UpdateRewrite, Returns, LocksOK, OpTyped
  <2> QED
    BY <1>0, <2>1, <2>2, <2>3, IdleRows, LogStill
<1>3. CASE TruncateRewrite(p) \/ TruncateStats(p)
  BY <1>0, <1>3, LogTruncateRewrite, LogTruncateStats
<1>4. CASE DeleteRemove(p) \/ DeleteEvict(p) \/ PurgeFinish(p)
  BY <1>0, <1>4, LogDeleteRemove, LogDeleteEvict, LogPurgeFinish
<1>5. ASSUME NEW x \in Threads \cup {"log"}, PurgeRemove(p, x)
      PROVE  LogOK'
  BY <1>0, <1>5, LogPurgeRemove
<1>6. CASE TruncateEvict(p) \/ ListReturn(p) \/ SearchReturn(p)
  <2>1. /\ op'[p] = Idle /\ op[p].kind \in {"truncate", "list", "search"} /\ op[p].step # "stats"
        /\ file' = file /\ index' = index /\ logTail' = logTail /\ removed' = removed
        /\ truncated' = truncated
    BY <1>0, <1>6 DEF TruncateEvict, ListReturn, SearchReturn, At, Returns, disk, aux
  <2> QED
    BY <1>0, <2>1, IdleRows, LogStill
<1>7. CASE ListSnapshot(p) \/ ListAgain(p) \/ BuildSnapshot(p) \/ BuildPublish(p)
  <2>1. /\ op[p].kind \in {"list", "search"} /\ op[p].step # "stats" /\ op'[p].step # "stats"
        /\ file' = file /\ index' = index /\ logTail' = logTail /\ removed' = removed
        /\ truncated' = truncated
    BY <1>0, <1>7
    DEF ListSnapshot, ListAgain, BuildSnapshot, BuildPublish, At, Goto, OpRecord, disk, aux
  <2> QED
    BY <1>0, <2>1, LogStill
<1> QED
  BY <1>1, <1>2, <1>3, <1>4, <1>5, <1>6, <1>7 DEF Step

LEMMA LogWait ==
  ASSUME LocksOK, RowsOK, LifecycleOK, AckedOK, LogOK, NEW p \in Procs, Wait(p)
  PROVE  LogOK'
<1>0. Others(p) /\ Calm(p) /\ op[p] \in OpRecord /\ op \in [Procs -> OpRecord]
  BY OthersKept, WaitOrFaultCalm DEF LocksOK, OpTyped
<1>1. ASSUME NEW t \in Threads, ListRepair(p, t) PROVE LogOK'
  BY <1>0, <1>1, LogListRepair
<1>2. CASE BuildLock(p)
  <2>1. op'[p].step \in {"query", "snapshot"}
    BY <1>0, <1>2 DEF BuildLock, Goto, OpRecord
  <2>2. /\ op[p].kind = "search" /\ op[p].step # "stats"
        /\ file' = file /\ index' = index /\ logTail' = logTail /\ removed' = removed
        /\ truncated' = truncated
    BY <1>2 DEF BuildLock, At, disk, aux
  <2> QED
    BY <1>0, <2>1, <2>2, LogStill
<1>3. ASSUME NEW t \in Threads, BuildScan(p, t) PROVE LogOK'
  <2>1. op' = [op EXCEPT ![p].todo = @ \ {t}, ![p].built[t] = RowSet(t)] /\ op[p].step = "scan"
        /\ op[p].kind = "search"
    BY <1>3 DEF BuildScan, At
  <2>2. op'[p].step = "scan"
    BY <1>0, <2>1 DEF OpRecord
  <2>3. /\ file' = file /\ index' = index /\ logTail' = logTail /\ removed' = removed
        /\ truncated' = truncated
    BY <1>3 DEF BuildScan, disk, aux
  <2> QED
    BY <1>0, <2>1, <2>2, <2>3, LogStill
<1> QED
  BY <1>1, <1>2, <1>3 DEF Wait

LEMMA LogMutations ==
  ASSUME LocksOK, LifecycleOK, LogOK, Mutations \/ UNCHANGED vars
  PROVE  LogOK'
<1>1. ASSUME NEW t \in Threads, EnsureThread(t) \/ UpdateThread(t) PROVE LogOK'
  BY <1>1, LogUpsert
<1>2. ASSUME UNCHANGED <<index, logTail, file, removed, truncated, op>> PROVE LogOK'
  <2>1. /\ Purging' <=> Purging
        /\ \A t \in Threads : /\ Landed(t)' = Landed(t) /\ (Recounting(t)' <=> Recounting(t))
                             /\ (Removing(t)' <=> Removing(t))
    BY <1>2 DEF Landed, Recounting, Purging, Removing
  <2>2. LogTyped' /\ RemovedTyped' /\ DeadEmpty' /\ RemovedGone'
    <3>1. LogTyped' /\ RemovedTyped'
      BY <1>2 DEF LogOK, LogTyped, RemovedTyped
    <3>2. \A a \in removed : a[1] \in Threads
      BY DEF LogOK, RemovedTyped
    <3> QED
      BY <1>2, <2>1, <3>1, <3>2 DEF LogOK, DeadEmpty, RemovedGone
  <2>3. AppendLive' /\ LogGone' /\ LandedLast'
    BY <1>2 DEF LogOK, AppendLive, LogGone, LandedLast
  <2>4. \A t \in Threads : Counted(t)'
    BY <1>2, <2>1 DEF LogOK, Counted, Exact, MeasuredEntry
  <2> QED
    BY <2>2, <2>3, <2>4 DEF LogOK
<1>3. ASSUME NEW t \in Threads, NEW m \in Minted, AppendExisting(t, m) PROVE LogOK'
  BY <1>2, <1>3 DEF AppendExisting, disk
<1>4. CASE UNCHANGED vars
  BY <1>2, <1>4 DEF vars, disk, aux
<1> QED
  BY <1>1, <1>3, <1>4 DEF Mutations

(***************************************************************************)
(* The search index. A cached index misses of a thread's rows exactly the  *)
(* ones whose append has not reached the cache yet, and a build that has   *)
(* scanned a thread misses only what is journaled or still to be.          *)
(***************************************************************************)
LEMMA PostingsInit == Init => PostingsOK
  BY IdleRows DEF Init, PostingsOK, CacheOK, ScanOK, Building, BuiltTyped, CutMarked

(* Everything an operation that begins leaves alone. *)
LEMMA BeginFresh ==
  ASSUME LocksOK, RowsOK, NEW p \in Procs, Begin(p)
  PROVE  /\ op[p] = Idle /\ Others(p) /\ op'[p].kind \in Kinds
         /\ op'[p].step \notin {"stat", "stats", "evict", "scan"} /\ ~Building(p)'
         /\ file' = file /\ truncated' = truncated /\ cache' = cache /\ journal' = journal
         /\ crashes' = crashes /\ faults' = faults /\ used' \subseteq used \cup Fresh
<1>1. ASSUME NEW new, op' = [op EXCEPT ![p] = new]
      PROVE  op'[p] = new /\ Others(p)
  BY <1>1 DEF LocksOK, OpTyped, Others
<1>2. ASSUME NEW t \in Threads, NEW m \in Messages, AppendBegin(p, t, m)
      PROVE  /\ op[p] = Idle /\ Others(p) /\ op'[p].kind = "append" /\ op'[p].step = "row"
             /\ "append" \in Kinds
  <2> DEFINE new == Begun("append", "row", t, m)
  <2>1. new.kind = "append" /\ new.step = "row"
    BY BegunTyped DEF Holding
  <2>2. op[p] = Idle /\ op' = [op EXCEPT ![p] = new] /\ "append" \in Kinds
    BY <1>2 DEF AppendBegin
  <2> HIDE DEF new
  <2> QED
    BY <1>1, <2>1, <2>2
<1>3. ASSUME NEW t \in Threads, NEW m \in Messages, TruncateRead(p, t, m)
      PROVE  /\ op[p] = Idle /\ Others(p) /\ op'[p].kind = "truncate" /\ op'[p].step = "rewrite"
             /\ "truncate" \in Kinds
  <2> DEFINE b == Begun("truncate", "rewrite", t, m)
  <2>1. b \in OpRecord /\ b.kind = "truncate" /\ b.step = "rewrite"
    BY BegunTyped DEF Holding
  <2>2. op[p] = Idle /\ op' = [op EXCEPT ![p] = [b EXCEPT !.rows = Rows(t)]] /\ "truncate" \in Kinds
    BY <1>3 DEF TruncateRead
  <2> HIDE DEF b
  <2>3. [b EXCEPT !.rows = Rows(t)].kind = "truncate" /\ [b EXCEPT !.rows = Rows(t)].step = "rewrite"
    BY <2>1 DEF OpRecord
  <2> QED
    BY <1>1, <2>2, <2>3
<1>4. ASSUME NEW t \in Threads, UpdateRead(p, t)
      PROVE  /\ op[p] = Idle /\ Others(p) /\ op'[p].kind = "patch" /\ op'[p].step = "rewrite"
             /\ "patch" \in Kinds
  <2> DEFINE b == Begun("patch", "rewrite", t, None)
  <2>1. b \in OpRecord /\ b.kind = "patch" /\ b.step = "rewrite"
    BY BegunTyped DEF Holding
  <2>2. op[p] = Idle /\ op' = [op EXCEPT ![p] = [b EXCEPT !.rows = Rows(t)]] /\ "patch" \in Kinds
    BY <1>4 DEF UpdateRead
  <2> HIDE DEF b
  <2>3. [b EXCEPT !.rows = Rows(t)].kind = "patch" /\ [b EXCEPT !.rows = Rows(t)].step = "rewrite"
    BY <2>1 DEF OpRecord
  <2> QED
    BY <1>1, <2>2, <2>3
<1>5. ASSUME NEW t \in Threads, DeleteBegin(p, t)
      PROVE  /\ op[p] = Idle /\ Others(p) /\ op'[p].kind = "delete" /\ op'[p].step = "remove"
             /\ "delete" \in Kinds
  <2> DEFINE new == Begun("delete", "remove", t, None)
  <2>1. new.kind = "delete" /\ new.step = "remove"
    BY BegunTyped DEF Holding
  <2>2. op[p] = Idle /\ op' = [op EXCEPT ![p] = new] /\ "delete" \in Kinds
    BY <1>5 DEF DeleteBegin
  <2> HIDE DEF new
  <2> QED
    BY <1>1, <2>1, <2>2
<1>6. CASE PurgeBegin(p)
  <2> DEFINE b == Begun("purge", "remove", None, None)
  <2>1. b \in OpRecord /\ b.kind = "purge" /\ b.step = "remove"
    BY BegunTyped DEF Holding
  <2>2. op[p] = Idle /\ op' = [op EXCEPT ![p] = [b EXCEPT !.todo = Threads \cup {"log"}]]
        /\ "purge" \in Kinds
    BY <1>6 DEF PurgeBegin
  <2> HIDE DEF b
  <2>3. /\ [b EXCEPT !.todo = Threads \cup {"log"}].kind = "purge"
        /\ [b EXCEPT !.todo = Threads \cup {"log"}].step = "remove"
    BY <2>1 DEF OpRecord
  <2>4. /\ op[p] = Idle /\ Others(p) /\ op'[p].kind = "purge" /\ op'[p].step = "remove"
        /\ "purge" \in Kinds
    BY <1>1, <2>2, <2>3
  <2> QED
    BY <1>6, <2>4 DEF PurgeBegin, Building
<1>7. CASE ListBegin(p)
  <2> DEFINE new == Begun("list", "snapshot", None, None)
  <2>1. new.kind = "list" /\ new.step = "snapshot"
    BY BegunTyped DEF Holding
  <2>2. op[p] = Idle /\ op' = [op EXCEPT ![p] = new] /\ "list" \in Kinds
    BY <1>7 DEF ListBegin
  <2> HIDE DEF new
  <2>3. Others(p) /\ op'[p].kind = "list" /\ op'[p].step = "snapshot"
    BY <1>1, <2>1, <2>2
  <2> QED
    BY <1>7, <2>2, <2>3 DEF ListBegin, disk, aux, Building
<1>8. CASE SearchBegin(p)
  <2> DEFINE step == IF cache = None THEN "build" ELSE "query"
             new == Begun("search", step, None, None)
  <2>1. op' = [op EXCEPT ![p] = new] /\ op[p] = Idle /\ "search" \in Kinds
    BY <1>8 DEF SearchBegin
  <2>2. new.kind = "search" /\ new.step \in {"build", "query"}
    BY BegunTyped DEF Holding
  <2> HIDE DEF new
  <2>3. Others(p) /\ op'[p].kind = "search" /\ op'[p].step \in {"build", "query"}
    BY <1>1, <2>1, <2>2
  <2> QED
    BY <1>8, <2>1, <2>3 DEF SearchBegin, disk, aux, Building
<1>9. ASSUME NEW t \in Threads, NEW m \in Messages, AppendBegin(p, t, m) \/ TruncateRead(p, t, m)
      PROVE  /\ file' = file /\ truncated' = truncated /\ cache' = cache /\ journal' = journal
             /\ crashes' = crashes /\ faults' = faults /\ used' \subseteq used \cup Fresh
  BY <1>9 DEF AppendBegin, TruncateRead, disk, aux
<1>10. ASSUME NEW t \in Threads, UpdateRead(p, t) \/ DeleteBegin(p, t)
       PROVE  /\ file' = file /\ truncated' = truncated /\ cache' = cache /\ journal' = journal
              /\ crashes' = crashes /\ faults' = faults /\ used' \subseteq used \cup Fresh
  BY <1>10 DEF UpdateRead, DeleteBegin, disk, aux
<1> QED
  BY <1>2, <1>3, <1>4, <1>5, <1>6, <1>7, <1>8, <1>9, <1>10 DEF Begin, Building

(* Nothing that the index is about changes; a removal may begin. *)
LEMMA PostingsStill ==
  ASSUME PostingsOK, NEW p \in Procs, Others(p), ~Building(p)', op'[p].step # "scan",
         op'[p].kind = "truncate" /\ op'[p].step \in {"stats", "evict"}
           => op'[p].thread \in truncated,
         \A t \in Threads : Landed(t)' = Landed(t) /\ (Deleting(t) => Deleting(t)'),
         Purging => Purging', file' = file, truncated' = truncated, cache' = cache, journal' = journal
  PROVE  PostingsOK'
<1>1. CacheOK'
  BY DEF PostingsOK, CacheOK
<1>2. \A t \in Threads : Journaled(t)' = Journaled(t)
  BY DEF Journaled
<1>3. ScanOK'
  <2> SUFFICES ASSUME NEW q \in Procs, Building(q)', NEW t \in Threads \ truncated
               PROVE  /\ Journaled(t)' \subseteq ToSet(file[t])
                      /\ op'[q].step = "scan" /\ t \notin op'[q].todo
                           => op'[q].built[t] \cup Journaled(t)' \cup Landed(t)' = ToSet(file[t])
    BY DEF ScanOK
  <2>1. op'[q] = op[q]
    BY DEF Others
  <2>2. Building(q)
    BY <2>1 DEF Building
  <2> QED
    BY <1>2, <2>1, <2>2 DEF PostingsOK, ScanOK
<1>4. BuiltTyped' /\ CutMarked'
  BY DEF PostingsOK, BuiltTyped, CutMarked, Others
<1> QED
  BY <1>1, <1>3, <1>4 DEF PostingsOK

LEMMA PostingsBegin ==
  ASSUME LocksOK, RowsOK, PostingsOK, NEW p \in Procs, Begin(p)
  PROVE  PostingsOK'
<1>1. /\ op[p] = Idle /\ Others(p)
      /\ op'[p].step \notin {"stat", "stats", "evict", "scan"} /\ ~Building(p)'
      /\ file' = file /\ truncated' = truncated /\ cache' = cache /\ journal' = journal
  BY BeginFresh
<1>2. op[p].kind = "idle"
  BY <1>1, IdleRows
<1>3. \A t \in Threads : Landed(t)' = Landed(t)
  BY <1>1, <1>2 DEF Landed, Others
<1>4. (\A t \in Threads : Deleting(t) => Deleting(t)') /\ (Purging => Purging')
  BY <1>1, <1>2 DEF Deleting, Purging, Others
<1> QED
  BY <1>1, <1>3, <1>4, PostingsStill

(* A row lands: from now on its append owes the index one posting. *)
LEMMA PostingsAppendRow ==
  ASSUME LocksOK, RowsOK, AckedOK, PostingsOK, NEW p \in Procs, AppendRow(p), Others(p)
  PROVE  PostingsOK'
<1>0. op[p].thread \in Threads /\ op[p].message \in Messages
  BY DEF AppendRow, At, LocksOK, OwnsItsThread, Holding, RowsOK, OpFits
<1> SUFFICES ASSUME NEW t \in Threads, t = op[p].thread, NEW m \in Messages, m = op[p].message
             PROVE  PostingsOK'
  BY <1>0
<1>1. /\ op[p].kind = "append" /\ op[p].step = "row"
      /\ file[t] \in Seq(Messages) /\ fileTail[t] = None
  BY DEF AppendRow, At, RowsOK, RowsTyped, AckedOK, Untorn
<1>2. file'[t] = Append(file[t], m) /\ \A u \in Threads \ {t} : file'[u] = file[u]
  BY <1>1 DEF AppendRow, RowAppended, RowsOK, RowsTyped
<1>3. op'[p].kind = "append" /\ op'[p].thread = t /\ op'[p].message = m /\ op'[p].step = "stat"
  BY DEF AppendRow, Goto, LocksOK, OpTyped, OpRecord, At
<1>4. cache' = cache /\ journal' = journal /\ truncated' = truncated
  BY DEF AppendRow
<1>5. /\ \A u \in Threads \ {t} : Landed(u)' = Landed(u)
      /\ \A u \in Threads : Deleting(u)' <=> Deleting(u)
      /\ Purging' <=> Purging
      /\ Landed(t)' = {m}
  BY <1>1, <1>3, OwnStep
<1>6. Landed(t) = {}
  BY <1>1, OwnThread DEF Holding
<1>7. ToSet(file'[t]) = ToSet(file[t]) \cup {m}
  BY <1>1, <1>2, AppendToSet
<1>8. \A u \in Threads : Journaled(u)' = Journaled(u)
  BY <1>4 DEF Journaled
<1>9. CacheOK'
  BY <1>2, <1>4, <1>5, <1>6, <1>7 DEF PostingsOK, CacheOK
<1>10. ASSUME NEW q \in Procs, Building(q)', NEW u \in Threads \ truncated
       PROVE  /\ Journaled(u)' \subseteq ToSet(file'[u])
              /\ op'[q].step = "scan" /\ u \notin op'[q].todo
                   => op'[q].built[u] \cup Journaled(u)' \cup Landed(u)' = ToSet(file'[u])
  <2>1. op'[q] = op[q] /\ Building(q)
    BY <1>3, <1>10 DEF Others, Building
  <2>2. /\ Journaled(u) \subseteq ToSet(file[u])
        /\ op[q].step = "scan" /\ u \notin op[q].todo
             => op[q].built[u] \cup Journaled(u) \cup Landed(u) = ToSet(file[u])
    BY <2>1 DEF PostingsOK, ScanOK
  <2> QED
    BY <1>2, <1>5, <1>6, <1>7, <1>8, <2>1, <2>2
<1>11. ScanOK'
  BY <1>4, <1>10 DEF ScanOK
<1>12. BuiltTyped' /\ CutMarked'
  BY <1>3, <1>4 DEF PostingsOK, BuiltTyped, CutMarked, Others
<1> QED
  BY <1>9, <1>11, <1>12 DEF PostingsOK

(* The append pays: the posting goes to the warm cache and to an open journal. *)
LEMMA PostingsAppendStat ==
  ASSUME LocksOK, RowsOK, AckedOK, PostingsOK, NEW p \in Procs, AppendStat(p), Others(p)
  PROVE  PostingsOK'
<1>0. op[p].thread \in Threads /\ op[p].message \in Messages
  BY DEF AppendStat, At, LocksOK, OwnsItsThread, Holding, RowsOK, OpFits
<1> SUFFICES ASSUME NEW t \in Threads, t = op[p].thread, NEW m \in Messages, m = op[p].message
             PROVE  PostingsOK'
  BY <1>0
<1>1. op[p].kind = "append" /\ op[p].step = "stat" /\ m \in ToSet(file[t])
  BY DEF AppendStat, At, AckedOK, OpKeeps
<1>2. file' = file /\ truncated' = truncated
      /\ journal' = (IF journal = None THEN None ELSE journal \cup {<<t, m>>})
      /\ cache' = (IF cache = None THEN None ELSE [cache EXCEPT ![t] = @ \cup {m}])
  BY DEF AppendStat, AppendIndexed
<1>3. op'[p] = Idle
  BY DEF AppendStat, Returns, LocksOK, OpTyped
<1>5. /\ \A u \in Threads \ {t} : Landed(u)' = Landed(u)
      /\ \A u \in Threads : Deleting(u)' <=> Deleting(u)
      /\ Purging' <=> Purging
      /\ Landed(t)' = {}
  BY <1>1, <1>3, IdleRows, OwnStep
<1>6. Landed(t) = {m}
  BY <1>1, OwnThread DEF Holding
<1>7. ASSUME cache # None PROVE CacheOK'
  <2>1. cache \in [Threads -> SUBSET Messages] /\ cache' = [cache EXCEPT ![t] = @ \cup {m}]
    BY <1>2, <1>7 DEF PostingsOK, CacheOK
  <2>2. cache' \in [Threads -> SUBSET Messages] /\ cache'[t] = cache[t] \cup {m}
        /\ \A u \in Threads \ {t} : cache'[u] = cache[u]
    BY <2>1
  <2>3. \A u \in Threads \ truncated :
          Deleting(u) \/ Purging \/ cache[u] \cup Landed(u) = ToSet(file[u])
    BY <1>7 DEF PostingsOK, CacheOK
  <2> QED
    BY <1>2, <1>5, <1>6, <2>2, <2>3 DEF CacheOK
<1>8. CacheOK'
  BY <1>2, <1>7 DEF CacheOK
<1>10. ASSUME NEW q \in Procs, Building(q)', NEW u \in Threads \ truncated
       PROVE  /\ Journaled(u)' \subseteq ToSet(file[u])
              /\ op'[q].step = "scan" /\ u \notin op'[q].todo
                   => op'[q].built[u] \cup Journaled(u)' \cup Landed(u)' = ToSet(file[u])
  <2>1. op'[q] = op[q] /\ Building(q)
    BY <1>3, <1>10, IdleRows DEF Others, Building
  <2>2. journal # None
    BY <2>1, StoreAssumption DEF LocksOK, BuilderBuilds, JournalOnlyWhileBuilding
  <2>3. Journaled(u)' = IF u = t THEN Journaled(u) \cup {m} ELSE Journaled(u)
    BY <1>2, <2>2 DEF Journaled
  <2>4. /\ Journaled(u) \subseteq ToSet(file[u])
        /\ op[q].step = "scan" /\ u \notin op[q].todo
             => op[q].built[u] \cup Journaled(u) \cup Landed(u) = ToSet(file[u])
    BY <2>1 DEF PostingsOK, ScanOK
  <2> QED
    BY <1>1, <1>5, <1>6, <2>1, <2>3, <2>4
<1>11. ScanOK'
  BY <1>2, <1>10 DEF ScanOK
<1>12. BuiltTyped' /\ CutMarked'
  BY <1>2, <1>3, IdleRows DEF PostingsOK, BuiltTyped, CutMarked, Others
<1> QED
  BY <1>8, <1>11, <1>12 DEF PostingsOK

(* A truncated thread is no longer claimed to be indexed. *)
LEMMA PostingsTruncate ==
  ASSUME LocksOK, RowsOK, PostingsOK, NEW p \in Procs, TruncateRewrite(p) \/ TruncateEvict(p),
         Others(p)
  PROVE  PostingsOK'
<1>0. op[p].thread \in Threads /\ op[p].kind = "truncate"
  BY DEF TruncateRewrite, TruncateEvict, At, LocksOK, OwnsItsThread, Holding
<1> SUFFICES ASSUME NEW t \in Threads, t = op[p].thread
             PROVE  PostingsOK'
  BY <1>0
<1>1. \/ op'[p] = Idle
      \/ op'[p].kind = "truncate" /\ op'[p].thread = t /\ op'[p].step = "stats"
  BY DEF TruncateRewrite, TruncateEvict, Goto, Returns, LocksOK, OpTyped, OpRecord, At
<1>2. /\ truncated' = truncated \cup {t} /\ journal' = journal
      /\ \A u \in Threads \ {t} : file'[u] = file[u]
      /\ cache' = cache \/ cache' = (IF cache = None THEN None ELSE [cache EXCEPT ![t] = {}])
  <2>1. CASE TruncateRewrite(p)
    BY <1>0, <2>1 DEF TruncateRewrite, Rewritten, RowsOK, RowsTyped
  <2>2. CASE TruncateEvict(p)
    <3>1. t \in truncated
      BY <2>2 DEF TruncateEvict, At, PostingsOK, CutMarked
    <3> QED
      BY <2>2, <3>1 DEF TruncateEvict, disk, aux
  <2> QED
    BY <2>1, <2>2
<1>3. /\ \A u \in Threads \ {t} : Landed(u)' = Landed(u)
      /\ \A u \in Threads : Deleting(u)' <=> Deleting(u)
      /\ Purging' <=> Purging
  BY <1>0, <1>1, IdleRows, OwnStep
<1>4. CacheOK'
  <2>1. CASE cache = None
    BY <1>2, <2>1 DEF CacheOK
  <2>2. CASE cache # None
    <3>1. /\ cache \in [Threads -> SUBSET Messages]
          /\ \A u \in Threads \ truncated :
               Deleting(u) \/ Purging \/ cache[u] \cup Landed(u) = ToSet(file[u])
      BY <2>2 DEF PostingsOK, CacheOK
    <3>2. cache' \in [Threads -> SUBSET Messages] /\ \A u \in Threads \ {t} : cache'[u] = cache[u]
      BY <1>2, <2>2, <3>1
    <3> QED
      BY <1>2, <1>3, <3>1, <3>2 DEF CacheOK
  <2> QED
    BY <2>1, <2>2
<1>5. ASSUME NEW q \in Procs, Building(q)', NEW u \in Threads \ truncated'
      PROVE  /\ Journaled(u)' \subseteq ToSet(file'[u])
             /\ op'[q].step = "scan" /\ u \notin op'[q].todo
                  => op'[q].built[u] \cup Journaled(u)' \cup Landed(u)' = ToSet(file'[u])
  <2>1. op'[q] = op[q] /\ Building(q)
    BY <1>1, <1>5, IdleRows DEF Others, Building
  <2>2. Journaled(u)' = Journaled(u) /\ u \in Threads \ truncated /\ u # t
    BY <1>2 DEF Journaled
  <2>3. /\ Journaled(u) \subseteq ToSet(file[u])
        /\ op[q].step = "scan" /\ u \notin op[q].todo
             => op[q].built[u] \cup Journaled(u) \cup Landed(u) = ToSet(file[u])
    BY <2>1, <2>2 DEF PostingsOK, ScanOK
  <2> QED
    BY <1>2, <1>3, <2>1, <2>2, <2>3
<1>6. ScanOK'
  BY <1>5 DEF ScanOK
<1>7. BuiltTyped' /\ CutMarked'
  BY <1>1, <1>2, IdleRows DEF PostingsOK, BuiltTyped, CutMarked, Others
<1> QED
  BY <1>4, <1>6, <1>7 DEF PostingsOK

(* Removals. Nobody searches meanwhile, and an evicted thread has no rows left. *)
LEMMA PostingsRemoval ==
  ASSUME LocksOK, RowsOK, LifecycleOK, LogOK, PostingsOK, NEW p \in Procs, Others(p),
         \/ DeleteRemove(p) \/ DeleteEvict(p) \/ PurgeFinish(p)
         \/ \E x \in Threads \cup {"log"} : PurgeRemove(p, x)
  PROVE  PostingsOK'
<1>0. op[p].kind \in {"delete", "purge"} /\ (op[p].kind = "delete" => op[p].thread \in Threads)
  BY DEF DeleteRemove, DeleteEvict, PurgeFinish, PurgeRemove, At, LocksOK, OwnsItsThread, Holding
<1>1. \A q \in Procs \ {p} : op[q].kind = "idle" /\ op'[q] = op[q]
  BY <1>0, WriterAlone DEF Others
<1>2. op'[p] = Idle \/ op'[p].kind \in {"delete", "purge"}
  BY DEF DeleteRemove, DeleteEvict, PurgeFinish, PurgeRemove, At, Goto, Returns, LocksOK, OpTyped,
         OpRecord
<1>3. op'[p] = Idle \/ op'[p].step \in {"remove", "evict"}
  BY DEF DeleteRemove, DeleteEvict, PurgeFinish, PurgeRemove, At, Goto, Returns, LocksOK, OpTyped,
         OpRecord
<1>4. ScanOK' /\ BuiltTyped' /\ CutMarked'
  BY <1>1, <1>2, <1>3, IdleRows DEF ScanOK, Building, BuiltTyped, CutMarked, PostingsOK
<1>5. \A t \in Threads : Landed(t) = {} /\ Landed(t)' = {}
  BY <1>0, <1>1, <1>2, IdleRows DEF Landed
<1>6. CacheOK'
  <2>1. CASE PurgeFinish(p)
    BY <2>1 DEF PurgeFinish, CacheOK
  <2>2. ASSUME NEW x \in Threads \cup {"log"}, PurgeRemove(p, x) PROVE CacheOK'
    <3>1. op'[p].kind = "purge" /\ cache' = cache
      BY <2>2 DEF PurgeRemove, At, LocksOK, OpTyped, OpRecord
    <3>2. Purging'
      BY <3>1 DEF Purging
    <3> QED
      BY <3>1, <3>2 DEF CacheOK, PostingsOK
  <2>3. CASE DeleteRemove(p)
    <3> SUFFICES ASSUME NEW t \in Threads, t = op[p].thread PROVE CacheOK'
      BY <1>0, <2>3 DEF DeleteRemove, At
    <3>1. op[p].kind = "delete" /\ op'[p].kind = "delete" /\ op'[p].thread = t /\ cache' = cache
          /\ truncated' = truncated
      BY <2>3 DEF DeleteRemove, At, Goto, LocksOK, OpTyped, OpRecord, aux
    <3>2. \A u \in Threads \ {t} : file'[u] = file[u]
      BY <2>3 DEF DeleteRemove, Rewritten, RowsOK, RowsTyped
    <3>3. Deleting(t)' /\ ~Purging /\ \A u \in Threads \ {t} : ~Deleting(u)
      BY <1>1, <3>1 DEF Deleting, Purging
    <3> QED
      BY <1>5, <3>1, <3>2, <3>3 DEF CacheOK, PostingsOK
  <2>4. CASE DeleteEvict(p)
    <3> SUFFICES ASSUME NEW t \in Threads, t = op[p].thread PROVE CacheOK'
      BY <1>0, <2>4 DEF DeleteEvict, At
    <3>1. op[p].kind = "delete" /\ op[p].step = "evict" /\ file' = file /\ truncated' = truncated
          /\ cache' = (IF cache = None THEN None ELSE [cache EXCEPT ![t] = {}])
      BY <2>4 DEF DeleteEvict, At, disk, aux
    <3>2. ~Purging /\ ~Removing(t) /\ \A u \in Threads \ {t} : ~Deleting(u)
      BY <1>1, <3>1 DEF Deleting, Purging, Removing
    <3>3. file[t] = <<>>
      BY <3>1, <3>2 DEF LogOK, LogGone, DeadEmpty
    <3>4. ToSet(file[t]) = {}
      BY <3>3, EmptyRows
    <3>5. CASE cache = None
      BY <3>1, <3>5 DEF CacheOK
    <3>6. CASE cache # None
      <4>1. /\ cache \in [Threads -> SUBSET Messages]
            /\ \A u \in Threads \ truncated :
                 Deleting(u) \/ Purging \/ cache[u] \cup Landed(u) = ToSet(file[u])
        BY <3>6 DEF PostingsOK, CacheOK
      <4>2. cache' \in [Threads -> SUBSET Messages] /\ cache'[t] = {}
            /\ \A u \in Threads \ {t} : cache'[u] = cache[u]
        BY <3>1, <3>6, <4>1
      <4> QED
        BY <1>5, <3>1, <3>2, <3>4, <4>1, <4>2 DEF CacheOK
    <3> QED
      BY <3>5, <3>6
  <2> QED
    BY <2>1, <2>2, <2>3, <2>4
<1> QED
  BY <1>4, <1>6 DEF PostingsOK

(* The build opens its journal, ... *)
LEMMA PostingsBuildLock ==
  ASSUME LocksOK, PostingsOK, NEW p \in Procs, BuildLock(p), Others(p)
  PROVE  PostingsOK'
<1>1. op[p].kind = "search" /\ op[p].step = "build" /\ builder = None
      /\ file' = file /\ truncated' = truncated /\ cache' = cache
  BY DEF BuildLock, At, disk, aux
<1>2. op'[p].kind = "search" /\ op'[p].step = (IF cache # None THEN "query" ELSE "snapshot")
  BY DEF BuildLock, Goto, At, LocksOK, OpTyped, OpRecord
<1>3. /\ \A t \in Threads : Landed(t)' = Landed(t) /\ (Deleting(t) => Deleting(t)')
      /\ Purging => Purging'
  BY <1>1, <1>2 DEF Landed, Deleting, Purging, Others
<1>4. CASE cache # None
  <2>1. journal' = journal
    BY <1>4 DEF BuildLock
  <2> QED
    BY <1>1, <1>2, <1>3, <1>4, <2>1, PostingsStill DEF Building
<1>5. CASE cache = None
  <2>1. journal' = {} /\ \A t \in Threads : Journaled(t)' = {}
    BY <1>5 DEF BuildLock, Journaled
  <2>2. \A q \in Procs \ {p} : ~Building(q)'
    BY <1>1, StoreAssumption DEF LocksOK, BuilderBuilds, Building, Others
  <2>3. ScanOK'
    BY <1>2, <1>5, <2>1, <2>2 DEF ScanOK
  <2>4. CacheOK' /\ BuiltTyped' /\ CutMarked'
    BY <1>1, <1>2, <1>5 DEF PostingsOK, CacheOK, BuiltTyped, CutMarked, Others
  <2> QED
    BY <2>3, <2>4 DEF PostingsOK
<1> QED
  BY <1>4, <1>5

(* ... lists the live threads; the others have no rows to scan, ... *)
LEMMA PostingsBuildSnapshot ==
  ASSUME LocksOK, LifecycleOK, LogOK, PostingsOK, NEW p \in Procs, BuildSnapshot(p), Others(p)
  PROVE  PostingsOK'
<1>1. op[p].kind = "search" /\ op[p].step = "snapshot" /\ file' = file /\ truncated' = truncated
      /\ cache' = cache /\ journal' = journal
  BY DEF BuildSnapshot, At, disk, aux
<1>2. op'[p].kind = "search" /\ op'[p].step = "scan" /\ op'[p].todo = Live
      /\ op'[p].built = [t \in Threads |-> {}]
  BY DEF BuildSnapshot, At, LocksOK, OpTyped, OpRecord
<1>3. /\ \A t \in Threads : Landed(t)' = Landed(t) /\ (Deleting(t) => Deleting(t)')
      /\ Purging => Purging'
  BY <1>1, <1>2 DEF Landed, Deleting, Purging, Others
<1>4. CacheOK'
  BY <1>1, <1>3 DEF PostingsOK, CacheOK
<1>5. \A q \in Procs \ {p} : ~Building(q)'
  <2>1. Building(p)
    BY <1>1 DEF Building
  <2> QED
    BY <2>1 DEF LocksOK, BuilderBuilds, Building, Others
<1>6. ASSUME NEW t \in Threads \ truncated
      PROVE  /\ Journaled(t)' \subseteq ToSet(file[t])
             /\ t \notin Live => {} \cup Journaled(t)' \cup Landed(t)' = ToSet(file[t])
  <2>1. Journaled(t)' = Journaled(t) /\ Building(p)
    BY <1>1 DEF Journaled, Building
  <2>2. Journaled(t) \subseteq ToSet(file[t])
    BY <2>1 DEF PostingsOK, ScanOK
  <2>3. ASSUME t \notin Live PROVE Landed(t) = {} /\ ToSet(file[t]) = {}
    <3>1. index[t] = None
      BY <2>3 DEF Live, Index, LogOK, LogTyped
    <3>2. ~Removing(t)
      BY <1>1, NoWriterBeside DEF Removing, Reading
    <3>3. file[t] = <<>>
      BY <3>1, <3>2 DEF LogOK, DeadEmpty
    <3>4. Landed(t) = {}
      BY <3>1 DEF LogOK, AppendLive, Landed
    <3> QED
      BY <3>3, <3>4, EmptyRows
  <2> QED
    BY <1>3, <2>1, <2>2, <2>3
<1>7. ScanOK'
  BY <1>1, <1>2, <1>5, <1>6 DEF ScanOK
<1>8. BuiltTyped' /\ CutMarked'
  BY <1>1, <1>2 DEF PostingsOK, BuiltTyped, CutMarked, Others
<1> QED
  BY <1>4, <1>7, <1>8 DEF PostingsOK

(* ... reads them one by one while nobody writes to them, ... *)
LEMMA PostingsBuildScan ==
  ASSUME LocksOK, RowsOK, AckedOK, PostingsOK, NEW p \in Procs, NEW t \in Threads, BuildScan(p, t),
         Others(p)
  PROVE  PostingsOK'
<1>1. op[p].kind = "search" /\ op[p].step = "scan" /\ file' = file /\ truncated' = truncated
      /\ cache' = cache /\ journal' = journal /\ owner[t] = None
  BY DEF BuildScan, At, disk, aux
<1>2. RowSet(t) = ToSet(file[t]) /\ ToSet(file[t]) \subseteq Messages
  BY DEF RowSet, Rows, ToSet, AckedOK, Untorn, RowsOK, RowsTyped
<1>3. op'[p].kind = "search" /\ op'[p].step = "scan" /\ op'[p].todo = op[p].todo \ {t}
      /\ op'[p].built = [op[p].built EXCEPT ![t] = RowSet(t)]
  <2>1. op' = [op EXCEPT ![p].todo = @ \ {t}, ![p].built[t] = RowSet(t)]
    BY DEF BuildScan
  <2> QED
    BY <1>1, <2>1 DEF LocksOK, OpTyped, OpRecord
<1>4. op[p].built \in [Threads -> SUBSET Messages]
  BY <1>1 DEF PostingsOK, BuiltTyped
<1>5. /\ op'[p].built \in [Threads -> SUBSET Messages] /\ op'[p].built[t] = ToSet(file[t])
      /\ \A u \in Threads \ {t} : op'[p].built[u] = op[p].built[u]
  BY <1>2, <1>3, <1>4
<1>6. /\ \A u \in Threads : Landed(u)' = Landed(u) /\ (Deleting(u) => Deleting(u)')
      /\ Purging => Purging'
  BY <1>1, <1>3 DEF Landed, Deleting, Purging, Others
<1>7. CacheOK'
  BY <1>1, <1>6 DEF PostingsOK, CacheOK
<1>8. Building(p) /\ \A q \in Procs \ {p} : ~Building(q)'
  <2>1. Building(p)
    BY <1>1 DEF Building
  <2> QED
    BY <2>1 DEF LocksOK, BuilderBuilds, Building, Others
<1>9. Landed(t) = {}
  BY <1>1, FreeThread
<1>10. ASSUME NEW u \in Threads \ truncated
       PROVE  /\ Journaled(u)' \subseteq ToSet(file[u])
              /\ u \notin op'[p].todo
                   => op'[p].built[u] \cup Journaled(u)' \cup Landed(u)' = ToSet(file[u])
  <2>1. Journaled(u)' = Journaled(u)
    BY <1>1 DEF Journaled
  <2>2. /\ Journaled(u) \subseteq ToSet(file[u])
        /\ u \notin op[p].todo => op[p].built[u] \cup Journaled(u) \cup Landed(u) = ToSet(file[u])
    BY <1>1, <1>8 DEF PostingsOK, ScanOK
  <2> QED
    BY <1>3, <1>5, <1>6, <1>9, <2>1, <2>2
<1>11. ScanOK'
  BY <1>1, <1>8, <1>10 DEF ScanOK
<1>12. BuiltTyped' /\ CutMarked'
  BY <1>1, <1>3, <1>5 DEF PostingsOK, BuiltTyped, CutMarked, Others
<1> QED
  BY <1>7, <1>11, <1>12 DEF PostingsOK

(* ... and publishes what it read with what was journaled meanwhile. *)
LEMMA PostingsBuildPublish ==
  ASSUME LocksOK, PostingsOK, NEW p \in Procs, BuildPublish(p), Others(p)
  PROVE  PostingsOK'
<1>1. op[p].kind = "search" /\ op[p].step = "scan" /\ op[p].todo = {} /\ file' = file
      /\ truncated' = truncated /\ cache' = [t \in Threads |-> op[p].built[t] \cup Journaled(t)]
  BY DEF BuildPublish, At, disk, aux, Journaled
<1>2. op'[p].kind = "search" /\ op'[p].step = "query"
  BY DEF BuildPublish, At, LocksOK, OpTyped, OpRecord
<1>3. op[p].built \in [Threads -> SUBSET Messages] /\ Building(p)
  BY <1>1 DEF PostingsOK, BuiltTyped, Building
<1>4. \A t \in Threads : Landed(t)' = Landed(t)
  BY <1>1, <1>2 DEF Landed, Others
<1>5. \A t \in Threads \ truncated : op[p].built[t] \cup Journaled(t) \cup Landed(t) = ToSet(file[t])
  BY <1>1, <1>3 DEF PostingsOK, ScanOK
<1>6. \A t \in Threads : Journaled(t) \subseteq Messages
  BY DEF Journaled
<1>7. CacheOK'
  <2>1. cache' \in [Threads -> SUBSET Messages]
    BY <1>1, <1>3, <1>6
  <2> QED
    BY <1>1, <1>4, <1>5, <2>1 DEF CacheOK
<1>8. \A q \in Procs : ~Building(q)'
  BY <1>2, <1>3 DEF LocksOK, BuilderBuilds, Building, Others
<1>9. ScanOK' /\ BuiltTyped' /\ CutMarked'
  BY <1>1, <1>2, <1>8 DEF PostingsOK, ScanOK, BuiltTyped, CutMarked, Others
<1> QED
  BY <1>7, <1>9 DEF PostingsOK

LEMMA PostingsStep ==
  ASSUME LocksOK, RowsOK, LifecycleOK, AckedOK, LogOK, PostingsOK, NEW p \in Procs, Step(p)
  PROVE  PostingsOK'
<1>0. Others(p) /\ Calm(p) /\ op[p] \in OpRecord /\ op \in [Procs -> OpRecord]
  BY OthersKept, StepCalm DEF LocksOK, OpTyped
<1>1. ASSUME op[p].kind \in {"patch", "truncate", "list", "search"},
             \/ op'[p] = Idle
             \/ /\ op'[p].kind = op[p].kind /\ op'[p].thread = op[p].thread
                /\ op'[p].step \in {"snapshot", "repair"} /\ op[p].kind = "list"
             \/ /\ op'[p].kind = op[p].kind /\ op'[p].thread = op[p].thread
                /\ op'[p].step = "evict" /\ op[p].step = "stats",
             file' = file, truncated' = truncated, cache' = cache, journal' = journal
      PROVE  PostingsOK'
  <2>1. /\ \A t \in Threads : Landed(t)' = Landed(t) /\ (Deleting(t) => Deleting(t)')
        /\ Purging => Purging'
    BY <1>0, <1>1, IdleRows DEF Landed, Deleting, Purging, Others
  <2>2. ~Building(p)' /\ op'[p].step # "scan"
    BY <1>1, IdleRows DEF Building
  <2>3. op'[p].kind = "truncate" /\ op'[p].step \in {"stats", "evict"} => op'[p].thread \in truncated
    BY <1>1, IdleRows DEF PostingsOK, CutMarked
  <2> QED
    BY <1>0, <1>1, <2>1, <2>2, <2>3, PostingsStill
<1>2. CASE AppendRow(p) \/ AppendStat(p)
  BY <1>0, <1>2, PostingsAppendRow, PostingsAppendStat
<1>3. CASE TruncateRewrite(p) \/ TruncateEvict(p)
  BY <1>0, <1>3, PostingsTruncate
<1>4. CASE \/ DeleteRemove(p) \/ DeleteEvict(p) \/ PurgeFinish(p)
           \/ \E x \in Threads \cup {"log"} : PurgeRemove(p, x)
  BY <1>0, <1>4, PostingsRemoval
<1>5. CASE BuildSnapshot(p) \/ BuildPublish(p)
  BY <1>0, <1>5, PostingsBuildSnapshot, PostingsBuildPublish
<1>6. CASE UpdateRewrite(p)
  <2>1. op[p].thread \in Threads /\ op[p].rows = file[op[p].thread] /\ op[p].kind = "patch"
    BY <1>6 DEF UpdateRewrite, At, LocksOK, OwnsItsThread, Holding, AckedOK, OpKeeps
  <2>2. file' = file /\ cache' = cache /\ journal' = journal /\ truncated' = truncated
    BY <1>6, <2>1 DEF UpdateRewrite, Rewritten, RowsOK, RowsTyped, aux
  <2>3. op'[p] = Idle
    BY <1>0, <1>6 DEF UpdateRewrite, Returns
  <2> QED
    BY <1>1, <2>1, <2>2, <2>3
<1>7. CASE TruncateStats(p)
  <2>1. op[p].kind = "truncate" /\ op[p].step = "stats"
    BY <1>7 DEF TruncateStats, At
  <2>2. op'[p].kind = op[p].kind /\ op'[p].thread = op[p].thread /\ op'[p].step = "evict"
    BY <1>0, <1>7 DEF TruncateStats, Goto, OpRecord
  <2>3. file' = file /\ cache' = cache /\ journal' = journal /\ truncated' = truncated
    BY <1>7 DEF TruncateStats, aux
  <2> QED
    BY <1>1, <2>1, <2>2, <2>3
<1>8. CASE ListSnapshot(p) \/ ListAgain(p)
  <2>1. op[p].kind = "list" /\ file' = file /\ cache' = cache /\ journal' = journal
        /\ truncated' = truncated
    BY <1>8 DEF ListSnapshot, ListAgain, At, disk, aux
  <2>2. op'[p].kind = op[p].kind /\ op'[p].thread = op[p].thread
        /\ op'[p].step \in {"snapshot", "repair"}
    BY <1>0, <1>8 DEF ListSnapshot, ListAgain, Goto, OpRecord
  <2> QED
    BY <1>1, <2>1, <2>2
<1>9. CASE ListReturn(p) \/ SearchReturn(p)
  <2>1. op[p].kind \in {"list", "search"} /\ file' = file /\ cache' = cache /\ journal' = journal
        /\ truncated' = truncated /\ op'[p] = Idle
    BY <1>0, <1>9 DEF ListReturn, SearchReturn, At, Returns, disk, aux
  <2> QED
    BY <1>1, <2>1
<1> QED
  BY <1>2, <1>3, <1>4, <1>5, <1>6, <1>7, <1>8, <1>9 DEF Step

LEMMA PostingsWait ==
  ASSUME LocksOK, RowsOK, AckedOK, PostingsOK, NEW p \in Procs, Wait(p)
  PROVE  PostingsOK'
<1>0. Others(p) /\ op[p] \in OpRecord /\ op \in [Procs -> OpRecord]
  BY OthersKept DEF LocksOK, OpTyped
<1>1. ASSUME NEW t \in Threads, ListRepair(p, t) PROVE PostingsOK'
  <2>1. op[p].kind = "list" /\ op[p].step = "repair" /\ file' = file /\ cache' = cache
        /\ journal' = journal /\ truncated' = truncated
    BY <1>1 DEF ListRepair, At, aux
  <2>2. op'[p].kind = "list" /\ op'[p].step = "repair"
    BY <1>0, <1>1, <2>1 DEF ListRepair, OpRecord
  <2>3. /\ \A u \in Threads : Landed(u)' = Landed(u) /\ (Deleting(u) => Deleting(u)')
        /\ Purging => Purging'
    BY <1>0, <2>1, <2>2 DEF Landed, Deleting, Purging, Others
  <2> QED
    BY <1>0, <2>1, <2>2, <2>3, PostingsStill DEF Building
<1> QED
  BY <1>0, <1>1, PostingsBuildLock, PostingsBuildScan DEF Wait

LEMMA PostingsMutations ==
  ASSUME PostingsOK, Mutations \/ UNCHANGED vars
  PROVE  PostingsOK'
<1>1. UNCHANGED <<file, cache, journal, truncated, op>>
  BY DEF Mutations, EnsureThread, UpdateThread, AppendExisting, vars, disk, aux
<1>2. /\ \A t \in Threads : /\ Landed(t)' = Landed(t) /\ (Deleting(t)' <=> Deleting(t))
                            /\ Journaled(t)' = Journaled(t)
      /\ Purging' <=> Purging
  BY <1>1 DEF Landed, Deleting, Purging, Journaled
<1>3. CacheOK'
  BY <1>1, <1>2 DEF PostingsOK, CacheOK
<1>4. ScanOK'
  BY <1>1, <1>2 DEF PostingsOK, ScanOK, Building
<1>5. BuiltTyped' /\ CutMarked'
  BY <1>1 DEF PostingsOK, BuiltTyped, CutMarked
<1> QED
  BY <1>3, <1>4, <1>5 DEF PostingsOK

(***************************************************************************)
(* What is left of the type invariant.                                     *)
(***************************************************************************)
KindsOK ==
  /\ \A p \in Procs : op[p].kind \in Kinds \cup {"idle"}
  /\ used \subseteq Fresh /\ crashes \in 0..MaxCrashes /\ faults \in 0..MaxFaults

LEMMA KindsInit == Init => KindsOK
  BY IdleRows, StoreAssumption DEF Init, KindsOK

LEMMA KindsStep ==
  ASSUME LocksOK, RowsOK, KindsOK,
         Mutations \/ (\E p \in Procs : Begin(p) \/ Step(p) \/ Wait(p)) \/ UNCHANGED vars
  PROVE  KindsOK'
<1>1. CASE Mutations \/ UNCHANGED vars
  BY <1>1 DEF Mutations, EnsureThread, UpdateThread, AppendExisting, vars, aux, KindsOK
<1>2. ASSUME NEW p \in Procs, Begin(p) PROVE KindsOK'
  BY <1>2, BeginFresh DEF KindsOK, Others
<1>3. ASSUME NEW p \in Procs, Step(p) PROVE KindsOK'
  <2>1. \A q \in Procs : Calm(q)
    BY <1>3, StepCalm
  <2>2. used' = used /\ crashes' = crashes /\ faults' = faults
    BY <1>3
    DEF Step, AppendRow, AppendStat, UpdateRewrite, TruncateRewrite, TruncateStats, TruncateEvict,
        DeleteRemove, DeleteEvict, PurgeRemove, PurgeFinish, ListSnapshot, ListAgain, ListReturn,
        BuildSnapshot, BuildPublish, SearchReturn, aux
  <2> QED
    BY <2>1, <2>2, IdleRows DEF KindsOK, Calm
<1>4. ASSUME NEW p \in Procs, Wait(p) PROVE KindsOK'
  <2>1. \A q \in Procs : Calm(q)
    BY <1>4, WaitOrFaultCalm
  <2>2. used' = used /\ crashes' = crashes /\ faults' = faults
    BY <1>4 DEF Wait, BuildLock, ListRepair, BuildScan, aux
  <2> QED
    BY <2>1, <2>2, IdleRows DEF KindsOK, Calm
<1> QED
  BY <1>1, <1>2, <1>3, <1>4

StoreInv ==
  LocksOK /\ RowsOK /\ LifecycleOK /\ AckedOK /\ LogOK /\ PostingsOK /\ KindsOK

LEMMA StoreInit == Init => StoreInv
  BY LocksInit, RowsInit, LifecycleInit, AckedInit, LogInit, PostingsInit, KindsInit DEF StoreInv

(* Without failures the store takes none of the failing steps. *)
LEMMA StoreStep ==
  ASSUME MaxCrashes = 0, MaxFaults = 0, StoreInv, [Next]_vars
  PROVE  StoreInv'
<1>1. ~Crash /\ \A p \in Procs : ~Fault(p)
  BY DEF StoreInv, KindsOK, Crash, Fault, Faulty, AppendRowFails, AppendStatFails,
         TruncateStatsFails, DeleteRemoveFails, PurgeRemoveFails, ListFails, BuildSnapshotFails,
         LineFails, RewriteFails, ListUnreadable, BuildScanFails
<1>2. Mutations \/ (\E p \in Procs : Begin(p) \/ Step(p) \/ Wait(p)) \/ UNCHANGED vars
  BY <1>1 DEF Next
<1>3. LocksOK' /\ RowsOK' /\ LifecycleOK' /\ AckedOK' /\ KindsOK'
  BY <1>2, LocksStep, RowsStep, LifecycleStep, AckedSmooth, KindsStep DEF StoreInv, RowsOK
<1>4. LogOK'
  BY <1>2, LogBegin, LogStep, LogWait, LogMutations DEF StoreInv
<1>5. PostingsOK'
  BY <1>2, PostingsBegin, PostingsStep, PostingsWait, PostingsMutations DEF StoreInv
<1> QED
  BY <1>3, <1>4, <1>5 DEF StoreInv

LEMMA StoreTypeOK == StoreInv => TypeOK
<1> SUFFICES ASSUME StoreInv PROVE TypeOK
  OBVIOUS
<1>1. index \in [Threads -> {None} \cup ThreadEntry] /\ removed \subseteq Threads \X Messages
      /\ truncated \subseteq Threads
  BY DEF StoreInv, LogOK, LogTyped, RemovedTyped
<1>2. file \in [Threads -> Seq(Messages)] /\ fileTail \in [Threads -> Messages \cup {None, Partial}]
  BY DEF StoreInv, RowsOK, RowsTyped
<1>3. cache = None \/ cache \in [Threads -> SUBSET Messages]
  BY DEF StoreInv, PostingsOK, CacheOK
<1>4. /\ journal = None \/ journal \subseteq Threads \X Messages
      /\ builder \in Procs \cup {None} /\ owner \in [Threads -> Procs \cup {None}] /\ DOMAIN op = Procs
  BY DEF StoreInv, LocksOK, JournalTyped, BuilderBuilds, OwnerTyped, OpTyped
<1>5. readers \subseteq Procs /\ writer \in Procs \cup {None} /\ acked \subseteq Threads \X Messages
  BY DEF StoreInv, LifecycleOK, AckedOK, AckedThere
<1>6. /\ used \subseteq Fresh /\ crashes \in 0..MaxCrashes /\ faults \in 0..MaxFaults
      /\ \A p \in Procs : op[p].kind \in Kinds \cup {"idle"}
  BY DEF StoreInv, KindsOK
<1> QED
  BY <1>1, <1>2, <1>3, <1>4, <1>5, <1>6 DEF TypeOK

LEMMA StoreRead ==
  ASSUME StoreInv, NEW t \in Threads
  PROVE  /\ RowSet(t) = ToSet(file[t]) /\ Rows(t) = file[t]
         /\ Index = index /\ (t \in Live <=> index[t] # None)
  BY DEF StoreInv, AckedOK, Untorn, RowSet, Rows, LogOK, LogTyped, Index, Live

LEMMA StoreIndexed == StoreInv => IndexExact
<1> SUFFICES ASSUME StoreInv, cache # None, writer = None, NEW t \in Threads \ truncated,
                    owner[t] = None
             PROVE  cache[t] = IF t \in Live THEN RowSet(t) ELSE {}
  BY DEF IndexExact
<1>1. ~Purging /\ ~Removing(t) /\ ~Deleting(t)
  BY NoWriterNoRemoval DEF StoreInv
<1>2. Landed(t) = {}
  BY FreeThread DEF StoreInv
<1>3. cache[t] = ToSet(file[t])
  BY <1>1, <1>2 DEF StoreInv, PostingsOK, CacheOK
<1>4. t \notin Live => ToSet(file[t]) = {}
  <2>1. t \notin Live => file[t] = <<>>
    BY <1>1, StoreRead DEF StoreInv, LogOK, DeadEmpty
  <2> QED
    BY <2>1, EmptyRows
<1> QED
  BY <1>3, <1>4, StoreRead

LEMMA StoreHistory == StoreInv => HistoryKept
<1> SUFFICES ASSUME StoreInv PROVE AckedDurable /\ RemovedStaysRemoved
  BY StoreTypeOK DEF HistoryKept
<1>1. AckedDurable
  BY StoreRead DEF AckedDurable, StoreInv, AckedOK, AckedThere
<1>2. RemovedStaysRemoved
  <2> SUFFICES ASSUME writer = None, NEW a \in removed PROVE a[2] \notin RowSet(a[1])
    BY DEF RemovedStaysRemoved
  <2>1. a[1] \in Threads
    BY DEF StoreInv, LogOK, RemovedTyped
  <2>2. ~Removing(a[1])
    BY <2>1, NoWriterNoRemoval DEF StoreInv
  <2> QED
    BY <2>1, <2>2, StoreRead DEF StoreInv, LogOK, RemovedGone
<1> QED
  BY <1>1, <1>2

(* Without crashes and I/O errors, whatever callers interleave: a published search
   index holds of an untruncated thread exactly the rows its file has, what was
   acknowledged stays until it is removed, and what was removed does not return. *)
THEOREM StoreCorrect ==
  ASSUME MaxCrashes = 0, MaxFaults = 0
  PROVE  Spec => []ThreadStoreSound
<1>1. StoreInv /\ [Next]_vars => StoreInv'
  BY StoreStep
<1>2. StoreInv => ThreadStoreSound
  BY StoreIndexed, StoreHistory DEF ThreadStoreSound
<1> QED
  BY <1>1, <1>2, StoreInit, PTL DEF Spec

(* The entry list_threads returns for a thread nobody writes to is the number of its
   messages and the newest of them. *)
LEMMA ListedExact ==
  ASSUME StoreInv, NEW p \in Procs, ListReturn(p), NEW t \in Live \ op[p].bad, owner[t] = None
  PROVE  Index[t] = [count |-> Measured(t).count, last |-> Measured(t).last]
<1>1. t \in Threads /\ t \notin Unmeasured
  BY DEF ListReturn, Live
<1>2. Index = index /\ index[t] # None /\ Rows(t) = file[t]
  BY <1>1, StoreRead
<1>3. index[t].count # None
  BY <1>1, <1>2 DEF Unmeasured
<1>4. Landed(t) = {} /\ ~Recounting(t)
  BY <1>1, FreeThread DEF StoreInv
<1>5. ~Purging
  BY NoWriterBeside DEF ListReturn, At, Reading, Purging, StoreInv
<1>6. index[t] = MeasuredEntry(t)
  <2>1. Counted(t)
    BY <1>1 DEF StoreInv, LogOK
  <2> QED
    BY <1>2, <1>3, <1>4, <1>5, <2>1 DEF Counted, Exact
<1>7. Measured(t).count = MeasuredEntry(t).count /\ Measured(t).last = MeasuredEntry(t).last
  <2>1. file[t] \in Seq(Messages)
    BY <1>1 DEF StoreInv, RowsOK, RowsTyped
  <2>2. file[t] # <<>> => Last(file[t]) = file[t][Len(file[t])]
    BY <2>1 DEF Last
  <2> QED
    BY <1>2, <2>2 DEF Measured, Stats, MeasuredEntry
<1>8. MeasuredEntry(t) = [count |-> MeasuredEntry(t).count, last |-> MeasuredEntry(t).last]
  BY DEF MeasuredEntry
<1> QED
  BY <1>2, <1>6, <1>7, <1>8

(* A listing that returns is a listing whose last pass had nothing left to measure. *)
LEMMA ListReturns ==
  ASSUME MaxCrashes = 0, MaxFaults = 0, StoreInv, Next, NEW p \in Procs,
         At(p, "list", "snapshot"), op'[p] = Idle
  PROVE  ListReturn(p)
<1>1. ~Crash /\ \A q \in Procs : ~Fault(q)
  BY DEF StoreInv, KindsOK, Crash, Fault, Faulty, AppendRowFails, AppendStatFails,
         TruncateStatsFails, DeleteRemoveFails, PurgeRemoveFails, ListFails, BuildSnapshotFails,
         LineFails, RewriteFails, ListUnreadable, BuildScanFails
<1>2. op[p].kind = "list" /\ op[p].step = "snapshot" /\ op'[p] # op[p] /\ op \in [Procs -> OpRecord]
      /\ op'[p].kind = "idle"
  BY IdleRows DEF At, StoreInv, LocksOK, OpTyped
<1>3. ~Mutations
  BY <1>2 DEF Mutations, EnsureThread, UpdateThread, AppendExisting
<1>4. ASSUME NEW q \in Procs, Begin(q) PROVE FALSE
  BY <1>2, <1>4, BeginFresh, IdleRows DEF StoreInv, Others
<1>5. ASSUME NEW q \in Procs, Step(q) \/ Wait(q), q # p PROVE FALSE
  BY <1>2, <1>5, OthersKept DEF StoreInv, Others
<1>6. Step(p) \/ Wait(p)
  BY <1>1, <1>3, <1>4, <1>5 DEF Next
<1>7. ListSnapshot(p) \/ ListReturn(p)
  BY <1>2, <1>6
  DEF Step, Wait, AppendRow, AppendStat, UpdateRewrite, TruncateRewrite, TruncateStats,
      TruncateEvict, DeleteRemove, DeleteEvict, PurgeRemove, PurgeFinish, ListAgain,
      BuildSnapshot, BuildPublish, SearchReturn, BuildLock, ListRepair, BuildScan, At
<1>8. ~ListSnapshot(p)
  BY <1>2 DEF ListSnapshot, OpRecord
<1> QED
  BY <1>7, <1>8

(* Without crashes and I/O errors, what list_threads reports of a thread nobody is
   writing to is what its file holds: the number of messages and the newest one. *)
THEOREM ListCorrect ==
  ASSUME MaxCrashes = 0, MaxFaults = 0
  PROVE  Spec => ListTruthful
<1>1. StoreInv /\ [Next]_vars => StoreInv'
  BY StoreStep
<1>2. StoreInv /\ [Next]_vars =>
        [\A p \in Procs :
           (At(p, "list", "snapshot") /\ op'[p] = Idle /\ crashes' = crashes) =>
              \A t \in Live \ op[p].bad : owner[t] = None =>
                  Index[t] = [count |-> Measured(t).count, last |-> Measured(t).last]]_vars
  BY ListReturns, ListedExact
<1> QED
  BY <1>1, <1>2, StoreInit, PTL DEF Spec, ListTruthful
===============================================================================
