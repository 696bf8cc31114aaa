---------------------------- MODULE FamilyProofs ----------------------------
(***************************************************************************)
(* The tables behind the episodic, event and profile families and the      *)
(* knowledge graph keep what they promise for any number of sessions,      *)
(* events, facets, documents and relations and without the bounds TLC      *)
(* needs.                                                                  *)
(***************************************************************************)
EXTENDS SegmentStore, EventLog, ProfileFacets, KnowledgeGraph, SessionRecall,
        FiniteSetTheorems, WellFoundedInduction, TLAPS

---------------------------------------------------------------------------
(* The event log.                                                          *)

(* What a row has in the index is its text and nothing else. *)
IndexCurrent ==
  \A e \in EventIds : event_log[e] # Absent =>
    /\ [rowid |-> event_log[e].rowid, content |-> event_log[e].content] \in event_fts
    /\ \A f \in event_fts : f.rowid = event_log[e].rowid => f.content = event_log[e].content

(* What replaced rows left in the index lies below a row of the table: the
   rowid of an insert is drawn before the row it replaces is gone. *)
StaleBelow ==
  \A f \in event_fts : \E e \in EventIds : event_log[e] # Absent /\ f.rowid <= event_log[e].rowid

EvInv == EvTypeOK /\ EmbeddingsFollowRow /\ IndexCurrent /\ StaleBelow

(* A set of numbers with an upper bound has a greatest one: the least bound. *)
LEMMA MaxOfBounded ==
  ASSUME NEW S, S \subseteq Nat, S # {}, NEW B \in Nat, \A y \in S : y <= B
  PROVE  Max(S) \in S /\ \A y \in S : y <= Max(S)
<1> DEFINE T == {n \in Nat : \A y \in S : y <= n}
           R == OpToRel(<, Nat)
<1>1. B \in T
  OBVIOUS
<1>2. \E x \in T : \A y \in T : ~(<<y, x>> \in R)
  <2> HIDE DEF R
  <2>1. IsWellFoundedOn(R, Nat)
    BY NatLessThanWellFounded, Zenon DEF R
  <2>2. T \subseteq Nat /\ T # {}
    BY <1>1
  <2> HIDE DEF T
  <2> QED BY <2>1, <2>2, WFMin
<1>3. PICK m \in T : \A y \in T : ~(<<y, m>> \in R)
  BY <1>2
<1>4. \A y \in Nat : y < m => <<y, m>> \in R
  BY Zenon DEF OpToRel
<1>5. m \in S
  <2>1. SUFFICES ASSUME m \notin S PROVE FALSE
    OBVIOUS
  <2>2. PICK s \in S : TRUE
    OBVIOUS
  <2>3. m - 1 \in T
    BY <2>1, <2>2
  <2> HIDE DEF T, R
  <2>4. m - 1 \in Nat /\ m - 1 < m
    BY <2>3 DEF T
  <2> QED BY <2>3, <2>4, <1>3, <1>4
<1> QED
  BY <1>5 DEF Max

(* A set of numbers has a least one. *)
LEMMA LeastOfNat ==
  ASSUME NEW S, S \subseteq Nat, S # {}
  PROVE  \E m \in S : \A y \in S : m <= y
<1> DEFINE R == OpToRel(<, Nat)
<1>1. IsWellFoundedOn(R, Nat)
  BY NatLessThanWellFounded, Zenon DEF R
<1>2. \A x, y \in Nat : y < x => <<y, x>> \in R
  BY Zenon DEF OpToRel
<1> HIDE DEF R
<1>3. \E x \in S : \A y \in S : ~(<<y, x>> \in R)
  BY <1>1, WFMin
<1>4. PICK x \in S : \A y \in S : ~(<<y, x>> \in R)
  BY <1>3
<1>5. \A y \in S : ~(y < x)
  BY <1>2, <1>4
<1>6. \A y \in S : x <= y
  BY <1>5
<1> QED
  BY <1>6

(* The rowid of an insert is above every rowid of the table. *)
LEMMA NextRowidAbove ==
  ASSUME EvTypeOK
  PROVE  /\ NextRowid \in Nat \ {0}
         /\ \A e \in EventIds : event_log[e] # Absent => event_log[e].rowid < NextRowid
<1> DEFINE S == {r.rowid : r \in Rows} \cup {0}
<1>1. \A e \in EventIds : event_log[e] # Absent => event_log[e] \in EventRecord
  BY DEF EvTypeOK
<1>2. \A r \in Rows : r \in EventRecord
  BY <1>1 DEF Rows
<1>3. \A r \in EventRecord : r.rowid \in Nat /\ r.rowid <= MaxRowid
  BY EventAssumption DEF EventRecord
<1>4. S \subseteq Nat /\ S # {} /\ \A y \in S : y <= MaxRowid
  BY <1>2, <1>3, EventAssumption
<1>5. Max(S) \in S /\ \A y \in S : y <= Max(S)
  <2> HIDE DEF S
  <2> QED BY <1>4, EventAssumption, MaxOfBounded
<1>6. \A e \in EventIds : event_log[e] # Absent => event_log[e].rowid \in S
  BY DEF Rows
<1>7. NextRowid = 1 + Max(S)
  BY Zenon DEF NextRowid
<1>8. PICK k \in Nat : k = Max(S)
  BY <1>4, <1>5
<1> HIDE DEF S
<1>9. \A y \in S : y \in Nat /\ y < 1 + k
  BY <1>4, <1>5, <1>8
<1> QED
  BY <1>6, <1>7, <1>8, <1>9

(* Nothing is logged, indexed or embedded at the start. *)
LEMMA EvInitInv == EvInit => EvInv
BY DEF EvInit, EvInv, EvTypeOK, EmbeddingsFollowRow, IndexCurrent, StaleBelow

(* An insert files its row under a rowid the index has never seen. *)
LEMMA EventInsertInv ==
  ASSUME EvInv, NEW e \in EventIds, NEW ns \in Namespaces, NEW c \in SUBSET Terms,
         EventInsert(e, ns, c)
  PROVE  EvInv'
<1> DEFINE n == NextRowid
           row == [rowid |-> n, namespace |-> ns, content |-> c]
           entry == [rowid |-> n, content |-> c]
<1>1. n \in 1 .. MaxRowid /\ \A x \in EventIds : event_log[x] # Absent => event_log[x].rowid < n
  BY NextRowidAbove, EventAssumption DEF EvInv, EventInsert
<1>2. event_log' = [event_log EXCEPT ![e] = row] /\ event_fts' = event_fts \cup {entry}
        /\ event_embeddings' = {v \in event_embeddings : v.event # e}
  BY Zenon DEF EventInsert, CascadeReplace
<1> HIDE DEF n
<1>3. row \in EventRecord /\ row # Absent
  BY <1>1, EventAssumption DEF EventRecord
<1>4. \A x \in EventIds : event_log[x] # Absent => event_log[x] \in EventRecord
  BY DEF EvInv, EvTypeOK
<1>5. \A f \in event_fts : f.rowid \in Nat /\ f.rowid < n
  <2>1. \A f \in event_fts : f.rowid \in Nat
    BY EventAssumption DEF EvInv, EvTypeOK
  <2> QED BY <1>1, <1>4, <2>1, EventAssumption DEF EvInv, StaleBelow, EventRecord
<1>6. event_log'[e] = row /\ \A x \in EventIds \ {e} : event_log'[x] = event_log[x]
  BY <1>2 DEF EvInv, EvTypeOK
<1>7. EvTypeOK'
  BY <1>1, <1>2, <1>3 DEF EvInv, EvTypeOK
<1>8. EmbeddingsFollowRow'
  BY <1>2, <1>6 DEF EvInv, EmbeddingsFollowRow, EvTypeOK
<1>9. IndexCurrent'
  <2> SUFFICES ASSUME NEW x \in EventIds, event_log'[x] # Absent
               PROVE  /\ [rowid |-> event_log'[x].rowid, content |-> event_log'[x].content] \in event_fts'
                      /\ \A f \in event_fts' : f.rowid = event_log'[x].rowid => f.content = event_log'[x].content
    BY DEF IndexCurrent
  <2>1. CASE x = e
    BY <2>1, <1>1, <1>2, <1>5, <1>6
  <2>2. CASE x # e
    <3>1. event_log'[x] = event_log[x] /\ event_log[x].rowid < n /\ event_log[x].rowid \in Nat
      BY <2>2, <1>1, <1>4, <1>6, EventAssumption DEF EventRecord
    <3> QED BY <3>1, <1>1, <1>2 DEF EvInv, IndexCurrent
  <2> QED BY <2>1, <2>2
<1>10. StaleBelow'
  <2> SUFFICES ASSUME NEW f \in event_fts'
               PROVE  event_log'[e] # Absent /\ f.rowid <= event_log'[e].rowid
    BY DEF StaleBelow
  <2> QED BY <1>1, <1>2, <1>3, <1>5, <1>6
<1> QED
  BY <1>7, <1>8, <1>9, <1>10 DEF EvInv

(* An embedding is stored for the row the event has. *)
LEMMA EmbeddingInv ==
  ASSUME EvInv, NEW e \in EventIds, NEW m \in ModelSigs, EventEmbeddingUpsert(e, m)
  PROVE  EvInv'
<1>1. event_log[e] \in EventRecord
  BY DEF EvInv, EvTypeOK, EventEmbeddingUpsert
<1>2. event_log' = event_log /\ event_fts' = event_fts
  BY DEF EventEmbeddingUpsert
<1>3. \A v \in event_embeddings' :
        v \in event_embeddings \/ v = [event |-> e, model |-> m, stored |-> event_log[e].rowid]
  BY DEF EventEmbeddingUpsert
<1>4. EvTypeOK'
  BY <1>1, <1>2, <1>3 DEF EvInv, EvTypeOK, EventRecord
<1>5. EmbeddingsFollowRow'
  BY <1>2, <1>3 DEF EvInv, EmbeddingsFollowRow, EventEmbeddingUpsert
<1> QED
  BY <1>2, <1>4, <1>5 DEF EvInv, IndexCurrent, StaleBelow

LEMMA EvStepInv == EvInv /\ [EvNext]_evVars => EvInv'
<1> SUFFICES ASSUME EvInv, [EvNext]_evVars PROVE EvInv'
  OBVIOUS
<1>1. CASE UNCHANGED evVars
  BY <1>1 DEF evVars, EvInv, EvTypeOK, EmbeddingsFollowRow, IndexCurrent, StaleBelow
<1> QED
  BY <1>1, EventInsertInv, EmbeddingInv DEF EvNext

(* The join of the index with the table answers by the present text. *)
LEMMA JoinFaithful == EvInv => SearchFaithful
<1> SUFFICES ASSUME EvInv, NEW ns \in Namespaces, NEW q \in (SUBSET Terms) \ {{}}
             PROVE  EventSearchFts(ns, q) =
                      {e \in EventIds : event_log[e] # Absent /\ event_log[e].namespace = ns
                                        /\ q \subseteq event_log[e].content}
  BY DEF SearchFaithful
<1>1. \A e \in EventIds : event_log[e] # Absent =>
        ((\E f \in event_fts : f.rowid = event_log[e].rowid /\ q \subseteq f.content)
           <=> q \subseteq event_log[e].content)
  <2> SUFFICES ASSUME NEW e \in EventIds, event_log[e] # Absent
               PROVE  (\E f \in event_fts : f.rowid = event_log[e].rowid /\ q \subseteq f.content)
                        <=> q \subseteq event_log[e].content
    OBVIOUS
  <2> DEFINE entry == [rowid |-> event_log[e].rowid, content |-> event_log[e].content]
  <2>1. entry \in event_fts /\ entry.rowid = event_log[e].rowid /\ entry.content = event_log[e].content
    BY DEF EvInv, IndexCurrent
  <2>2. \A f \in event_fts : f.rowid = event_log[e].rowid => f.content = event_log[e].content
    BY DEF EvInv, IndexCurrent
  <2> HIDE DEF entry
  <2> QED BY <2>1, <2>2
<1> QED
  BY <1>1 DEF EventSearchFts

(* The event log, for any events, namespaces, words and models: a search
   answers by the present text of each event, and every vector belongs to the
   row its event has now (event_insert, event_search_fts). *)
THEOREM EventsCorrect == EvSpec => []EventsSound
<1>1. EvInv => EventsSound
  BY JoinFaithful DEF EvInv, EventsSound
<1> QED
  BY <1>1, EvInitInv, EvStepInv, PTL DEF EvSpec

---------------------------------------------------------------------------
(* The profile.                                                            *)

(* A row says the strongest of the claims cs and the choice u. *)
Faithful(r, cs, u) ==
  AsClaim(r) \in cs /\ (\A c \in cs : c.confidence <= r.confidence) /\ r.user_state = u

RowsFaithful == \A r \in user_profile : Faithful(r, claims[Slot(r)], chosen[Slot(r)])

PfInv == PfTypeOK /\ detector \subseteq ProfileFacet /\ FacetKeysUnique /\ RowsFaithful

(* The part of the invariant that is about the rows. *)
PfRows == PfTypeOK /\ FacetKeysUnique /\ RowsFaithful

(* What a row says of its slot and its claim. *)
LEMMA RowFacts ==
  \A r \in ProfileFacet : /\ Slot(r) \in Slots /\ AsClaim(r) \in Claim /\ r.user_state \in UserState
                          /\ r.confidence \in Nat /\ AsClaim(r).confidence = r.confidence
BY ProfileAssumption DEF ProfileFacet, Slot, Slots, AsClaim, Claim

(* A merge keeps the row's keys and choice and takes the stronger of the two claims. *)
LEMMA MergeFacts ==
  ASSUME NEW r \in ProfileFacet, NEW c \in Claim, r.evidence_count < MaxEvidence
  PROVE  LET m == MergeClaim(r, c)
         IN  /\ m \in ProfileFacet /\ m.facet_id = r.facet_id /\ Slot(m) = Slot(r)
             /\ m.user_state = r.user_state
             /\ AsClaim(m) = IF c.confidence >= r.confidence THEN c ELSE AsClaim(r)
<1>1. r.evidence_count + 1 \in 1 .. MaxEvidence
  BY ProfileAssumption DEF ProfileFacet
<1>2. c = [value |-> c.value, confidence |-> c.confidence] /\ c.value \in FacetValues
        /\ c.confidence \in 0 .. MaxConfidence
  BY DEF Claim
<1>3. CASE c.confidence >= r.confidence
  BY <1>1, <1>2, <1>3 DEF ProfileFacet, MergeClaim, Slot, AsClaim
<1>4. CASE ~(c.confidence >= r.confidence)
  BY <1>1, <1>4 DEF ProfileFacet, MergeClaim, Slot, AsClaim
<1> QED
  BY <1>3, <1>4

(* A new facet is a row of the table. *)
LEMMA NewFacetFacts ==
  ASSUME NEW id \in FacetIds, NEW s \in Slots, NEW c \in Claim
  PROVE  LET m == NewFacet(id, s, c)
         IN  m \in ProfileFacet /\ m.facet_id = id /\ Slot(m) = s /\ AsClaim(m) = c
<1>1. s = <<s[1], s[2]>> /\ s[1] \in FacetTypes /\ s[2] \in FacetKeys
  BY DEF Slots
<1>2. c = [value |-> c.value, confidence |-> c.confidence] /\ c.value \in FacetValues
        /\ c.confidence \in 0 .. MaxConfidence
  BY DEF Claim
<1> QED
  BY <1>1, <1>2, ProfileAssumption DEF ProfileFacet, NewFacet, Slot, AsClaim, FacetState, UserState

(* The histories keep their types, and those of the other slots what they say. *)
LEMMA EndedFacts ==
  ASSUME PfTypeOK, NEW slots, Ended(slots)
  PROVE  /\ claims' \in [Slots -> SUBSET Claim] /\ chosen' \in [Slots -> UserState]
         /\ \A s \in Slots \ slots : claims'[s] = claims[s] /\ chosen'[s] = chosen[s]
<1>1. claims' = [s \in Slots |-> IF s \in slots THEN {} ELSE claims[s]]
      /\ chosen' = [s \in Slots |-> IF s \in slots THEN "auto" ELSE chosen[s]]
  BY Zenon DEF Ended
<1>2. "auto" \in UserState
  BY DEF UserState
<1> QED
  BY <1>1, <1>2 DEF PfTypeOK

LEMMA MadeFacts ==
  ASSUME PfTypeOK, NEW row \in ProfileFacet, NEW slots, Made(row, slots)
  PROVE  /\ claims' \in [Slots -> SUBSET Claim] /\ chosen' \in [Slots -> UserState]
         /\ \A s \in Slots : s # Slot(row) /\ s \notin slots => claims'[s] = claims[s] /\ chosen'[s] = chosen[s]
         /\ claims'[Slot(row)] = {AsClaim(row)} /\ chosen'[Slot(row)] = row.user_state
<1>1. claims' = [s \in Slots |-> IF s = Slot(row) THEN {AsClaim(row)}
                               ELSE IF s \in slots THEN {} ELSE claims[s]]
      /\ chosen' = [s \in Slots |-> IF s = Slot(row) THEN row.user_state
                               ELSE IF s \in slots THEN "auto" ELSE chosen[s]]
  BY Zenon DEF Made
<1>2. "auto" \in UserState
  BY DEF UserState
<1> QED
  BY <1>1, <1>2, RowFacts DEF PfTypeOK

(* A row says what it was made of. *)
LEMMA MadeFaithful ==
  ASSUME NEW row \in ProfileFacet
  PROVE  Faithful(row, {AsClaim(row)}, row.user_state)
BY RowFacts DEF Faithful

(* What is left when rows are removed, with the history of their slots. *)
LEMMA RemoveInv ==
  ASSUME PfInv, NEW gone, gone \subseteq user_profile, RemoveFacets(gone)
  PROVE  PfRows'
<1>1. user_profile' = user_profile \ gone /\ Ended({Slot(r) : r \in gone})
  BY DEF RemoveFacets
<1>2. PfTypeOK'
  BY <1>1, EndedFacts DEF PfInv, PfTypeOK
<1>3. FacetKeysUnique'
  BY <1>1 DEF PfInv, FacetKeysUnique
<1>4. ASSUME NEW r \in user_profile' PROVE Faithful(r, claims'[Slot(r)], chosen'[Slot(r)])
  <2>1. r \in user_profile /\ r \notin gone /\ r \in ProfileFacet
    BY <1>1 DEF PfInv, PfTypeOK
  <2>2. Slot(r) \in Slots \ {Slot(t) : t \in gone}
    BY <2>1, RowFacts DEF PfInv, FacetKeysUnique
  <2>3. claims'[Slot(r)] = claims[Slot(r)] /\ chosen'[Slot(r)] = chosen[Slot(r)]
    BY <1>1, <2>2, EndedFacts DEF PfInv
  <2> QED BY <2>1, <2>3 DEF PfInv, RowsFaithful
<1> QED
  BY <1>2, <1>3, <1>4 DEF PfRows, RowsFaithful

(* profile_upsert: the merge of a claim, or the first claim of a slot. *)
LEMMA UpsertInv ==
  ASSUME PfInv, NEW id \in FacetIds, NEW s \in Slots, NEW c \in Claim, ProfileUpsert(id, s, c)
  PROVE  PfRows'
<1>0. /\ user_profile \subseteq ProfileFacet /\ claims \in [Slots -> SUBSET Claim]
      /\ chosen \in [Slots -> UserState] /\ FacetKeysUnique /\ RowsFaithful
  BY DEF PfInv, PfTypeOK
<1> DEFINE existing == {r \in user_profile : Slot(r) = s}
<1>1. CASE existing # {}
  <2>1. PICK r \in user_profile :
          /\ Slot(r) = s /\ r.evidence_count < MaxEvidence
          /\ user_profile' = (user_profile \ {r}) \cup {MergeClaim(r, c)}
          /\ claims' = [claims EXCEPT ![s] = @ \cup {c}] /\ chosen' = chosen
    BY <1>1 DEF ProfileUpsert
  <2> DEFINE m == MergeClaim(r, c)
  <2>2. /\ m \in ProfileFacet /\ m.facet_id = r.facet_id /\ Slot(m) = s
        /\ m.user_state = r.user_state
        /\ AsClaim(m) = IF c.confidence >= r.confidence THEN c ELSE AsClaim(r)
    BY <1>0, <2>1, MergeFacts
  <2> HIDE DEF m
  <2>3. \A t \in user_profile' : t = m \/ (t \in user_profile /\ t # r)
    BY <2>1 DEF m
  <2>4. PfTypeOK'
    <3>1. claims' \in [Slots -> SUBSET Claim]
      BY <1>0, <2>1
    <3> QED BY <1>0, <2>1, <2>2, <2>3, <3>1 DEF PfTypeOK
  <2>5. FacetKeysUnique'
    <3>1. \A t \in user_profile : t # r => t.facet_id # m.facet_id /\ Slot(t) # Slot(m)
      BY <1>0, <2>1, <2>2 DEF FacetKeysUnique
    <3> QED BY <1>0, <2>3, <3>1 DEF FacetKeysUnique
  <2>6. ASSUME NEW t \in user_profile' PROVE Faithful(t, claims'[Slot(t)], chosen'[Slot(t)])
    <3>1. CASE t = m
      <4>1. claims'[s] = claims[s] \cup {c} /\ claims[s] \subseteq Claim /\ chosen'[s] = chosen[s]
        BY <1>0, <2>1
      <4>2. Faithful(r, claims[s], chosen[s]) /\ r \in ProfileFacet
        BY <1>0, <2>1 DEF RowsFaithful
      <4>3. /\ AsClaim(r) \in claims[s] /\ r.user_state = chosen[s]
            /\ \A d \in claims[s] : d.confidence <= r.confidence
        BY <4>2 DEF Faithful
      <4>4. /\ r.confidence \in Nat /\ AsClaim(r).confidence = r.confidence
            /\ AsClaim(m).confidence = m.confidence /\ m.confidence \in Nat
        BY <4>2, <2>2, RowFacts
      <4>5. c.confidence \in Nat /\ \A d \in claims[s] : d.confidence \in Nat
        BY <4>1, ProfileAssumption DEF Claim
      <4>6. \A d \in claims[s] \cup {c} : d.confidence <= m.confidence
        <5>1. CASE c.confidence >= r.confidence
          <6>1. m.confidence = c.confidence
            BY <5>1, <2>2, <4>4
          <6> QED BY <5>1, <6>1, <4>3, <4>4, <4>5
        <5>2. CASE ~(c.confidence >= r.confidence)
          <6>1. m.confidence = r.confidence
            BY <5>2, <2>2, <4>4
          <6> QED BY <5>2, <6>1, <4>3, <4>4, <4>5
        <5> QED BY <5>1, <5>2
      <4>7. AsClaim(m) \in claims[s] \cup {c}
        BY <2>2, <4>3
      <4> QED BY <3>1, <2>2, <4>1, <4>3, <4>6, <4>7 DEF Faithful
    <3>2. CASE t # m
      <4>1. t \in user_profile /\ Slot(t) # s /\ Slot(t) \in Slots
        BY <3>2, <2>1, <2>3, <1>0, RowFacts DEF FacetKeysUnique
      <4>2. claims'[Slot(t)] = claims[Slot(t)] /\ chosen'[Slot(t)] = chosen[Slot(t)]
        BY <4>1, <1>0, <2>1
      <4> QED BY <4>1, <4>2, <1>0 DEF RowsFaithful
    <3> QED BY <3>1, <3>2
  <2> QED BY <2>4, <2>5, <2>6 DEF PfRows, RowsFaithful
<1>2. CASE existing = {}
  <2> DEFINE m == NewFacet(id, s, c)
  <2>1. /\ \A r \in user_profile : r.facet_id # id
        /\ user_profile' = user_profile \cup {m} /\ Made(m, {})
    BY <1>2 DEF ProfileUpsert
  <2>2. m \in ProfileFacet /\ m.facet_id = id /\ Slot(m) = s
    BY NewFacetFacts
  <2> HIDE DEF m
  <2>3. /\ claims' \in [Slots -> SUBSET Claim] /\ chosen' \in [Slots -> UserState]
        /\ \A x \in Slots : x # s => claims'[x] = claims[x] /\ chosen'[x] = chosen[x]
        /\ claims'[s] = {AsClaim(m)} /\ chosen'[s] = m.user_state
    BY <2>1, <2>2, MadeFacts DEF PfInv
  <2>4. PfTypeOK'
    BY <1>0, <2>1, <2>2, <2>3 DEF PfTypeOK
  <2>5. FacetKeysUnique'
    BY <1>0, <1>2, <2>1, <2>2 DEF FacetKeysUnique
  <2>6. ASSUME NEW t \in user_profile' PROVE Faithful(t, claims'[Slot(t)], chosen'[Slot(t)])
    <3>1. CASE t = m
      BY <3>1, <2>2, <2>3, MadeFaithful
    <3>2. CASE t # m
      <4>1. t \in user_profile /\ Slot(t) # s /\ Slot(t) \in Slots
        BY <3>2, <1>2, <2>1, <1>0, RowFacts
      <4> QED BY <4>1, <2>3, <1>0 DEF RowsFaithful
    <3> QED BY <3>1, <3>2
  <2> QED BY <2>4, <2>5, <2>6 DEF PfRows, RowsFaithful
<1> QED
  BY <1>1, <1>2

(* profile_upsert_full, of a facet made anew: the REPLACE deletes both rows it
   may conflict with. *)
LEMMA UpsertFullInv ==
  ASSUME PfInv, NEW row \in ProfileFacet, NEW from \in ProfileFacet, ProfileUpsertFull(row),
         Made(from, Bearers(row.facet_id)), Slot(from) = Slot(row),
         AsClaim(from) = AsClaim(row), from.user_state = row.user_state
  PROVE  PfRows'
<1>0. /\ user_profile \subseteq ProfileFacet /\ FacetKeysUnique /\ RowsFaithful
  BY DEF PfInv, PfTypeOK
<1> DEFINE others == {r \in user_profile : r.facet_id # row.facet_id /\ Slot(r) # Slot(row)}
<1>1. user_profile' = others \cup {row}
  BY Zenon DEF ProfileUpsertFull
<1>2. /\ claims' \in [Slots -> SUBSET Claim] /\ chosen' \in [Slots -> UserState]
      /\ \A s \in Slots : s # Slot(row) /\ s \notin Bearers(row.facet_id)
                            => claims'[s] = claims[s] /\ chosen'[s] = chosen[s]
      /\ claims'[Slot(row)] = {AsClaim(row)} /\ chosen'[Slot(row)] = row.user_state
  BY MadeFacts DEF PfInv
<1>3. PfTypeOK'
  BY <1>0, <1>1, <1>2 DEF PfTypeOK
<1>4. FacetKeysUnique'
  BY <1>0, <1>1 DEF FacetKeysUnique
<1>5. ASSUME NEW t \in user_profile' PROVE Faithful(t, claims'[Slot(t)], chosen'[Slot(t)])
  <2>1. CASE t = row
    BY <2>1, <1>2, MadeFaithful
  <2>2. CASE t # row
    <3>1. t \in user_profile /\ t.facet_id # row.facet_id /\ Slot(t) # Slot(row) /\ Slot(t) \in Slots
      BY <2>2, <1>0, <1>1, RowFacts
    <3>2. Slot(t) \notin Bearers(row.facet_id)
      <4> SUFFICES ASSUME NEW u \in user_profile, u.facet_id = row.facet_id, Slot(u) = Slot(t)
                   PROVE  FALSE
        BY DEF Bearers
      <4> QED BY <3>1, <1>0 DEF FacetKeysUnique
    <3> QED BY <3>1, <3>2, <1>0, <1>2 DEF RowsFaithful
  <2> QED BY <2>1, <2>2
<1> QED
  BY <1>3, <1>4, <1>5 DEF PfRows, RowsFaithful

(* The write-back of a row that is still as it was read. *)
LEMMA WriteBackInv ==
  ASSUME PfInv, NEW r \in user_profile, NEW row \in ProfileFacet, ProfileUpsertFull(row),
         row.facet_id = r.facet_id, Slot(row) = Slot(r), AsClaim(row) = AsClaim(r),
         row.user_state = r.user_state, row.confidence = r.confidence, UNCHANGED <<claims, chosen>>
  PROVE  PfRows'
<1>0. /\ user_profile \subseteq ProfileFacet /\ FacetKeysUnique /\ RowsFaithful /\ PfTypeOK
  BY DEF PfInv, PfTypeOK
<1>1. user_profile' = {t \in user_profile : t.facet_id # row.facet_id /\ Slot(t) # Slot(row)} \cup {row}
  BY Zenon DEF ProfileUpsertFull
<1>2. PfTypeOK'
  BY <1>0, <1>1 DEF PfTypeOK
<1>3. FacetKeysUnique'
  BY <1>0, <1>1 DEF FacetKeysUnique
<1>4. ASSUME NEW t \in user_profile' PROVE Faithful(t, claims'[Slot(t)], chosen'[Slot(t)])
  <2>1. Faithful(r, claims[Slot(r)], chosen[Slot(r)])
    BY <1>0 DEF RowsFaithful
  <2>2. CASE t = row
    BY <2>1, <2>2 DEF Faithful
  <2>3. CASE t # row
    BY <2>3, <1>0, <1>1 DEF RowsFaithful
  <2> QED BY <2>2, <2>3
<1> QED
  BY <1>2, <1>3, <1>4 DEF PfRows, RowsFaithful

(* set_facet_user_state touches neither keys nor claims. *)
LEMMA UserStateInv ==
  ASSUME PfInv, NEW k \in FacetKeys, NEW us \in UserState, ProfileSetUserState(k, us)
  PROVE  PfRows'
<1>0. /\ user_profile \subseteq ProfileFacet /\ claims \in [Slots -> SUBSET Claim]
      /\ chosen \in [Slots -> UserState] /\ FacetKeysUnique /\ RowsFaithful
  BY DEF PfInv, PfTypeOK
<1> DEFINE stamp(r) == IF r.key = k THEN [r EXCEPT !.user_state = us] ELSE r
           choice(s) == IF s[2] = k /\ (\E r \in user_profile : Slot(r) = s) THEN us ELSE chosen[s]
<1>1. \A r \in ProfileFacet : /\ stamp(r) \in ProfileFacet /\ stamp(r).facet_id = r.facet_id
                              /\ Slot(stamp(r)) = Slot(r) /\ AsClaim(stamp(r)) = AsClaim(r)
                              /\ stamp(r).confidence = r.confidence
                              /\ stamp(r).user_state = IF Slot(r)[2] = k THEN us ELSE r.user_state
  BY DEF ProfileFacet, Slot, AsClaim
<1>2. /\ user_profile' = {stamp(r) : r \in user_profile} /\ claims' = claims
      /\ chosen' = [s \in Slots |-> choice(s)]
  BY Zenon DEF ProfileSetUserState
<1> HIDE DEF stamp
<1>3. \A t \in user_profile' : \E r \in user_profile :
        /\ t = stamp(r) /\ t \in ProfileFacet /\ t.facet_id = r.facet_id /\ r \in ProfileFacet
        /\ Slot(t) = Slot(r) /\ AsClaim(t) = AsClaim(r) /\ t.confidence = r.confidence
        /\ t.user_state = IF Slot(r)[2] = k THEN us ELSE r.user_state
  BY <1>0, <1>1, <1>2
<1>4. PfTypeOK'
  <2>1. \A s \in Slots : choice(s) \in UserState
    BY <1>0
  <2> QED BY <1>0, <1>2, <1>3, <2>1 DEF PfTypeOK
<1>5. FacetKeysUnique'
  BY <1>0, <1>3 DEF FacetKeysUnique
<1>6. ASSUME NEW t \in user_profile' PROVE Faithful(t, claims'[Slot(t)], chosen'[Slot(t)])
  <2>1. PICK r \in user_profile :
        /\ r \in ProfileFacet /\ Slot(t) = Slot(r) /\ AsClaim(t) = AsClaim(r) /\ t.confidence = r.confidence
        /\ t.user_state = IF Slot(r)[2] = k THEN us ELSE r.user_state
    BY <1>3
  <2>2. Faithful(r, claims[Slot(r)], chosen[Slot(r)]) /\ Slot(r) \in Slots
    BY <1>0, <2>1, RowFacts DEF RowsFaithful
  <2>3. chosen'[Slot(r)] = IF Slot(r)[2] = k THEN us ELSE chosen[Slot(r)]
    BY <1>2, <2>2
  <2> QED BY <1>2, <2>1, <2>2, <2>3 DEF Faithful
<1> QED
  BY <1>4, <1>5, <1>6 DEF PfRows, RowsFaithful

LEMMA PfStepInv == PfInv /\ [PfNext]_pfVars => PfInv'
<1> SUFFICES ASSUME PfInv, [PfNext]_pfVars PROVE PfInv'
  OBVIOUS
<1>1. CASE UNCHANGED pfVars
  BY <1>1 DEF pfVars, PfInv, PfTypeOK, FacetKeysUnique, RowsFaithful
<1>2. CASE ProfileStep /\ UNCHANGED detector
  <2>1. ASSUME NEW id \in FacetIds, NEW s \in Slots, NEW c \in Claim, ProfileUpsert(id, s, c)
        PROVE  PfRows'
    BY <2>1, UpsertInv
  <2>2. ASSUME NEW id \in FacetIds, NEW s \in Slots, NEW c \in Claim, UpsertFacet(NewFacet(id, s, c))
        PROVE  PfRows'
    <3>1. NewFacet(id, s, c) \in ProfileFacet
      BY NewFacetFacts
    <3> QED BY <2>2, <3>1, UpsertFullInv DEF UpsertFacet
  <2>3. ASSUME NEW k \in FacetKeys, NEW us \in UserState, ProfileSetUserState(k, us)
        PROVE  PfRows'
    BY <2>3, UserStateInv
  <2>4. ASSUME NEW k \in FacetKeys, ProfileDeleteByKey(k) PROVE PfRows'
    BY <2>4, RemoveInv DEF ProfileDeleteByKey
  <2>5. ASSUME NEW id \in FacetIds, DeleteByFacetId(id) PROVE PfRows'
    BY <2>5, RemoveInv DEF DeleteByFacetId
  <2>6. ASSUME NEW t \in 0 .. MaxStability + 1, ProfileDeleteBelowThreshold(t) PROVE PfRows'
    BY <2>6, RemoveInv DEF ProfileDeleteBelowThreshold
  <2>7. PfRows'
    BY <1>2, <2>1, <2>2, <2>3, <2>4, <2>5, <2>6 DEF ProfileStep
  <2> QED BY <1>2, <2>7 DEF PfInv, PfRows
<1>3. CASE DetectorReads
  <2>1. user_profile' = user_profile /\ claims' = claims /\ chosen' = chosen /\ detector' \subseteq user_profile
    BY <1>3 DEF DetectorReads
  <2> QED BY <2>1 DEF PfInv, PfTypeOK, FacetKeysUnique, RowsFaithful
<1>4. CASE DetectorWrites
  <2>1. PICK r \in detector, st \in 0 .. MaxStability, state \in {"active", "dropped"} :
          /\ ProfileUpsertFull([r EXCEPT !.stability = st, !.state = state])
          /\ \/ r \in user_profile /\ UNCHANGED <<claims, chosen>>
             \/ r \notin user_profile /\ Made(r, Bearers(r.facet_id))
    BY <1>4 DEF DetectorWrites
  <2> DEFINE row == [r EXCEPT !.stability = st, !.state = state]
  <2>2. /\ r \in ProfileFacet /\ row \in ProfileFacet /\ row.facet_id = r.facet_id
        /\ Slot(row) = Slot(r) /\ AsClaim(row) = AsClaim(r) /\ row.user_state = r.user_state
        /\ row.confidence = r.confidence
    BY <2>1 DEF PfInv, ProfileFacet, FacetState, Slot, AsClaim
  <2>3. detector' = {}
    BY <1>4 DEF DetectorWrites
  <2> HIDE DEF row
  <2>4. ProfileUpsertFull(row)
    BY <2>1 DEF row
  <2>5. CASE r \in user_profile /\ UNCHANGED <<claims, chosen>>
    BY <2>5, <2>2, <2>3, <2>4, WriteBackInv DEF PfInv, PfRows
  <2>6. CASE Made(r, Bearers(r.facet_id))
    BY <2>6, <2>2, <2>3, <2>4, UpsertFullInv DEF PfInv, PfRows
  <2> QED BY <2>1, <2>5, <2>6
<1> QED
  BY <1>1, <1>2, <1>3, <1>4 DEF PfNext

(* The profile, for any ids, types, keys, values and confidences: along the
   merging path, the REPLACE and the write-back of a row read earlier, a facet
   has one row, and it holds one of the strongest claims made for it and the
   user's choice, since it was made or written over unread (profile_upsert,
   profile_upsert_full, profile_delete_below_threshold). *)
THEOREM FacetsCorrect == PfSpec => []FacetsSound
<1>1. PfInit => PfInv
  BY DEF PfInit, PfInv, PfTypeOK, FacetKeysUnique, RowsFaithful, UserState
<1>2. PfInv => FacetsSound
  BY DEF PfInv, FacetsSound, RowsFaithful, Faithful, StrongestClaimWins, UserChoiceKept
<1> QED
  BY <1>1, <1>2, PfStepInv, PTL DEF PfSpec

---------------------------------------------------------------------------
(* The segments.                                                           *)

(* What an archivist carries from one call to the next. *)
Turn == [pc : {"look"}, id : Nat, timestamp : Nat, marker : {"none", "explicit", "drift"}]
Plan == [pc : {"append", "close", "create"}, id : Nat, timestamp : Nat, seg : Nat \cup {None}]
Work == [pc : {"write"}, seg : Nat, turns : Nat]

CallersTyped ==
  /\ \A s \in Sessions : archivist[s] \in {Idle} \cup Turn \cup Plan
  /\ summariser \in {Idle} \cup Work

(* A segment holds turns that were logged. *)
SegmentsLogged ==
  \A i \in DOMAIN segments :
    /\ segments[i].start <= Len(episodic)
    /\ segments[i].end # None => segments[i].end <= Len(episodic)

(* The turn in hand comes after everything filed for its session. *)
TurnIsNew ==
  \A s \in Sessions, i \in DOMAIN segments :
    archivist[s] # Idle /\ segments[i].session = s =>
      /\ segments[i].start < archivist[s].id
      /\ segments[i].end # None => segments[i].end < archivist[s].id

TurnIsLogged == \A s \in Sessions : archivist[s] # Idle => archivist[s].id <= Len(episodic)

(* Only the last segment of a session is open. *)
OpenIsLast ==
  \A i, j \in DOMAIN segments :
    segments[i].session = segments[j].session /\ segments[i].status = "open" => j <= i

(* What the archivist decided is still so: nobody else works on its session. *)
PlanHolds ==
  \A s \in Sessions :
    /\ archivist[s].pc \in {"append", "close"} =>
         /\ archivist[s].seg \in DOMAIN segments
         /\ segments[archivist[s].seg].session = s
         /\ segments[archivist[s].seg].status = "open"
    /\ archivist[s].pc = "append" => segments[archivist[s].seg].turn_count < MaxTurns
    /\ archivist[s].pc = "create" =>
         \A i \in DOMAIN segments : segments[i].session = s => segments[i].status # "open"

(* The summariser works on a segment that grows no more. *)
WorkHolds ==
  summariser # Idle =>
    /\ summariser.seg \in DOMAIN segments
    /\ segments[summariser.seg].status # "open"
    /\ summariser.turns = segments[summariser.seg].turn_count

SegInv ==
  /\ SegTypeOK /\ CallersTyped /\ SegmentsLogged /\ TurnIsNew /\ TurnIsLogged /\ OpenIsLast
  /\ PlanHolds /\ WorkHolds /\ SegmentsPartitionLog /\ SummaryCoversSegment

(* The parts of the invariant over the segments that no caller appears in. *)
SegTable == SegmentsLogged /\ OpenIsLast /\ SegmentsPartitionLog /\ SummaryCoversSegment

(* Types, as the steps below use them. *)
LEMMA SegTypes ==
  ASSUME SegInv
  PROVE  /\ Len(episodic) \in Nat
         /\ DOMAIN segments = 1 .. Len(segments) /\ Len(segments) \in Nat
         /\ \A i \in DOMAIN segments : segments[i] \in ConversationSegment
         /\ \A s \in Sessions : archivist[s] # Idle =>
              archivist[s].id \in Nat /\ archivist[s].timestamp \in Nat
         /\ \A s \in Sessions : archivist[s] = Idle <=> archivist[s].pc = "idle"
         /\ \A s \in Sessions : archivist[s].pc = "look" => archivist[s] \in Turn
         /\ \A s \in Sessions : archivist[s].pc \in {"append", "close", "create"} => archivist[s] \in Plan
         /\ summariser # Idle => summariser \in Work /\ summariser.pc = "write"
BY DEF SegInv, SegTypeOK, CallersTyped, Turn, Plan, Work, Idle

LEMMA SegInitInv == SegInit => SegInv
<1> SUFFICES ASSUME SegInit PROVE SegInv
  OBVIOUS
<1>1. SegTypeOK
  BY SegmentAssumption DEF SegInit, SegTypeOK
<1>2. CallersTyped /\ TurnIsNew /\ TurnIsLogged /\ WorkHolds
  BY DEF SegInit, CallersTyped, TurnIsNew, TurnIsLogged, WorkHolds
<1>3. PlanHolds
  BY DEF SegInit, PlanHolds, Idle
<1>4. SegmentsLogged /\ OpenIsLast /\ SegmentsPartitionLog /\ SummaryCoversSegment
  BY DEF SegInit, SegmentsLogged, OpenIsLast, SegmentsPartitionLog, SummaryCoversSegment
<1> QED
  BY <1>1, <1>2, <1>3, <1>4 DEF SegInv

(* A step that leaves both tables alone keeps what is said of them. *)
LEMMA SameTable ==
  ASSUME SegInv, UNCHANGED <<episodic, segments>>
  PROVE  SegTable'
BY DEF SegInv, SegTable, SegmentsLogged, OpenIsLast, SegmentsPartitionLog, SummaryCoversSegment

LEMMA InsertTurnInv ==
  ASSUME SegInv, NEW s \in Sessions, InsertTurn(s)
  PROVE  SegInv'
<1> DEFINE row == [session |-> s, timestamp |-> clock]
<1>1. /\ episodic' = Append(episodic, row) /\ segments' = segments /\ clock' = clock
      /\ summariser' = summariser /\ archivist[s] = Idle /\ s # SecretSession
  BY DEF InsertTurn, EpisodicInsert
<1>2. PICK marker \in {"none", "explicit", "drift"} :
        archivist' = [archivist EXCEPT ![s] = [pc |-> "look", id |-> Len(episodic) + 1,
                                               timestamp |-> clock, marker |-> marker]]
  BY DEF InsertTurn
<1> DEFINE turn == [pc |-> "look", id |-> Len(episodic) + 1, timestamp |-> clock, marker |-> marker]
<1>3. clock \in Nat /\ row \in EpisodicEntry
  BY <1>1, SegmentAssumption DEF SegInv, SegTypeOK, EpisodicEntry
<1>4. episodic' \in Seq(EpisodicEntry) /\ Len(episodic') = Len(episodic) + 1 /\ Len(episodic) \in Nat
  BY <1>1, <1>3 DEF SegInv, SegTypeOK
<1>5. turn \in Turn /\ turn # Idle /\ turn.pc = "look" /\ turn.id = Len(episodic) + 1
  BY <1>3, <1>4 DEF Turn, Idle
<1>6. DOMAIN archivist' = Sessions /\ archivist'[s] = turn
        /\ \A z \in Sessions \ {s} : archivist'[z] = archivist[z]
  BY <1>2 DEF SegInv, SegTypeOK
<1> HIDE DEF turn, row
<1>7. SegTypeOK' /\ CallersTyped'
  BY <1>1, <1>4, <1>5, <1>6 DEF SegInv, SegTypeOK, CallersTyped
<1>8. SegmentsLogged' /\ OpenIsLast' /\ SegmentsPartitionLog' /\ SummaryCoversSegment' /\ WorkHolds'
  <2>1. SegmentsLogged'
    BY <1>1, <1>4, SegTypes DEF SegInv, SegmentsLogged, ConversationSegment
  <2> QED BY <1>1, <2>1 DEF SegInv, OpenIsLast, SegmentsPartitionLog, SummaryCoversSegment, WorkHolds
<1>9. TurnIsNew'
  BY <1>1, <1>4, <1>5, <1>6, SegTypes DEF SegInv, TurnIsNew, SegmentsLogged, ConversationSegment
<1>10. TurnIsLogged'
  BY <1>4, <1>5, <1>6, SegTypes DEF SegInv, TurnIsLogged
<1>11. PlanHolds'
  BY <1>1, <1>5, <1>6 DEF SegInv, PlanHolds
<1> QED
  BY <1>7, <1>8, <1>9, <1>10, <1>11 DEF SegInv

(* The open segment of a session is the one that is looked up. *)
LEMMA OpenLookup ==
  ASSUME SegInv, NEW s \in Sessions
  PROVE  LET k == OpenSegmentForSession(s)
         IN  /\ k # None => k \in DOMAIN segments /\ segments[k].session = s /\ segments[k].status = "open"
             /\ k = None => \A i \in DOMAIN segments : segments[i].session = s => segments[i].status # "open"
<1> DEFINE open == {i \in DOMAIN segments : segments[i].session = s /\ segments[i].status = "open"}
<1>1. CASE open = {}
  BY <1>1 DEF OpenSegmentForSession
<1>2. CASE open # {}
  <2>1. PICK k \in open : \A j \in open : j <= k
    BY <1>2 DEF SegInv, OpenIsLast
  <2>2. OpenSegmentForSession(s) = CHOOSE i \in open : \A j \in open : j <= i
    BY <1>2 DEF OpenSegmentForSession
  <2>3. OpenSegmentForSession(s) \in open
    <3> HIDE DEF open
    <3> QED BY <2>1, <2>2
  <2>4. OpenSegmentForSession(s) # None
    BY <2>3, SegTypes, SegmentAssumption
  <2> QED BY <2>3, <2>4
<1> QED
  BY <1>1, <1>2

LEMMA DecideInv ==
  ASSUME SegInv, NEW s \in Sessions, DecideBoundary(s)
  PROVE  SegInv'
<1> DEFINE k == OpenSegmentForSession(s)
           next == IF k = None THEN "create"
                   ELSE IF DetectBoundary(segments[k], archivist[s]) = "continue"
                        THEN "append" ELSE "close"
           plan == [pc |-> next, id |-> archivist[s].id, timestamp |-> archivist[s].timestamp, seg |-> k]
<1>1. /\ archivist[s].pc = "look" /\ archivist' = [archivist EXCEPT ![s] = plan]
      /\ episodic' = episodic /\ segments' = segments /\ clock' = clock /\ summariser' = summariser
  BY DEF DecideBoundary
<1>2. /\ k # None => k \in DOMAIN segments /\ segments[k].session = s /\ segments[k].status = "open"
      /\ k = None => \A i \in DOMAIN segments : segments[i].session = s => segments[i].status # "open"
  BY OpenLookup
<1>3. archivist[s] # Idle /\ archivist[s] \in Turn
  BY <1>1, SegTypes DEF Idle
<1>4. k # None /\ DetectBoundary(segments[k], archivist[s]) = "continue" => segments[k].turn_count < MaxTurns
  BY <1>2, SegTypes, SegmentAssumption DEF DetectBoundary, ConversationSegment
<1> HIDE DEF k
<1>5. /\ plan.pc \in {"append", "close", "create"} /\ plan.id = archivist[s].id /\ plan.seg = k
      /\ plan.pc \in {"append", "close"} => k # None
      /\ plan.pc = "append" => DetectBoundary(segments[k], archivist[s]) = "continue"
      /\ plan.pc = "create" => k = None
  OBVIOUS
<1>6. plan \in Plan /\ plan # Idle
  BY <1>2, <1>3, <1>5, SegTypes DEF Plan, Turn, Idle
<1>7. DOMAIN archivist' = Sessions /\ archivist'[s] = plan
        /\ \A z \in Sessions \ {s} : archivist'[z] = archivist[z]
  BY <1>1 DEF SegInv, SegTypeOK
<1> HIDE DEF plan
<1>8. SegTypeOK' /\ CallersTyped'
  BY <1>1, <1>6, <1>7 DEF SegInv, SegTypeOK, CallersTyped
<1>9. TurnIsNew' /\ TurnIsLogged'
  BY <1>1, <1>3, <1>5, <1>7 DEF SegInv, TurnIsNew, TurnIsLogged
<1>10. PlanHolds'
  BY <1>1, <1>2, <1>4, <1>5, <1>7 DEF SegInv, PlanHolds
<1>11. SegTable' /\ WorkHolds'
  BY <1>1, SameTable DEF SegInv, WorkHolds
<1> QED
  BY <1>8, <1>9, <1>10, <1>11 DEF SegInv, SegTable

LEMMA DiesInv ==
  ASSUME SegInv, NEW s \in Sessions, ArchivistDies(s)
  PROVE  SegInv'
<1>1. /\ archivist' = [archivist EXCEPT ![s] = Idle]
      /\ episodic' = episodic /\ segments' = segments /\ clock' = clock /\ summariser' = summariser
  BY DEF ArchivistDies
<1>2. DOMAIN archivist' = Sessions /\ archivist'[s] = Idle
        /\ \A z \in Sessions \ {s} : archivist'[z] = archivist[z]
  BY <1>1 DEF SegInv, SegTypeOK
<1>3. SegTypeOK' /\ CallersTyped' /\ TurnIsNew' /\ TurnIsLogged'
  BY <1>1, <1>2 DEF SegInv, SegTypeOK, CallersTyped, TurnIsNew, TurnIsLogged
<1>4. PlanHolds'
  BY <1>1, <1>2 DEF SegInv, PlanHolds, Idle
<1>5. SegTable' /\ WorkHolds'
  BY <1>1, SameTable DEF SegInv, WorkHolds
<1> QED
  BY <1>3, <1>4, <1>5 DEF SegInv, SegTable

(* A row that grows by a turn. *)
Grown(r, n, a, b) == [r EXCEPT !.turn_count = n, !.end = a, !.end_timestamp = b]

LEMMA GrownRow ==
  ASSUME NEW r \in ConversationSegment, NEW n \in Nat, NEW a \in Nat, NEW b \in Nat
  PROVE  /\ Grown(r, n, a, b) \in ConversationSegment
         /\ Grown(r, n, a, b).session = r.session /\ Grown(r, n, a, b).status = r.status
         /\ Grown(r, n, a, b).start = r.start /\ Grown(r, n, a, b).end = a
         /\ Grown(r, n, a, b).turn_count = n
BY DEF ConversationSegment, Grown

(* A turn is filed under the open segment of its session, which is its last:
   the archivists of other sessions do not notice. *)
LEMMA AppendTurnInv ==
  ASSUME SegInv, NEW s \in Sessions, AppendTurn(s)
  PROVE  SegInv'
<1> DEFINE k == archivist[s].seg
           id == archivist[s].id
           ts == archivist[s].timestamp
           old == segments[k]
           new == [old EXCEPT !.turn_count = @ + 1, !.end = id, !.end_timestamp = ts]
<1>1. /\ archivist[s].pc = "append" /\ archivist' = [archivist EXCEPT ![s] = Idle]
      /\ episodic' = episodic /\ clock' = clock /\ summariser' = summariser
  BY DEF AppendTurn
<1>2. archivist[s] # Idle /\ id \in Nat /\ ts \in Nat
  BY <1>1, SegTypes DEF Idle
<1>3. k \in DOMAIN segments /\ old.session = s /\ old.status = "open" /\ old.turn_count < MaxTurns
  BY <1>1 DEF SegInv, PlanHolds
<1>4. old \in ConversationSegment
  BY <1>3, SegTypes
<1>5. segments' = [segments EXCEPT ![k] = new]
  BY DEF AppendTurn, SegmentAppendTurn
<1>6. /\ new \in ConversationSegment /\ new.session = s /\ new.status = "open" /\ new.start = old.start
      /\ new.end = id /\ new.turn_count = old.turn_count + 1
  <2>1. id \in Nat /\ ts \in Nat /\ old \in ConversationSegment /\ old.session = s /\ old.status = "open"
    BY <1>2, <1>3, <1>4
  <2> HIDE DEF id, ts, old, k
  <2>2. old.turn_count + 1 \in Nat
    BY <2>1 DEF ConversationSegment
  <2>3. PICK n \in Nat : n = old.turn_count + 1
    BY <2>2
  <2>4. PICK r \in ConversationSegment, a \in Nat, b \in Nat : r = old /\ a = id /\ b = ts
    BY <2>1
  <2>5. new = Grown(r, n, a, b)
    BY <2>3, <2>4 DEF Grown
  <2>6. /\ Grown(r, n, a, b) \in ConversationSegment
        /\ Grown(r, n, a, b).session = r.session /\ Grown(r, n, a, b).status = r.status
        /\ Grown(r, n, a, b).start = r.start /\ Grown(r, n, a, b).end = a
        /\ Grown(r, n, a, b).turn_count = n
    BY GrownRow
  <2> HIDE DEF new
  <2> QED BY <2>1, <2>3, <2>4, <2>5, <2>6
<1>7. id <= Len(episodic) /\ old.start < id /\ id # None
  BY <1>2, <1>3, SegmentAssumption DEF SegInv, TurnIsNew, TurnIsLogged
<1>8. /\ DOMAIN segments' = DOMAIN segments /\ segments'[k] = new
      /\ \A i \in DOMAIN segments : i # k => segments'[i] = segments[i]
      /\ segments' \in Seq(ConversationSegment)
  BY <1>3, <1>5, <1>6 DEF SegInv, SegTypeOK
<1>9. DOMAIN archivist' = Sessions /\ archivist'[s] = Idle
        /\ \A z \in Sessions \ {s} : archivist'[z] = archivist[z]
  BY <1>1 DEF SegInv, SegTypeOK
<1> HIDE DEF new, k, id, ts
<1>10. SegTypeOK' /\ CallersTyped' /\ TurnIsLogged'
  BY <1>1, <1>8, <1>9 DEF SegInv, SegTypeOK, CallersTyped, TurnIsLogged
<1>11. SegmentsLogged' /\ OpenIsLast' /\ SummaryCoversSegment'
  BY <1>1, <1>3, <1>6, <1>7, <1>8 DEF SegInv, SegmentsLogged, OpenIsLast, SummaryCoversSegment
<1>12. TurnIsNew'
  BY <1>3, <1>6, <1>8, <1>9 DEF SegInv, TurnIsNew
<1>13. PlanHolds'
  <2>1. archivist'[s].pc = "idle"
    BY <1>9 DEF Idle
  <2> QED BY <1>3, <1>6, <1>8, <1>9, <2>1 DEF SegInv, PlanHolds
<1>14. WorkHolds'
  BY <1>1, <1>3, <1>8 DEF SegInv, WorkHolds
<1>15. SegmentsPartitionLog'
  <2>1. \A i \in DOMAIN segments : i > k => segments[i].session # s
    BY <1>3, SegTypes DEF SegInv, OpenIsLast
  <2>2. \A i \in DOMAIN segments' : /\ segments'[i].turn_count <= MaxTurns
                                    /\ segments'[i].end # None => segments'[i].start < segments'[i].end
    <3>1. new.turn_count <= MaxTurns /\ new.start < new.end
      <4>1. old.turn_count \in Nat /\ MaxTurns \in Nat
        BY <1>4, SegmentAssumption DEF ConversationSegment
      <4> QED BY <4>1, <1>3, <1>6, <1>7
    <3> QED BY <1>8, <3>1 DEF SegInv, SegmentsPartitionLog
  <2>3. \A i, j \in DOMAIN segments' :
          (i < j /\ segments'[i].session = segments'[j].session)
            => /\ segments'[i].start < segments'[j].start
               /\ segments'[i].end # None => segments'[i].end < segments'[j].start
    BY <1>3, <1>6, <1>8, <2>1, SegTypes DEF SegInv, SegmentsPartitionLog
  <2> QED BY <2>2, <2>3 DEF SegmentsPartitionLog
<1> QED
  BY <1>10, <1>11, <1>12, <1>13, <1>14, <1>15 DEF SegInv

LEMMA CloseInv ==
  ASSUME SegInv, NEW s \in Sessions, CloseSegment(s)
  PROVE  SegInv'
<1> DEFINE k == archivist[s].seg
           old == segments[k]
           new == [old EXCEPT !.status = "closed"]
           plan == [archivist[s] EXCEPT !.pc = "create"]
<1>1. /\ archivist[s].pc = "close" /\ archivist' = [archivist EXCEPT ![s].pc = "create"]
      /\ episodic' = episodic /\ clock' = clock /\ summariser' = summariser
  BY DEF CloseSegment
<1>2. archivist[s] # Idle /\ archivist[s] \in Plan
  BY <1>1, SegTypes DEF Idle
<1>3. k \in DOMAIN segments /\ old.session = s /\ old.status = "open"
  BY <1>1 DEF SegInv, PlanHolds
<1>4. segments' = [segments EXCEPT ![k].status = "closed"]
  BY <1>3 DEF CloseSegment, SegmentClose
<1>5. segments' = [segments EXCEPT ![k] = new] /\ archivist' = [archivist EXCEPT ![s] = plan]
  BY <1>1, <1>4
<1>6. /\ new \in ConversationSegment /\ new.session = s /\ new.status = "closed" /\ new.start = old.start
      /\ new.end = old.end /\ new.turn_count = old.turn_count
  BY <1>3, SegTypes DEF ConversationSegment
<1>7. plan \in Plan /\ plan # Idle /\ plan.pc = "create" /\ plan.id = archivist[s].id
  BY <1>2 DEF Plan, Idle
<1>8. /\ DOMAIN segments' = DOMAIN segments /\ segments'[k] = new
      /\ \A i \in DOMAIN segments : i # k => segments'[i] = segments[i]
      /\ segments' \in Seq(ConversationSegment)
  BY <1>3, <1>5, <1>6 DEF SegInv, SegTypeOK
<1>9. DOMAIN archivist' = Sessions /\ archivist'[s] = plan
        /\ \A z \in Sessions \ {s} : archivist'[z] = archivist[z]
  BY <1>5 DEF SegInv, SegTypeOK
<1> HIDE DEF new, k, plan
<1>10. SegTypeOK' /\ CallersTyped' /\ TurnIsLogged'
  BY <1>1, <1>2, <1>7, <1>8, <1>9 DEF SegInv, SegTypeOK, CallersTyped, TurnIsLogged
<1>11. SegmentsLogged' /\ OpenIsLast' /\ SummaryCoversSegment'
  BY <1>1, <1>3, <1>6, <1>8 DEF SegInv, SegmentsLogged, OpenIsLast, SummaryCoversSegment
<1>12. TurnIsNew'
  BY <1>2, <1>3, <1>6, <1>7, <1>8, <1>9 DEF SegInv, TurnIsNew
<1>13. PlanHolds'
  <2>1. \A i \in DOMAIN segments : segments[i].session = s /\ segments[i].status = "open" => i = k
    BY <1>3, SegTypes DEF SegInv, OpenIsLast
  <2> QED BY <1>3, <1>6, <1>7, <1>8, <1>9, <2>1 DEF SegInv, PlanHolds
<1>14. WorkHolds'
  BY <1>1, <1>3, <1>8 DEF SegInv, WorkHolds
<1>15. SegmentsPartitionLog'
  BY <1>3, <1>6, <1>8 DEF SegInv, SegmentsPartitionLog
<1> QED
  BY <1>10, <1>11, <1>12, <1>13, <1>14, <1>15 DEF SegInv

LEMMA CreateInv ==
  ASSUME SegInv, NEW s \in Sessions, CreateSegment(s)
  PROVE  SegInv'
<1> DEFINE n == Len(segments) + 1
           id == archivist[s].id
           row == [session |-> s, start |-> id, end |-> None, start_timestamp |-> archivist[s].timestamp,
                   end_timestamp |-> None, turn_count |-> 1, status |-> "open", summary |-> None]
<1>1. /\ archivist[s].pc = "create" /\ archivist' = [archivist EXCEPT ![s] = Idle]
      /\ segments' = Append(segments, row)
      /\ episodic' = episodic /\ clock' = clock /\ summariser' = summariser
  BY DEF CreateSegment, SegmentCreate
<1>2. archivist[s] # Idle /\ id \in Nat /\ archivist[s].timestamp \in Nat
  BY <1>1, SegTypes DEF Idle
<1>3. /\ row \in ConversationSegment /\ row.session = s /\ row.status = "open" /\ row.start = id
      /\ row.end = None /\ row.turn_count = 1
  BY <1>2 DEF ConversationSegment
<1>4. \A i \in DOMAIN segments : segments[i].session = s =>
        /\ segments[i].status # "open" /\ segments[i].start < id
        /\ segments[i].end # None => segments[i].end < id
  BY <1>1, <1>2 DEF SegInv, PlanHolds, TurnIsNew
<1>5. id <= Len(episodic)
  BY <1>2 DEF SegInv, TurnIsLogged
<1>6. DOMAIN archivist' = Sessions /\ archivist'[s] = Idle
        /\ \A z \in Sessions \ {s} : archivist'[z] = archivist[z]
  BY <1>1 DEF SegInv, SegTypeOK
<1> HIDE DEF row, id
<1>7. /\ DOMAIN segments' = DOMAIN segments \cup {n} /\ segments'[n] = row
      /\ \A i \in DOMAIN segments : i < n /\ i \in Nat /\ segments'[i] = segments[i]
      /\ segments' \in Seq(ConversationSegment) /\ n \in Nat
  BY <1>1, <1>3 DEF SegInv, SegTypeOK
<1> HIDE DEF n
<1>8. SegTypeOK' /\ CallersTyped' /\ TurnIsLogged'
  BY <1>1, <1>6, <1>7 DEF SegInv, SegTypeOK, CallersTyped, TurnIsLogged
<1>9. SegmentsLogged' /\ OpenIsLast' /\ SummaryCoversSegment'
  <2>1. SegmentsLogged' /\ SummaryCoversSegment'
    BY <1>1, <1>3, <1>5, <1>7 DEF SegInv, SegmentsLogged, SummaryCoversSegment
  <2>2. OpenIsLast'
    BY <1>3, <1>4, <1>7 DEF SegInv, OpenIsLast
  <2> QED BY <2>1, <2>2
<1>10. TurnIsNew'
  BY <1>3, <1>6, <1>7 DEF SegInv, TurnIsNew
<1>11. PlanHolds'
  <2>1. archivist'[s].pc = "idle"
    BY <1>6 DEF Idle
  <2> QED BY <1>3, <1>6, <1>7, <2>1 DEF SegInv, PlanHolds
<1>12. WorkHolds'
  BY <1>1, <1>7 DEF SegInv, WorkHolds
<1>13. SegmentsPartitionLog'
  BY <1>3, <1>4, <1>7, SegmentAssumption DEF SegInv, SegmentsPartitionLog
<1> QED
  BY <1>8, <1>9, <1>10, <1>11, <1>12, <1>13 DEF SegInv

(* The oldest closed segment is a closed segment. *)
LEMMA PickInv == ASSUME SegInv, PickPending PROVE SegInv'
<1> DEFINE k == SegmentsPendingSummary
           closed == {i \in DOMAIN segments : segments[i].status = "closed"}
<1>1. /\ k # None /\ summariser' = [pc |-> "write", seg |-> k, turns |-> segments[k].turn_count]
      /\ UNCHANGED <<episodic, segments, clock, archivist>>
  BY DEF PickPending
<1>2. closed # {} /\ k = CHOOSE i \in closed : \A j \in closed : i <= j
  BY <1>1 DEF SegmentsPendingSummary
<1>3. \E i \in closed : \A j \in closed : i <= j
  <2>1. closed \subseteq Nat
    BY SegTypes
  <2> HIDE DEF closed
  <2> QED BY <1>2, <2>1, LeastOfNat
<1>4. k \in closed
  <2> HIDE DEF closed, k
  <2> QED BY <1>2, <1>3
<1>5. k \in DOMAIN segments /\ segments[k].status # "open" /\ segments[k].turn_count \in Nat /\ k \in Nat
  BY <1>4, SegTypes DEF ConversationSegment
<1> HIDE DEF k
<1>6. SegTypeOK' /\ CallersTyped' /\ TurnIsNew' /\ TurnIsLogged' /\ PlanHolds'
  BY <1>1, <1>5 DEF SegInv, SegTypeOK, CallersTyped, TurnIsNew, TurnIsLogged, PlanHolds, Work
<1>7. WorkHolds'
  BY <1>1, <1>5 DEF WorkHolds
<1> QED
  BY <1>1, <1>6, <1>7, SameTable DEF SegInv, SegTable

LEMMA SetSummaryInv == ASSUME SegInv, SetSegmentSummary PROVE SegInv'
<1> DEFINE k == summariser.seg
           old == segments[k]
           new == [old EXCEPT !.summary = summariser.turns, !.status = "summarised"]
<1>1. summariser.pc = "write" /\ summariser' = Idle /\ UNCHANGED <<episodic, clock, archivist>>
  BY DEF SetSegmentSummary
<1>2. summariser # Idle
  BY <1>1 DEF Idle
<1>3. k \in DOMAIN segments /\ old.status # "open" /\ summariser.turns = old.turn_count
  BY <1>2 DEF SegInv, WorkHolds
<1>4. segments' = [segments EXCEPT ![k] = new]
  BY DEF SetSegmentSummary, SegmentSetSummary
<1>5. /\ new \in ConversationSegment /\ new.session = old.session /\ new.status = "summarised"
      /\ new.start = old.start /\ new.end = old.end /\ new.turn_count = old.turn_count
      /\ new.summary = old.turn_count
  BY <1>3, SegTypes DEF ConversationSegment
<1> HIDE DEF new, k
<1>6. /\ DOMAIN segments' = DOMAIN segments /\ segments'[k] = new
      /\ \A i \in DOMAIN segments : i # k => segments'[i] = segments[i]
      /\ segments' \in Seq(ConversationSegment)
  BY <1>3, <1>4, <1>5 DEF SegInv, SegTypeOK
<1>7. SegTypeOK' /\ CallersTyped' /\ TurnIsLogged' /\ WorkHolds'
  BY <1>1, <1>6 DEF SegInv, SegTypeOK, CallersTyped, TurnIsLogged, WorkHolds
<1>8. SegmentsLogged' /\ OpenIsLast' /\ SummaryCoversSegment' /\ SegmentsPartitionLog'
  <2>1. SegmentsLogged' /\ SummaryCoversSegment'
    BY <1>1, <1>3, <1>5, <1>6 DEF SegInv, SegmentsLogged, SummaryCoversSegment
  <2>2. OpenIsLast'
    BY <1>3, <1>5, <1>6 DEF SegInv, OpenIsLast
  <2>3. SegmentsPartitionLog'
    BY <1>3, <1>5, <1>6 DEF SegInv, SegmentsPartitionLog
  <2> QED BY <2>1, <2>2, <2>3
<1>9. TurnIsNew' /\ PlanHolds'
  BY <1>1, <1>3, <1>5, <1>6 DEF SegInv, TurnIsNew, PlanHolds
<1> QED
  BY <1>7, <1>8, <1>9 DEF SegInv

LEMMA SegStepInv == SegInv /\ [SegNext]_segVars => SegInv'
<1> SUFFICES ASSUME SegInv, [SegNext]_segVars PROVE SegInv'
  OBVIOUS
<1>1. CASE UNCHANGED segVars
  <2>1. UNCHANGED <<episodic, segments, clock, archivist, summariser>>
    BY <1>1 DEF segVars
  <2>2. SegTypeOK' /\ CallersTyped' /\ TurnIsNew' /\ TurnIsLogged' /\ PlanHolds' /\ WorkHolds'
    BY <2>1 DEF SegInv, SegTypeOK, CallersTyped, TurnIsNew, TurnIsLogged, PlanHolds, WorkHolds
  <2> QED BY <2>1, <2>2, SameTable DEF SegInv, SegTable
<1>2. CASE Tick
  <2>1. UNCHANGED <<episodic, segments, archivist, summariser>> /\ clock' \in 0 .. MaxClock
    BY <1>2, SegmentAssumption DEF Tick, SegInv, SegTypeOK
  <2>2. SegTypeOK' /\ CallersTyped' /\ TurnIsNew' /\ TurnIsLogged' /\ PlanHolds' /\ WorkHolds'
    BY <2>1 DEF SegInv, SegTypeOK, CallersTyped, TurnIsNew, TurnIsLogged, PlanHolds, WorkHolds
  <2> QED BY <2>1, <2>2, SameTable DEF SegInv, SegTable
<1> QED
  BY <1>1, <1>2, InsertTurnInv, DecideInv, AppendTurnInv, CloseInv, CreateInv, DiesInv, PickInv,
     SetSummaryInv DEF SegNext, SegStep

(* The segments, for any number of sessions and any limits: although the
   archivists' calls interleave, an archivist may die between two of them, and
   neither segment_append_turn nor segment_set_summary looks at the status, a
   session has one open segment, its segments cut the log into consecutive
   pieces no longer than the limit, and a summary covers every turn of its
   segment. *)
THEOREM SegmentsCorrect == SegSpec => []SegmentsSound
<1>1. SegInv => SegmentsSound
  <2> SUFFICES ASSUME SegInv PROVE OneOpenPerSession
    BY DEF SegInv, SegmentsSound
  <2> QED BY SegTypes DEF SegInv, OpenIsLast, OneOpenPerSession
<1> QED
  BY <1>1, SegInitInv, SegStepInv, PTL DEF SegSpec

-----------------------------------------------------------------------------
(* The knowledge graph.  A removal writes back what it read some time ago.  What *)
(* makes that sound is that, for a relation nobody has written since, the copy    *)
(* still names every document whose evidence is expected, and none that never    *)
(* supported the row; and that a deletion which saw all rows has a copy of every  *)
(* relation only its document supports.                                           *)

Jobs == [doc : Docs, rels : SUBSET Relations]
Supports(a) == Evidence(a) \cup a.chunk_ids

\* t will write r back, and nobody has written it since t read it.
Fresh(t, r) == HoldsCopy(t, r) /\ r \notin raced

Copies == {<<>>} \cup UNION {[S -> Attrs] : S \in SUBSET Relations}
TaskRec == [at : {"idle", "read", "write", "upsert", "rows"}, doc : Docs \cup {NoRow},
            rows : Copies, todo : SUBSET Relations]

TaskOK(t) ==
  /\ task[t].at # "idle" => task[t].doc \in Docs
  /\ t # Extractor => task[t].at # "upsert"
  /\ t = Extractor => task[t].at # "rows"

KgTyped ==
  /\ graph \in [Relations -> Attrs \cup {NoRow}]
  /\ stored \subseteq Docs
  /\ jobs \in Seq(Jobs)
  /\ task \in [Tasks -> TaskRec]
  /\ expected \in [Docs -> SUBSET Relations]
  /\ sole \in [Relations -> SUBSET Docs]
  /\ \A t \in Tasks : TaskOK(t)

\* What an extraction wrote is evidence, in the row and in every fresh copy of it.
ExpectedHeld ==
  \A d \in Docs : \A r \in expected[d] \ raced :
    /\ graph[r] # NoRow /\ d \in Evidence(graph[r])
    /\ \A t \in Tasks : Fresh(t, r) => d \in Evidence(task[t].rows[r])

\* Nothing but what was merged into the row is named by it or by a fresh copy.
SupportSole ==
  \A r \in Present \ raced :
    /\ Supports(graph[r]) \subseteq sole[r]
    /\ \A t \in Tasks : Fresh(t, r) => Supports(task[t].rows[r]) \subseteq sole[r]

Only(d) == {r \in Present \ raced : sole[r] = {d}}

\* A deletion has a copy of each relation that only its document supports, and
\* after it has written there is none.
DeletionComplete ==
  \A t \in Deleters : task[t].doc \notin late =>
    /\ task[t].at = "write" => \A r \in Only(task[t].doc) : HoldsCopy(t, r)
    /\ task[t].at = "rows" => Only(task[t].doc) = {}

\* A document whose extraction is outstanding, or the only one behind a relation, is
\* stored or was deleted too early.
Known ==
  /\ \A d \in Docs : Outstanding(d) => d \in stored \cup late
  /\ \A d \in Docs : Only(d) # {} => d \in stored \cup late

Ordered ==
  /\ recent \subseteq Present \X Present
  /\ \A r, s \in Present : <<r, s>> \in recent \/ <<s, r>> \in recent
  /\ \A r, s, u \in Present : <<r, s>> \in recent /\ <<s, u>> \in recent => <<r, u>> \in recent

KgInv == KgTyped /\ Ordered /\ ExpectedHeld /\ SupportSole /\ DeletionComplete /\ Known

LEMMA CopyTyped ==
  ASSUME NEW c \in Copies, NEW r \in DOMAIN c
  PROVE  r \in Relations /\ c[r] \in Attrs
BY DEF Copies

LEMMA EmptyCopy == <<>> \in Copies
BY DEF Copies

LEMMA IdleTyped == KgIdle \in TaskRec
BY EmptyCopy DEF KgIdle, TaskRec

\* Merging and removing keep attributes attributes.
LEMMA AttrsKept ==
  ASSUME NEW a \in Attrs, NEW d \in Docs
  PROVE  /\ Without(a, d) \in Attrs
         /\ Evidence(Without(a, d)) = (Evidence(a) \ {d}) \cup {a.document_id}
         /\ Supports(Without(a, d)) \subseteq Supports(a)
         /\ NoEvidence(Without(a, d)) <=> (Supports(a) \subseteq {d})
BY DEF Attrs, Without, Evidence, Supports, NoEvidence

LEMMA MergeKeeps ==
  ASSUME graph \in [Relations -> Attrs \cup {NoRow}], NEW r \in Relations, NEW d \in Docs
  PROVE  /\ merge_graph_attrs(r, d) \in Attrs
         /\ d \in Evidence(merge_graph_attrs(r, d))
         /\ graph[r] # NoRow => /\ Evidence(merge_graph_attrs(r, d)) = Evidence(graph[r]) \cup {d}
                                /\ Supports(merge_graph_attrs(r, d)) = Supports(graph[r]) \cup {d}
         /\ graph[r] = NoRow => Supports(merge_graph_attrs(r, d)) = {d}
<1>1. CASE graph[r] = NoRow
  BY <1>1 DEF merge_graph_attrs, Attrs, Evidence, Supports
<1>2. CASE graph[r] # NoRow
  <2>1. PICK a \in Attrs : a = graph[r]
    BY <1>2
  <2>2. PICK m : m = merge_graph_attrs(r, d)
    OBVIOUS
  <2>3. m = [document_id |-> d, document_ids |-> {d} \cup Evidence(a), chunk_ids |-> {d} \cup a.chunk_ids]
    BY <1>2, <2>1, <2>2 DEF merge_graph_attrs
  <2>4. Evidence(a) \subseteq Docs /\ a.chunk_ids \subseteq Docs
    BY <2>1 DEF Attrs, Evidence
  <2>5. m \in Attrs
    BY <2>3, <2>4 DEF Attrs
  <2>6. Evidence(m) = Evidence(a) \cup {d} /\ m.chunk_ids = {d} \cup a.chunk_ids
    BY <2>3 DEF Evidence
  <2>7. Supports(m) = Supports(a) \cup {d}
    BY <2>6 DEF Supports
  <2> QED BY <1>2, <2>1, <2>2, <2>5, <2>6, <2>7
<1> QED BY <1>1, <1>2

LEMMA KgInitial == ASSUME KgInit PROVE KgInv
<1>1. KgTyped
  BY IdleTyped, GraphAssumption DEF KgInit, KgTyped, KgIdle, TaskOK, Jobs
<1>2. Present = {}
  BY DEF KgInit, Present
<1>3. Ordered
  BY <1>2 DEF KgInit, Ordered
<1>4. ExpectedHeld /\ SupportSole
  BY <1>2 DEF KgInit, ExpectedHeld, SupportSole
<1>5. DeletionComplete
  BY <1>2 DEF KgInit, DeletionComplete, KgIdle, Tasks
<1>6. Known
  BY <1>2, GraphAssumption DEF KgInit, Known, Outstanding, Only, KgIdle, Tasks
<1> QED BY <1>1, <1>3, <1>4, <1>5, <1>6 DEF KgInv

\* The rows written now come before all others: still an order of the rows there are.
LEMMA TouchOrders ==
  ASSUME Ordered, NEW S, NEW rows \in SUBSET Relations, rows \ S \subseteq Present,
         Present' = rows, recent' = Touch(S, rows)
  PROVE  Ordered'
<1>1. \A r, s : <<r, s>> \in recent' <=>
        r \in rows /\ s \in rows /\ (r \in S \/ (s \notin S /\ <<r, s>> \in recent))
  BY DEF Touch
<1>2. recent' \subseteq Present' \X Present'
  BY DEF Touch
<1>3. \A r, s \in Present' : <<r, s>> \in recent' \/ <<s, r>> \in recent'
  BY <1>1 DEF Ordered
<1>4. ASSUME NEW r \in Present', NEW s \in Present', NEW u \in Present',
             <<r, s>> \in recent', <<s, u>> \in recent'
      PROVE  <<r, u>> \in recent'
  <2>1. CASE r \in S
    BY <2>1, <1>1
  <2>2. CASE r \notin S
    <3>1. s \notin S /\ u \notin S /\ <<r, s>> \in recent /\ <<s, u>> \in recent
      BY <2>2, <1>1, <1>4
    <3>2. r \in Present /\ s \in Present /\ u \in Present
      BY <2>2, <3>1
    <3> QED BY <2>2, <3>1, <3>2, <1>1 DEF Ordered
  <2> QED BY <2>1, <2>2
<1> QED BY <1>2, <1>3, <1>4 DEF Ordered

-----------------------------------------------------------------------------
(* Steps that write no relation. *)

\* Graph and history of the rows as before, and no removal goes on with other copies.
Quiet ==
  /\ UNCHANGED <<graph, recent, expected, raced, sole>>
  /\ late \subseteq late'
  /\ \A t \in Tasks : task'[t] = task[t] \/ task'[t].at \in {"idle", "read"}

LEMMA QuietKeeps ==
  ASSUME KgInv, Quiet
  PROVE  Ordered' /\ ExpectedHeld' /\ SupportSole' /\ DeletionComplete'
<1>1. Present' = Present
  BY DEF Quiet, Present
<1>2. \A t \in Tasks : \A r : HoldsCopy(t, r)' => HoldsCopy(t, r) /\ task'[t] = task[t]
  BY DEF Quiet, HoldsCopy
<1>3. \A t \in Tasks : \A r : Fresh(t, r)' => Fresh(t, r) /\ task'[t] = task[t]
  BY <1>2 DEF Fresh, Quiet
<1>4. Ordered'
  BY <1>1 DEF KgInv, Ordered, Quiet
<1>5. ExpectedHeld'
  BY <1>3 DEF KgInv, ExpectedHeld, Quiet
<1>6. SupportSole'
  BY <1>1, <1>3 DEF KgInv, SupportSole, Quiet
<1>7. DeletionComplete'
  <2> SUFFICES ASSUME NEW t \in Deleters, task'[t].doc \notin late', task'[t].at \in {"write", "rows"}
               PROVE  /\ task'[t].at = "write" => \A r \in Only(task[t].doc)' : HoldsCopy(t, r)'
                      /\ task'[t].at = "rows" => Only(task[t].doc)' = {}
    BY DEF DeletionComplete
  <2>1. task'[t] = task[t] /\ t \in Tasks
    BY DEF Quiet, Tasks
  <2>2. \A r : HoldsCopy(t, r)' <=> HoldsCopy(t, r)
    BY <2>1 DEF HoldsCopy
  <2>3. Only(task[t].doc)' = Only(task[t].doc)
    BY <1>1, <2>1 DEF Only, Quiet
  <2>4. task[t].doc \notin late
    BY <2>1 DEF Quiet
  <2> QED BY <2>1, <2>2, <2>3, <2>4 DEF KgInv, DeletionComplete
<1> QED BY <1>4, <1>5, <1>6, <1>7

\* Replacing one task's record.
LEMMA TaskStep ==
  ASSUME KgInv, NEW t \in Tasks, NEW v \in TaskRec,
         task' = [task EXCEPT ![t] = v],
         v.at # "idle" => v.doc \in Docs,
         t # Extractor => v.at # "upsert",
         t = Extractor => v.at # "rows"
  PROVE  /\ task' \in [Tasks -> TaskRec]
         /\ \A u \in Tasks : TaskOK(u)'
         /\ task'[t] = v
         /\ \A u \in Tasks : u # t => task'[u] = task[u]
<1>1. task \in [Tasks -> TaskRec] /\ \A u \in Tasks : TaskOK(u)
  BY DEF KgInv, KgTyped
<1>2. task' \in [Tasks -> TaskRec] /\ task'[t] = v /\ \A u \in Tasks : u # t => task'[u] = task[u]
  BY <1>1
<1>3. ASSUME NEW u \in Tasks PROVE TaskOK(u)'
  BY <1>1, <1>2 DEF TaskOK
<1> QED BY <1>2, <1>3

\* The operations that only queue, take, begin, end or give up.
LEMMA PutStep ==
  ASSUME KgInv, NEW d \in Docs, Put(d)
  PROVE  KgInv'
<1>1. Quiet
  BY DEF Put, Quiet, history
<1>2. jobs' \in Seq(Jobs) /\ \A c : Outstanding(c)' => Outstanding(c) \/ c = d
  <2>0. jobs \in Seq(Jobs) /\ task' = task
    BY DEF KgInv, KgTyped, Put
  <2>1. CASE jobs' = jobs
    BY <2>0, <2>1 DEF Outstanding
  <2>2. CASE jobs' # jobs
    <3>1. PICK rels \in SUBSET Relations : jobs' = Append(jobs, [doc |-> d, rels |-> rels])
      BY <2>2 DEF Put
    <3>2. [doc |-> d, rels |-> rels] \in Jobs
      BY DEF Jobs
    <3>3. jobs' \in Seq(Jobs)
      BY <2>0, <3>1, <3>2
    <3>4. \A i \in DOMAIN jobs' : jobs'[i].doc = d \/ (i \in DOMAIN jobs /\ jobs'[i] = jobs[i])
      BY <2>0, <3>1, <3>2
    <3> QED BY <2>0, <3>3, <3>4 DEF Outstanding
  <2> QED BY <2>1, <2>2
<1>3. KgTyped'
  BY <1>2 DEF KgInv, KgTyped, Put, history, TaskOK
<1>4. \A c : Only(c)' = Only(c)
  BY DEF Only, Present, Put, history
<1>5. Known'
  BY <1>2, <1>4 DEF KgInv, Known, Put, history
<1> QED BY <1>1, <1>3, <1>5, QuietKeeps DEF KgInv

LEMMA TakeJobStep ==
  ASSUME KgInv, TakeJob
  PROVE  KgInv'
<1>0. Extractor \in Tasks /\ jobs \in Seq(Jobs) /\ jobs # <<>>
  BY DEF Tasks, KgInv, KgTyped, TakeJob
<1>1. Head(jobs) \in Jobs /\ jobs' \in Seq(Jobs)
  BY <1>0 DEF TakeJob
<1>2. PICK v : v = [KgIdle EXCEPT !.at = "read", !.doc = Head(jobs).doc, !.todo = Head(jobs).rels]
  OBVIOUS
<1>3. v \in TaskRec /\ v.at = "read" /\ v.doc = Head(jobs).doc /\ v.doc \in Docs
  BY <1>1, <1>2, EmptyCopy DEF KgIdle, TaskRec, Jobs
<1>4. task' = [task EXCEPT ![Extractor] = v]
  BY <1>2 DEF TakeJob
<1>5. /\ task' \in [Tasks -> TaskRec]
      /\ \A u \in Tasks : TaskOK(u)'
      /\ task'[Extractor] = v
      /\ \A u \in Tasks : u # Extractor => task'[u] = task[u]
  BY <1>0, <1>3, <1>4, TaskStep
<1>6. Quiet
  BY <1>3, <1>5 DEF TakeJob, Quiet, history
<1>7. KgTyped'
  BY <1>1, <1>5 DEF KgInv, KgTyped, TakeJob, history
<1>8. ASSUME NEW c, Outstanding(c)' PROVE Outstanding(c)
  <2>1. Head(jobs) = jobs[1] /\ 1 \in DOMAIN jobs
    BY <1>0
  <2>2. \A i \in DOMAIN jobs' : i + 1 \in DOMAIN jobs /\ jobs'[i] = jobs[i + 1]
    BY <1>0 DEF TakeJob
  <2> QED BY <1>3, <1>5, <1>8, <2>1, <2>2 DEF Outstanding
<1>9. \A c : Only(c)' = Only(c)
  BY DEF Only, Present, TakeJob, history
<1>10. Known'
  BY <1>8, <1>9 DEF KgInv, Known, TakeJob, history
<1> QED BY <1>6, <1>7, <1>10, QuietKeeps DEF KgInv

LEMMA DeleteStep ==
  ASSUME KgInv, NEW t \in Deleters, NEW d \in Docs, Delete(t, d)
  PROVE  KgInv'
<1>0. t \in Tasks /\ t # Extractor /\ Extractor \in Tasks
  BY GraphAssumption DEF Tasks
<1>1. PICK v : v = [KgIdle EXCEPT !.at = "read", !.doc = d]
  OBVIOUS
<1>2. v \in TaskRec /\ v.at = "read" /\ v.doc = d
  BY <1>1, EmptyCopy DEF KgIdle, TaskRec
<1>3. task' = [task EXCEPT ![t] = v]
  BY <1>1 DEF Delete
<1>4. /\ task' \in [Tasks -> TaskRec]
      /\ \A u \in Tasks : TaskOK(u)'
      /\ task'[t] = v
      /\ \A u \in Tasks : u # t => task'[u] = task[u]
  BY <1>0, <1>2, <1>3, TaskStep
<1>5. Quiet
  BY <1>2, <1>4 DEF Delete, Quiet, history
<1>6. KgTyped'
  BY <1>4 DEF KgInv, KgTyped, Delete, history
<1>7. \A c : Only(c)' = Only(c) /\ (Outstanding(c)' <=> Outstanding(c))
  BY <1>0, <1>4 DEF Only, Present, Outstanding, Delete, history
<1>8. Known'
  BY <1>7 DEF KgInv, Known, Delete, history
<1> QED BY <1>5, <1>6, <1>8, QuietKeeps DEF KgInv

\* The extraction is over, or an error ends a task.
LEMMA EndStep ==
  ASSUME KgInv, NEW t \in Tasks, task' = [task EXCEPT ![t] = KgIdle],
         UNCHANGED <<graph, recent, stored, jobs, ops, history>>
  PROVE  KgInv'
<1>1. KgIdle \in TaskRec /\ KgIdle.at = "idle" /\ KgIdle.doc = NoRow
  BY IdleTyped DEF KgIdle
<1>2. /\ task' \in [Tasks -> TaskRec]
      /\ \A u \in Tasks : TaskOK(u)'
      /\ task'[t] = KgIdle
      /\ \A u \in Tasks : u # t => task'[u] = task[u]
  BY <1>1, TaskStep
<1>3. Quiet
  BY <1>1, <1>2 DEF Quiet, history
<1>4. KgTyped'
  BY <1>2 DEF KgInv, KgTyped, history
<1>5. \A c \in Docs : Only(c)' = Only(c) /\ (Outstanding(c)' => Outstanding(c))
  BY <1>1, <1>2, GraphAssumption DEF Only, Present, Outstanding, history, Tasks
<1>6. Known'
  BY <1>5 DEF KgInv, Known, history
<1> QED BY <1>3, <1>4, <1>6, QuietKeeps DEF KgInv

\* A document's row only goes once no relation is left that it alone supports, or
\* its deletion counts as late.
LEMMA DeleteRowStep ==
  ASSUME KgInv, NEW t \in Deleters, DeleteRow(t)
  PROVE  KgInv'
<1>0. t \in Tasks /\ t # Extractor /\ Extractor \in Tasks
  BY GraphAssumption DEF Tasks
<1>1. KgIdle \in TaskRec /\ KgIdle.at = "idle" /\ KgIdle.doc = NoRow
  BY IdleTyped DEF KgIdle
<1>2. /\ task' \in [Tasks -> TaskRec]
      /\ \A u \in Tasks : TaskOK(u)'
      /\ task'[t] = KgIdle
      /\ \A u \in Tasks : u # t => task'[u] = task[u]
  BY <1>0, <1>1, TaskStep DEF DeleteRow
<1>3. Quiet
  BY <1>1, <1>2 DEF Quiet, DeleteRow
<1>4. KgTyped'
  BY <1>2 DEF KgInv, KgTyped, DeleteRow
<1>5. \A c : Only(c)' = Only(c) /\ (Outstanding(c)' <=> Outstanding(c))
  BY <1>0, <1>2 DEF Only, Present, Outstanding, DeleteRow
<1>6. task[t].doc \in late \/ Only(task[t].doc) = {}
  BY DEF KgInv, DeletionComplete, DeleteRow
<1>7. Known'
  BY <1>5, <1>6 DEF KgInv, Known, DeleteRow
<1> QED BY <1>3, <1>4, <1>7, QuietKeeps DEF KgInv

\* A removal's copy is the rows as they are; a deletion that saw them all has every
\* relation its document alone supports.
LEMMA ReadStep ==
  ASSUME KgInv, NEW t \in Tasks, ReadRelations(t)
  PROVE  KgInv'
<1>1. PICK S \in Newest : task' = [task EXCEPT ![t].at = "write", ![t].rows = [r \in S |-> graph[r]]]
  BY DEF ReadRelations
<1>2. S \subseteq Present /\ (AllFit => S = Present)
  BY DEF Newest
<1>3. task[t] \in TaskRec /\ task[t].doc \in Docs /\ task[t].at = "read"
  BY DEF KgInv, KgTyped, TaskOK, ReadRelations
<1>4. PICK c : c = [r \in S |-> graph[r]]
  OBVIOUS
<1>5. PICK v : v = [task[t] EXCEPT !.at = "write", !.rows = c]
  OBVIOUS
<1>6. c \in Copies
  <2>1. S \in SUBSET Relations /\ \A r \in S : graph[r] \in Attrs
    BY <1>2 DEF Present, KgInv, KgTyped
  <2>2. c \in [S -> Attrs]
    BY <1>4, <2>1
  <2> QED BY <2>1, <2>2 DEF Copies
<1>7. v \in TaskRec /\ v.at = "write" /\ v.doc = task[t].doc /\ v.rows = c
  BY <1>3, <1>5, <1>6 DEF TaskRec
<1>8. task' = [task EXCEPT ![t] = v]
  BY <1>1, <1>4, <1>5 DEF KgInv, KgTyped
<1>9. /\ task' \in [Tasks -> TaskRec]
      /\ \A u \in Tasks : TaskOK(u)'
      /\ task'[t] = v
      /\ \A u \in Tasks : u # t => task'[u] = task[u]
  BY <1>3, <1>7, <1>8, TaskStep
<1>10. KgTyped'
  BY <1>9 DEF KgInv, KgTyped, ReadRelations
<1>11. Present' = Present /\ Ordered'
  BY DEF KgInv, Ordered, Present, ReadRelations
<1>12. \A r : HoldsCopy(t, r)' <=> r \in S /\ Touches(graph[r], task[t].doc)
  BY <1>4, <1>7, <1>9 DEF HoldsCopy
<1>13. \A u \in Tasks : u # t => \A r : HoldsCopy(u, r)' <=> HoldsCopy(u, r)
  BY <1>9 DEF HoldsCopy
<1>14. \A r \in S : task'[t].rows[r] = graph[r]
  BY <1>4, <1>7, <1>9
<1>15. ExpectedHeld'
  <2> SUFFICES ASSUME NEW d \in Docs, NEW r \in expected[d] \ raced
               PROVE  /\ graph[r] # NoRow /\ d \in Evidence(graph[r])
                      /\ \A u \in Tasks : Fresh(u, r)' => d \in Evidence(task'[u].rows[r])
    BY DEF ExpectedHeld, ReadRelations
  <2>1. graph[r] # NoRow /\ d \in Evidence(graph[r])
    BY DEF KgInv, ExpectedHeld
  <2>2. ASSUME NEW u \in Tasks, Fresh(u, r)' PROVE d \in Evidence(task'[u].rows[r])
    <3>1. CASE u = t
      BY <3>1, <2>1, <2>2, <1>12, <1>14 DEF Fresh
    <3>2. CASE u # t
      BY <3>2, <2>2, <1>9, <1>13 DEF Fresh, KgInv, ExpectedHeld, ReadRelations
    <3> QED BY <3>1, <3>2
  <2> QED BY <2>1, <2>2
<1>16. SupportSole'
  <2> SUFFICES ASSUME NEW r \in Present \ raced
               PROVE  /\ Supports(graph[r]) \subseteq sole[r]
                      /\ \A u \in Tasks : Fresh(u, r)' => Supports(task'[u].rows[r]) \subseteq sole[r]
    BY <1>11 DEF SupportSole, ReadRelations
  <2>1. Supports(graph[r]) \subseteq sole[r]
    BY DEF KgInv, SupportSole
  <2>2. ASSUME NEW u \in Tasks, Fresh(u, r)' PROVE Supports(task'[u].rows[r]) \subseteq sole[r]
    <3>1. CASE u = t
      BY <3>1, <2>1, <2>2, <1>12, <1>14 DEF Fresh
    <3>2. CASE u # t
      BY <3>2, <2>2, <1>9, <1>13 DEF Fresh, KgInv, SupportSole, ReadRelations
    <3> QED BY <3>1, <3>2
  <2> QED BY <2>1, <2>2
<1>17. \A d : Only(d)' = Only(d)
  BY <1>11 DEF Only, ReadRelations
<1>18. DeletionComplete'
  <2> SUFFICES ASSUME NEW u \in Deleters, task'[u].doc \notin late'
               PROVE  /\ task'[u].at = "write" => \A r \in Only(task[u].doc)' : HoldsCopy(u, r)'
                      /\ task'[u].at = "rows" => Only(task[u].doc)' = {}
    BY DEF DeletionComplete
  <2>0. u \in Tasks /\ u # Extractor /\ task'[u].doc = task[u].doc /\ task[u].doc \notin late
    BY <1>7, <1>9, GraphAssumption DEF Tasks, ReadRelations
  <2>1. CASE u # t
    BY <2>0, <2>1, <1>9, <1>13, <1>17 DEF KgInv, DeletionComplete
  <2>2. CASE u = t
    <3>1. S = Present
      BY <2>0, <2>2, <1>2 DEF ReadRelations
    <3>2. ASSUME NEW r \in Only(task[t].doc) PROVE HoldsCopy(t, r)'
      <4>1. r \in Present /\ Supports(graph[r]) \subseteq {task[t].doc} /\ graph[r] \in Attrs
        BY DEF Only, KgInv, SupportSole, KgTyped, Present
      <4>2. Touches(graph[r], task[t].doc)
        BY <4>1 DEF Supports, Touches, Evidence
      <4> QED BY <3>1, <4>1, <4>2, <1>12
    <3> QED BY <2>0, <2>2, <3>2, <1>7, <1>9, <1>17
  <2> QED BY <2>1, <2>2
<1>19. \A d : Outstanding(d)' <=> Outstanding(d)
  BY <1>7, <1>9 DEF Outstanding, ReadRelations, Tasks
<1>20. Known'
  BY <1>17, <1>19 DEF KgInv, Known, ReadRelations
<1> QED BY <1>10, <1>11, <1>15, <1>16, <1>18, <1>20 DEF KgInv

\* clear_namespace leaves no relation and no document; copies already read stay.
LEMMA ClearStep ==
  ASSUME KgInv, Clear
  PROVE  KgInv'
<1>1. Present' = {} /\ \A d : Only(d)' = {}
  BY DEF Clear, Present, Only
<1>2. KgTyped'
  BY DEF KgInv, KgTyped, Clear, TaskOK
<1>3. Ordered' /\ ExpectedHeld' /\ SupportSole'
  BY <1>1 DEF Ordered, ExpectedHeld, SupportSole, Clear
<1>4. DeletionComplete'
  BY <1>1 DEF DeletionComplete
<1>5. Known'
  BY <1>1 DEF Known, Outstanding, Clear
<1> QED BY <1>2, <1>3, <1>4, <1>5 DEF KgInv

\* The removal writes its copy back over rows that may have changed.
LEMMA WriteStep ==
  ASSUME KgInv, NEW t \in Tasks, WriteRelations(t)
  PROVE  KgInv'
<1> DEFINE doc == task[t].doc
           rows == task[t].rows
           touched == {r \in DOMAIN rows : Touches(rows[r], doc)}
           dropped == {r \in touched : NoEvidence(Without(rows[r], doc))}
           written == (touched \ dropped) \cap Present
<1>1. /\ task[t].at = "write"
      /\ graph' = [r \in Relations |-> IF r \in dropped THEN NoRow
                                       ELSE IF r \in written THEN Without(rows[r], doc)
                                       ELSE graph[r]]
      /\ recent' = Touch(written, Present \ dropped)
      /\ task' = [task EXCEPT ![t].at = IF t = Extractor THEN "upsert" ELSE "rows",
                              ![t].rows = <<>>]
      /\ expected' = [expected EXCEPT ![doc] = {}]
      /\ sole' = [r \in Relations |-> IF r \in dropped THEN {} ELSE sole[r]]
      /\ UNCHANGED <<stored, jobs, ops, raced, late>>
  BY DEF WriteRelations
<1>2. task[t] \in TaskRec /\ doc \in Docs
  BY <1>1 DEF KgInv, KgTyped, TaskOK
<1>3. rows \in Copies
  BY <1>2 DEF TaskRec
<1>4. \A r \in touched : r \in Relations /\ rows[r] \in Attrs /\ HoldsCopy(t, r)
  BY <1>1, <1>3, CopyTyped DEF HoldsCopy
<1>5. \A r : HoldsCopy(t, r) => r \in touched
  BY DEF HoldsCopy
<1>6. PICK v : v = [task[t] EXCEPT !.at = IF t = Extractor THEN "upsert" ELSE "rows", !.rows = <<>>]
  OBVIOUS
<1>7. v \in TaskRec /\ v.at = (IF t = Extractor THEN "upsert" ELSE "rows") /\ v.doc = doc
  BY <1>2, <1>6, EmptyCopy DEF TaskRec
<1>8. task' = [task EXCEPT ![t] = v]
  BY <1>1, <1>6 DEF KgInv, KgTyped
<1>9. /\ task' \in [Tasks -> TaskRec]
      /\ \A u \in Tasks : TaskOK(u)'
      /\ task'[t] = v
      /\ \A u \in Tasks : u # t => task'[u] = task[u]
  BY <1>2, <1>7, <1>8, TaskStep
<1>10. \A r \in touched : Without(rows[r], doc) \in Attrs
  BY <1>2, <1>4, AttrsKept
<1> HIDE DEF doc, rows, dropped
<1>11. KgTyped'
  <2>1. graph' \in [Relations -> Attrs \cup {NoRow}]
    BY <1>1, <1>10 DEF KgInv, KgTyped
  <2>2. expected' \in [Docs -> SUBSET Relations] /\ sole' \in [Relations -> SUBSET Docs]
    BY <1>1 DEF KgInv, KgTyped
  <2> QED BY <2>1, <2>2, <1>1, <1>9 DEF KgInv, KgTyped
<1>12. Present' = Present \ dropped
  <2>1. \A r \in Relations : graph'[r] # NoRow <=> r \in Present /\ r \notin dropped
    BY <1>1, <1>10, GraphAssumption DEF Present
  <2> QED BY <2>1 DEF Present
<1>13. Ordered'
  <2>1. Present \ dropped \in SUBSET Relations
    BY DEF Present
  <2> QED BY <1>1, <1>12, <2>1, TouchOrders DEF KgInv
<1>14. \A u \in Tasks : \A r : HoldsCopy(u, r)' => HoldsCopy(u, r) /\ u # t /\ task'[u] = task[u]
  BY <1>7, <1>9 DEF HoldsCopy
<1>15. \A r \in touched \ raced : Fresh(t, r)
  BY <1>4 DEF Fresh
<1>16. ExpectedHeld'
  <2> SUFFICES ASSUME NEW d \in Docs, NEW r \in expected'[d] \ raced
               PROVE  /\ graph'[r] # NoRow /\ d \in Evidence(graph'[r])
                      /\ \A u \in Tasks : Fresh(u, r)' => d \in Evidence(task'[u].rows[r])
    BY <1>1 DEF ExpectedHeld
  <2>1. d # doc /\ r \in expected[d] \ raced /\ r \in Relations
    BY <1>1, <1>2 DEF KgInv, KgTyped
  <2>2. graph[r] # NoRow /\ d \in Evidence(graph[r]) /\ r \in Present
    BY <2>1 DEF KgInv, ExpectedHeld, Present
  <2>3. ASSUME r \in touched PROVE r \notin dropped /\ d \in Evidence(Without(rows[r], doc))
    <3>1. d \in Evidence(rows[r])
      BY <2>1, <2>3, <1>15 DEF KgInv, ExpectedHeld, rows
    <3>2. d \in Supports(rows[r]) /\ rows[r] \in Attrs /\ doc \in Docs
      BY <3>1, <2>3, <1>2, <1>4 DEF Supports
    <3>3. d \in Evidence(Without(rows[r], doc)) /\ ~NoEvidence(Without(rows[r], doc))
      BY <3>1, <3>2, <2>1, AttrsKept
    <3> QED BY <3>3 DEF dropped
  <2>4. graph'[r] = IF r \in touched THEN Without(rows[r], doc) ELSE graph[r]
    <3>1. CASE r \in touched
      BY <3>1, <2>1, <2>2, <2>3, <1>1
    <3>2. CASE r \notin touched
      <4>1. r \notin dropped
        BY <3>2 DEF dropped
      <4> QED BY <3>2, <4>1, <2>1, <1>1
    <3> QED BY <3>1, <3>2
  <2>5. graph'[r] # NoRow /\ d \in Evidence(graph'[r])
    BY <2>2, <2>3, <2>4, <1>10, GraphAssumption
  <2>6. ASSUME NEW u \in Tasks, Fresh(u, r)' PROVE d \in Evidence(task'[u].rows[r])
    BY <2>6, <2>1, <1>1, <1>14 DEF Fresh, KgInv, ExpectedHeld
  <2> QED BY <2>5, <2>6
<1>17. SupportSole'
  <2> SUFFICES ASSUME NEW r \in Present' \ raced
               PROVE  /\ Supports(graph'[r]) \subseteq sole'[r]
                      /\ \A u \in Tasks : Fresh(u, r)' => Supports(task'[u].rows[r]) \subseteq sole'[r]
    BY <1>1 DEF SupportSole
  <2>1. r \in Present \ raced /\ r \notin dropped /\ r \in Relations /\ sole'[r] = sole[r]
    BY <1>1, <1>12 DEF Present
  <2>2. CASE r \in touched
    <3>1. graph'[r] = Without(rows[r], doc)
      BY <2>1, <2>2, <1>1
    <3>2. Supports(rows[r]) \subseteq sole[r]
      BY <2>1, <2>2, <1>15 DEF KgInv, SupportSole, rows
    <3>3. Supports(graph'[r]) \subseteq sole[r]
      BY <3>1, <3>2, <2>2, <1>2, <1>4, AttrsKept DEF doc
    <3> QED BY <2>1, <3>3, <1>1, <1>14 DEF Fresh, KgInv, SupportSole
  <2>3. CASE r \notin touched
    <3>1. graph'[r] = graph[r]
      BY <2>1, <2>3, <1>1
    <3> QED BY <2>1, <3>1, <1>1, <1>14 DEF Fresh, KgInv, SupportSole
  <2> QED BY <2>2, <2>3
<1>18. \A d : Only(d)' \subseteq Only(d) /\ Only(d)' \cap dropped = {}
  <2>1. \A r \in Present \ dropped : sole'[r] = sole[r]
    BY <1>1 DEF Present
  <2> QED BY <2>1, <1>1, <1>12 DEF Only
<1>19. DeletionComplete'
  <2> SUFFICES ASSUME NEW u \in Deleters, task'[u].doc \notin late'
               PROVE  /\ task'[u].at = "write" => \A r \in Only(task[u].doc)' : HoldsCopy(u, r)'
                      /\ task'[u].at = "rows" => Only(task[u].doc)' = {}
    BY DEF DeletionComplete
  <2>0. u \in Tasks /\ u # Extractor /\ task'[u].doc = task[u].doc /\ task[u].doc \notin late
    BY <1>1, <1>7, <1>9, GraphAssumption DEF Tasks, doc
  <2>1. CASE u # t
    <3>1. \A r : HoldsCopy(u, r)' <=> HoldsCopy(u, r)
      BY <2>0, <2>1, <1>9 DEF HoldsCopy
    <3> QED BY <2>0, <2>1, <3>1, <1>9, <1>18 DEF KgInv, DeletionComplete
  <2>2. CASE u = t
    <3>1. ASSUME NEW r \in Only(doc)' PROVE FALSE
      <4>1. r \in Only(doc) /\ r \notin dropped
        BY <3>1, <1>18, <2>0, <2>2 DEF doc
      <4>2. HoldsCopy(t, r)
        BY <4>1, <2>0, <2>2, <1>1 DEF KgInv, DeletionComplete, doc
      <4>3. r \in touched /\ r \in Present \ raced /\ sole[r] = {doc}
        BY <4>1, <4>2, <1>5 DEF Only
      <4>4. Supports(rows[r]) \subseteq {doc} /\ rows[r] \in Attrs
        BY <4>3, <1>4, <1>15 DEF KgInv, SupportSole, rows
      <4>5. NoEvidence(Without(rows[r], doc))
        BY <4>4, <1>2, AttrsKept
      <4> QED BY <4>1, <4>3, <4>5 DEF dropped
    <3>2. Only(task[u].doc)' = {}
      BY <3>1, <2>0, <2>2, <1>7, <1>9 DEF doc
    <3> QED BY <2>0, <2>2, <3>2, <1>7, <1>9
  <2> QED BY <2>1, <2>2
<1>20. \A d : Outstanding(d)' <=> Outstanding(d)
  BY <1>1, <1>7, <1>9 DEF Outstanding, Tasks, doc
<1>21. Known'
  BY <1>1, <1>18, <1>20 DEF KgInv, Known
<1> QED BY <1>11, <1>13, <1>16, <1>17, <1>19, <1>21 DEF KgInv

\* An extraction merges its document into the row; whoever holds an older copy has
\* lost the race for that relation.
LEMMA UpsertStep ==
  ASSUME KgInv, NEW r \in Relations, UpsertRelation(r)
  PROVE  KgInv'
<1> DEFINE doc == task[Extractor].doc
<1>0. Extractor \in Tasks
  BY DEF Tasks
<1>1. /\ task[Extractor].at = "upsert"
      /\ r \in task[Extractor].todo
      /\ graph' = [graph EXCEPT ![r] = merge_graph_attrs(r, doc)]
      /\ recent' = Touch({r}, Present \cup {r})
      /\ task' = [task EXCEPT ![Extractor].todo = @ \ {r}]
      /\ expected' = [expected EXCEPT ![doc] = @ \cup {r}]
      /\ sole' = [sole EXCEPT ![r] = @ \cup {doc}]
      /\ raced' = IF \E t \in Tasks : HoldsCopy(t, r) THEN raced \cup {r} ELSE raced
      /\ late' = IF \E t \in Deleters : task[t].doc = doc /\ task[t].at \in {"write", "rows"}
                 THEN late \cup {doc} ELSE late
      /\ UNCHANGED <<stored, jobs, ops>>
  BY DEF UpsertRelation
<1>2. task[Extractor] \in TaskRec /\ doc \in Docs
  BY <1>0, <1>1 DEF KgInv, KgTyped, TaskOK
<1>3. PICK v : v = [task[Extractor] EXCEPT !.todo = @ \ {r}]
  OBVIOUS
<1>4. v \in TaskRec /\ v.at = "upsert" /\ v.doc = doc
  BY <1>1, <1>2, <1>3 DEF TaskRec
<1>5. task' = [task EXCEPT ![Extractor] = v]
  BY <1>0, <1>1, <1>3 DEF KgInv, KgTyped
<1>6. /\ task' \in [Tasks -> TaskRec]
      /\ \A u \in Tasks : TaskOK(u)'
      /\ task'[Extractor] = v
      /\ \A u \in Tasks : u # Extractor => task'[u] = task[u]
  BY <1>0, <1>2, <1>4, <1>5, TaskStep
<1>7. PICK m : m = merge_graph_attrs(r, doc)
  OBVIOUS
<1>8. /\ m \in Attrs /\ m # NoRow
      /\ doc \in Evidence(m)
      /\ graph[r] # NoRow => Evidence(m) = Evidence(graph[r]) \cup {doc}
      /\ graph[r] # NoRow => Supports(m) = Supports(graph[r]) \cup {doc}
      /\ graph[r] = NoRow => Supports(m) = {doc}
  BY <1>2, <1>7, MergeKeeps, GraphAssumption DEF KgInv, KgTyped
<1>9. graph' = [graph EXCEPT ![r] = m]
  BY <1>1, <1>7
<1>10. KgTyped'
  <2>1. graph' \in [Relations -> Attrs \cup {NoRow}]
    BY <1>8, <1>9 DEF KgInv, KgTyped
  <2>2. expected' \in [Docs -> SUBSET Relations] /\ sole' \in [Relations -> SUBSET Docs]
    BY <1>1, <1>2 DEF KgInv, KgTyped
  <2> QED BY <2>1, <2>2, <1>1, <1>6 DEF KgInv, KgTyped
<1>11. Present' = Present \cup {r} /\ \A s \in Relations \ {r} : graph'[s] = graph[s]
  <2>1. graph'[r] = m /\ \A s \in Relations \ {r} : graph'[s] = graph[s]
    BY <1>9 DEF KgInv, KgTyped
  <2> QED BY <2>1, <1>8 DEF Present
<1>12. graph'[r] = m /\ sole'[r] = sole[r] \cup {doc} /\ \A s \in Relations \ {r} : sole'[s] = sole[s]
  BY <1>1, <1>9 DEF KgInv, KgTyped
<1>13. Ordered'
  <2>1. Present \cup {r} \in SUBSET Relations /\ (Present \cup {r}) \ {r} \subseteq Present
    BY DEF Present
  <2> QED BY <1>1, <1>11, <2>1, TouchOrders DEF KgInv
<1>14. \A u \in Tasks : \A s : HoldsCopy(u, s)' <=> HoldsCopy(u, s)
  BY <1>1, <1>4, <1>6 DEF HoldsCopy
<1>15. \A u \in Tasks : \A s : HoldsCopy(u, s) => task'[u] = task[u]
  BY <1>1, <1>6 DEF HoldsCopy
<1>16. raced \subseteq raced' /\ late \subseteq late' /\ \A u \in Tasks : ~Fresh(u, r)'
  BY <1>1, <1>14 DEF Fresh
<1>17. \A u \in Tasks : \A s : Fresh(u, s)' => Fresh(u, s) /\ task'[u] = task[u]
  BY <1>14, <1>15, <1>16 DEF Fresh
<1>18. ExpectedHeld'
  <2> SUFFICES ASSUME NEW d \in Docs, NEW s \in expected'[d] \ raced'
               PROVE  /\ graph'[s] # NoRow /\ d \in Evidence(graph'[s])
                      /\ \A u \in Tasks : Fresh(u, s)' => d \in Evidence(task'[u].rows[s])
    BY DEF ExpectedHeld
  <2>1. s \notin raced /\ s \in Relations /\ (s \in expected[d] \/ (s = r /\ d = doc))
    BY <1>1, <1>2, <1>16 DEF KgInv, KgTyped
  <2>2. CASE s # r
    BY <2>1, <2>2, <1>11, <1>17 DEF KgInv, ExpectedHeld
  <2>3. CASE s = r
    <3>1. CASE d = doc
      BY <2>3, <3>1, <1>8, <1>12, <1>16
    <3>2. CASE d # doc
      <4>1. graph[r] # NoRow /\ d \in Evidence(graph[r])
        BY <2>1, <2>3, <3>2 DEF KgInv, ExpectedHeld
      <4> QED BY <4>1, <2>3, <1>8, <1>12, <1>16
    <3> QED BY <3>1, <3>2
  <2> QED BY <2>2, <2>3
<1>19. SupportSole'
  <2> SUFFICES ASSUME NEW s \in Present' \ raced'
               PROVE  /\ Supports(graph'[s]) \subseteq sole'[s]
                      /\ \A u \in Tasks : Fresh(u, s)' => Supports(task'[u].rows[s]) \subseteq sole'[s]
    BY DEF SupportSole
  <2>1. CASE s # r
    <3>1. s \in Present \ raced /\ s \in Relations
      BY <2>1, <1>11, <1>16 DEF Present
    <3> QED BY <2>1, <3>1, <1>11, <1>12, <1>17 DEF KgInv, SupportSole
  <2>2. CASE s = r
    <3>1. r \notin raced
      BY <2>2, <1>16
    <3>2. CASE graph[r] = NoRow
      BY <2>2, <3>2, <1>8, <1>12, <1>16
    <3>3. CASE graph[r] # NoRow
      <4>1. Supports(graph[r]) \subseteq sole[r]
        BY <3>1, <3>3 DEF KgInv, SupportSole, Present
      <4> QED BY <2>2, <3>3, <4>1, <1>8, <1>12, <1>16
    <3> QED BY <3>2, <3>3
  <2> QED BY <2>1, <2>2
<1>20. ASSUME NEW d, NEW s \in Only(d)' PROVE s \in Only(d) \/ (s = r /\ d = doc)
  <2>1. s \in Present' /\ s \notin raced /\ sole'[s] = {d} /\ s \in Relations
    BY <1>16 DEF Only, Present
  <2>2. CASE s # r
    BY <2>1, <2>2, <1>11, <1>12 DEF Only
  <2>3. CASE s = r
    BY <2>1, <2>3, <1>12
  <2> QED BY <2>2, <2>3
<1>21. DeletionComplete'
  <2> SUFFICES ASSUME NEW u \in Deleters, task'[u].doc \notin late'
               PROVE  /\ task'[u].at = "write" => \A s \in Only(task[u].doc)' : HoldsCopy(u, s)'
                      /\ task'[u].at = "rows" => Only(task[u].doc)' = {}
    BY DEF DeletionComplete
  <2>1. u \in Tasks /\ u # Extractor /\ task'[u] = task[u] /\ task[u].doc \notin late
    BY <1>6, <1>16, GraphAssumption DEF Tasks
  <2>2. task[u].at \in {"write", "rows"} => task[u].doc # doc
    BY <1>1, <2>1
  <2>3. task[u].at \in {"write", "rows"} => Only(task[u].doc)' \subseteq Only(task[u].doc)
    BY <1>20, <2>1, <2>2
  <2> QED BY <2>1, <2>3, <1>14 DEF KgInv, DeletionComplete
<1>22. \A d : Outstanding(d)' <=> Outstanding(d)
  BY <1>1, <1>4, <1>6 DEF Outstanding
<1>23. Known'
  <2>1. Outstanding(doc)
    BY DEF Outstanding
  <2> QED BY <2>1, <1>1, <1>16, <1>20, <1>22 DEF KgInv, Known
<1> QED BY <1>10, <1>13, <1>18, <1>19, <1>21, <1>23 DEF KgInv

LEMMA KgStep ==
  ASSUME KgInv, [KgNext]_kgVars
  PROVE  KgInv'
<1>1. CASE KgNext
  <2>1. ASSUME NEW d \in Docs, Put(d) PROVE KgInv'
    BY <2>1, PutStep
  <2>2. ASSUME NEW d \in Docs, NEW t \in Deleters, Delete(t, d) PROVE KgInv'
    BY <2>2, DeleteStep
  <2>3. CASE TakeJob
    BY <2>3, TakeJobStep
  <2>4. CASE ExtractionDone
    BY <2>4, EndStep DEF ExtractionDone, Tasks
  <2>5. CASE Clear
    BY <2>5, ClearStep
  <2>6. ASSUME NEW t \in Tasks, ReadRelations(t) PROVE KgInv'
    BY <2>6, ReadStep
  <2>7. ASSUME NEW t \in Tasks, WriteRelations(t) PROVE KgInv'
    BY <2>7, WriteStep
  <2>8. ASSUME NEW t \in Tasks, Abort(t) PROVE KgInv'
    BY <2>8, EndStep DEF Abort
  <2>9. ASSUME NEW t \in Deleters, DeleteRow(t) PROVE KgInv'
    BY <2>9, DeleteRowStep
  <2>10. ASSUME NEW r \in Relations, UpsertRelation(r) PROVE KgInv'
    BY <2>10, UpsertStep
  <2> QED BY <1>1, <2>1, <2>2, <2>3, <2>4, <2>5, <2>6, <2>7, <2>8, <2>9, <2>10 DEF KgNext
<1>2. CASE UNCHANGED kgVars
  <2>1. Quiet
    BY <1>2 DEF kgVars, history, Quiet
  <2>2. KgTyped' /\ Known'
    BY <1>2 DEF kgVars, history, KgInv, KgTyped, TaskOK, Known, Outstanding, Only, Present
  <2> QED BY <2>1, <2>2, QuietKeeps DEF KgInv
<1> QED BY <1>1, <1>2

\* Whatever extractions, deletions, clears and failures interleave, a document's
\* evidence is only taken away by its own removal, and a relation only it ever
\* supported goes with it, unless another writer came between a removal's read and
\* its write, or the deletion could not see all of the document's relations
\* (graph_remove_document_namespace, graph_upsert_namespace, delete_document).
THEOREM GraphCorrect == KgSpec => []GraphSound
<1>1. KgInit => KgInv
  BY KgInitial
<1>2. KgInv /\ [KgNext]_kgVars => KgInv'
  BY KgStep
<1>3. ASSUME KgInv PROVE GraphSound
  <2>1. KgTypeOK
    <3>1. \A t \in Tasks : task[t].at \in {"idle", "read", "write", "upsert", "rows"}
      BY <1>3 DEF KgInv, KgTyped, TaskRec
    <3> QED BY <1>3, <3>1 DEF KgInv, KgTyped, Ordered, KgTypeOK
  <2>2. EvidenceKept
    BY <1>3 DEF KgInv, KgTyped, ExpectedHeld, EvidenceKept
  <2>3. SoleRelationGoes
    BY <1>3 DEF KgInv, Known, Only, SoleRelationGoes, Gone
  <2> QED BY <2>1, <2>2, <2>3 DEF GraphSound
<1>4. KgInv => GraphSound
  BY <1>3
<1> QED BY <1>1, <1>2, <1>4, PTL DEF KgSpec

---------------------------------------------------------------------------
(***************************************************************************)
(* SessionRecall.  A recall knows of each entry where it is from and that  *)
(* it is worth the least score; of the turns of its session, once they are *)
(* read, that none logged before it began is missing.  Turns are only      *)
(* appended, so what was read stays true, and the two reads of turns are   *)
(* disjoint because the second leaves the session of the first out.        *)
(***************************************************************************)

(* An entry of a recall under way: what it is worth, and where it is from. *)
EntryOK(e, ask) ==
  /\ e.source \in {"document", "session", "cross"}
  /\ e.score \in Int /\ e.score >= ask.min_score
  /\ e.source = "document" => Exclusion(ask) = NoChat \/ Hits[e.id].session # Exclusion(ask)
  /\ e.source # "document" =>
       /\ e.id \in DOMAIN logged
       /\ e = [source |-> e.source, id |-> e.id, score |-> MatchScore(ask.query, logged[e.id])]
  /\ e.source = "session" => logged[e.id].session = ask.session
  /\ e.source = "cross" => ask.cross /\ logged[e.id].session # ask.session

(* What is known before the last read: all entries are in order, and the turns
   of the session have been taken when their read is over. *)
Gathered(out, missed, stage) ==
  /\ IsFiniteSet(out)
  /\ \A e \in out : EntryOK(e, call.ask)
  /\ stage = "cross" /\ "session" \notin missed =>
       \A i \in 1 .. call.begun :
         Worth(call.ask, logged[i]) /\ call.ask.session # NoChat
           /\ logged[i].session = call.ask.session =>
             \E e \in out : e.source # "document" /\ e.id = i
  /\ stage \in {"done", "cross", "session", "ranked"}
  /\ stage = "session" => call.ask.session # NoChat
  /\ stage = "cross" => call.ask.cross

RcInv ==
  /\ logged \in Seq(Turns)
  /\ docRows \subseteq DOMAIN Hits
  /\ call.stage # "idle" =>
       /\ call = [stage |-> call.stage, ask |-> call.ask, excluded |-> call.excluded,
                  begun |-> call.begun, out |-> call.out, missed |-> call.missed]
       /\ call.ask \in Asks
       /\ call.excluded = Exclusion(call.ask)
       /\ call.begun \in 0 .. Len(logged)
       /\ Gathered(call.out, call.missed, call.stage)
  /\ RecallSound

LEMMA ScoreInt ==
  ASSUME NEW ask \in Asks, NEW turn
  PROVE  MatchScore(ask.query, turn) \in Int
<1> DEFINE S == {i \in DOMAIN ask.query : \E w \in turn.content : <<w, ask.query[i].text>> \in Letters}
<1>1. ask.query \in Seq(QueryTerms) BY RecallAssumption
<1>2. DOMAIN ask.query = 1 .. Len(ask.query) /\ Len(ask.query) \in Nat BY <1>1
<1>3. IsFiniteSet(1 .. Len(ask.query)) BY <1>2, FS_Interval
<1>4. IsFiniteSet(S) BY <1>2, <1>3, FS_Subset
<1>5. Cardinality(S) \in Nat BY <1>4, FS_CardinalityType
<1>6. Matched(ask.query, turn) \in Nat BY <1>5 DEF Matched
<1>7. FullScore \in Nat BY RecallAssumption
<1>8. Matched(ask.query, turn) * FullScore \in Int BY <1>6, <1>7
<1>9. (IF Len(ask.query) > 1 THEN Len(ask.query) ELSE 1) \in Nat \ {0} BY <1>2
<1> QED BY <1>8, <1>9 DEF MatchScore

(* What is left after the sort and the cut. *)
LEMMA TruncatedKeeps ==
  ASSUME NEW entries, IsFiniteSet(entries), NEW limit \in Nat, NEW s \in Truncated(entries, limit),
         \A e \in entries : e.score \in Int
  PROVE  /\ s \subseteq entries /\ IsFiniteSet(s)
         /\ Cardinality(s) <= limit
         /\ \A e \in entries : \/ e \in s
                               \/ Cardinality(s) = limit /\ \A f \in s : f.score >= e.score
<1>1. s \subseteq entries /\ Cardinality(s) = Smaller(limit, Cardinality(entries))
      /\ \A e \in s, f \in entries \ s : ~SortsBefore(f, e)
  BY DEF Truncated
<1>2. IsFiniteSet(s) /\ (Cardinality(entries) = Cardinality(s) => s = entries)
  BY <1>1, FS_Subset
<1>3. Cardinality(entries) \in Nat /\ Cardinality(s) \in Nat BY <1>2, FS_CardinalityType
<1>4. Cardinality(s) <= limit BY <1>1, <1>3 DEF Smaller
<1>5. ASSUME NEW e \in entries, e \notin s
      PROVE  Cardinality(s) = limit /\ \A f \in s : f.score >= e.score
  <2>1. Cardinality(s) = limit BY <1>1, <1>2, <1>3, <1>5 DEF Smaller
  <2>2. ASSUME NEW f \in s PROVE f.score >= e.score
    <3>1. ~SortsBefore(e, f) BY <1>1, <1>5
    <3>2. ~(e.score > f.score) BY <3>1 DEF SortsBefore
    <3> QED BY <3>2, <1>1, <1>5
  <2> QED BY <2>1, <2>2
<1> QED BY <1>1, <1>2, <1>4, <1>5

(* The entries a read of turns adds. *)
LEMMA ScoredOK ==
  ASSUME RcInv, call.stage # "idle", NEW ids \in SUBSET DOMAIN logged,
         NEW source \in {"session", "cross"},
         source = "session" => \A i \in ids : logged[i].session = call.ask.session,
         source = "cross" => call.ask.cross /\ \A i \in ids : logged[i].session # call.ask.session
  PROVE  /\ IsFiniteSet(Scored(source, ids, call.ask))
         /\ \A e \in Scored(source, ids, call.ask) : EntryOK(e, call.ask)
         /\ \A i \in ids : Worth(call.ask, logged[i]) =>
              \E e \in Scored(source, ids, call.ask) : e.source # "document" /\ e.id = i
<1> DEFINE keep == {j \in ids : Worth(call.ask, logged[j])}
           Entry(i) == [source |-> source, id |-> i, score |-> MatchScore(call.ask.query, logged[i])]
<1>1. Scored(source, ids, call.ask) = {Entry(i) : i \in keep} BY DEF Scored
<1>2. logged \in Seq(Turns) /\ call.ask \in Asks BY DEF RcInv
<1>3. DOMAIN logged = 1 .. Len(logged) /\ Len(logged) \in Nat BY <1>2
<1>4. IsFiniteSet(keep)
  <2>1. IsFiniteSet(1 .. Len(logged)) BY <1>3, FS_Interval
  <2> QED BY <2>1, <1>3, FS_Subset
<1>5. IsFiniteSet({Entry(i) : i \in keep})
  <2> DEFINE g == [i \in keep |-> Entry(i)]
  <2>1. g \in Surjection(keep, {Entry(i) : i \in keep}) BY DEF Surjection
  <2> HIDE DEF keep, Entry, g
  <2> QED BY <1>4, <2>1, FS_Surjection
<1>6. ASSUME NEW i \in keep PROVE EntryOK(Entry(i), call.ask)
  <2>1. MatchScore(call.ask.query, logged[i]) \in Int BY <1>2, ScoreInt
  <2>2. MatchScore(call.ask.query, logged[i]) >= call.ask.min_score BY DEF Worth
  <2>3. i \in DOMAIN logged OBVIOUS
  <2> QED BY <2>1, <2>2, <2>3 DEF EntryOK
<1>7. ASSUME NEW i \in ids, Worth(call.ask, logged[i])
      PROVE  \E e \in {Entry(k) : k \in keep} : e.source # "document" /\ e.id = i
  <2>1. Entry(i) \in {Entry(k) : k \in keep} BY <1>7
  <2>2. Entry(i).source # "document" /\ Entry(i).id = i OBVIOUS
  <2> QED BY <2>1, <2>2
<1> QED BY <1>1, <1>5, <1>6, <1>7

(* What a read that goes on leaves, given the entries it goes on with: they are in
   order, a wanted turn is among them, and without turns they are within the limit. *)
LEMMA ProceedKeeps ==
  ASSUME RcInv, call.stage # "idle", NEW from \in {"ranked", "session", "cross"},
         NEW entries, NEW missed, Proceed(from, entries, missed), UNCHANGED <<logged, docRows>>,
         IsFiniteSet(entries), \A e \in entries : EntryOK(e, call.ask),
         from = "ranked" => Cardinality(entries) <= call.ask.limit,
         from # "ranked" => call.ask.session # NoChat \/ call.ask.cross,
         from = "cross" => call.ask.cross,
         from # "ranked" /\ "session" \notin missed =>
           \A i \in 1 .. call.begun :
             Worth(call.ask, logged[i]) /\ call.ask.session # NoChat
               /\ logged[i].session = call.ask.session =>
                 \E e \in entries : e.source # "document" /\ e.id = i,
         from = "cross" /\ "cross" \notin missed =>
           \A i \in 1 .. call.begun :
             Worth(call.ask, logged[i]) /\ i \in episodic_cross_session_search(call.ask) =>
               \E e \in entries : e.source # "document" /\ e.id = i
  PROVE  RcInv'
<1> DEFINE next == IF from = "ranked" /\ call.ask.session # NoChat THEN "session"
                   ELSE IF from # "cross" /\ call.ask.cross THEN "cross" ELSE "done"
           turns == call.ask.session # NoChat \/ call.ask.cross
<1>1. call = [stage |-> call.stage, ask |-> call.ask, excluded |-> call.excluded,
              begun |-> call.begun, out |-> call.out, missed |-> call.missed]
      /\ call.ask \in Asks /\ call.begun \in 0 .. Len(logged) /\ logged \in Seq(Turns)
      /\ call.excluded = Exclusion(call.ask) /\ docRows \subseteq DOMAIN Hits
  BY DEF RcInv
<1>2. PICK out \in IF next = "done" /\ turns THEN Truncated(entries, call.ask.limit) ELSE {entries} :
        call' = [call EXCEPT !.stage = next, !.out = out, !.missed = missed]
  BY DEF Proceed
<1>3. next \in {"session", "cross", "done"} /\ next # "idle" OBVIOUS
<1>3a. PICK nx : nx = next OBVIOUS
<1>3b. /\ nx = "session" => from = "ranked" /\ call.ask.session # NoChat
       /\ nx = "cross" => from # "cross" /\ call.ask.cross /\ (from = "ranked" => call.ask.session = NoChat)
       /\ nx = "done" => /\ from = "ranked" => call.ask.session = NoChat
                         /\ from # "cross" => ~call.ask.cross
  BY <1>3a, RecallAssumption, <1>1
<1> HIDE DEF next
<1>4. call' = [stage |-> nx, ask |-> call.ask, excluded |-> call.excluded,
               begun |-> call.begun, out |-> out, missed |-> missed]
  BY <1>1, <1>2, <1>3a, Zenon
<1>5. call'.stage = nx /\ call'.ask = call.ask /\ call'.excluded = call.excluded
      /\ call'.begun = call.begun /\ call'.out = out /\ call'.missed = missed
  BY <1>4
<1>6. call.ask.limit \in Nat /\ call.ask.cross \in BOOLEAN BY <1>1, RecallAssumption
<1>7. \A e \in entries : e.score \in Int BY DEF EntryOK
<1>8. out \subseteq entries /\ IsFiniteSet(out)
      /\ (turns /\ nx = "done" =>
            /\ Cardinality(out) <= call.ask.limit
            /\ \A e \in entries : \/ e \in out
                                  \/ Cardinality(out) = call.ask.limit /\ \A f \in out : f.score >= e.score)
      /\ (~(turns /\ nx = "done") => out = entries)
  <2>1. CASE nx = "done" /\ turns
    <3>1. out \in Truncated(entries, call.ask.limit) BY <1>2, <1>3a, <2>1
    <3> HIDE DEF turns
    <3> QED BY <3>1, <2>1, <1>6, <1>7, TruncatedKeeps
  <2>2. CASE ~(nx = "done" /\ turns) BY <1>2, <1>3a, <2>2
  <2> QED BY <2>1, <2>2
<1>9. \A e \in entries : EntryOK(e, call.ask)' BY <1>5 DEF EntryOK, Exclusion
<1>10. Gathered(out, missed, nx)'
  <2>1. \A e \in out : EntryOK(e, call.ask)' BY <1>8, <1>9
  <2>2. nx = "cross" => from \in {"ranked", "session"} /\ out = entries BY <1>8, <1>3b
  <2>3. nx = "cross" /\ from = "ranked" => call.ask.session = NoChat BY <1>3b
  <2> QED
    BY <2>1, <2>2, <2>3, <1>3, <1>3a, <1>3b, <1>5, <1>8 DEF Gathered, Worth
<1>11. RecallSound'
  <2> SUFFICES ASSUME nx = "done"
               PROVE  /\ Cardinality(out) <= call.ask.limit
                      /\ \A e \in out : e.score >= call.ask.min_score
                      /\ NoEcho' /\ TurnsOnce' /\ NothingBetterLeftOut'
    BY <1>5 DEF RecallSound
  <2>1. Cardinality(out) <= call.ask.limit BY <1>8, <1>3b
  <2>2. \A e \in out : EntryOK(e, call.ask) BY <1>8
  <2>3. \A e \in out : e.score >= call.ask.min_score BY <2>2 DEF EntryOK
  <2>4. NoEcho' BY <2>2, <1>5 DEF NoEcho, EntryOK, Exclusion
  <2>5. TurnsOnce'
    <3>1. ASSUME NEW e \in out, NEW f \in out, e.source # "document", f.source # "document", e.id = f.id
          PROVE  e = f
      <4>1. e.source \in {"session", "cross"} /\ f.source \in {"session", "cross"}
        BY <2>2, <3>1 DEF EntryOK
      <4>2. e.source = f.source BY <4>1, <2>2, <3>1 DEF EntryOK
      <4>3. e = [source |-> e.source, id |-> e.id, score |-> MatchScore(call.ask.query, logged[e.id])]
        BY <2>2, <3>1 DEF EntryOK
      <4>4. f = [source |-> f.source, id |-> f.id, score |-> MatchScore(call.ask.query, logged[f.id])]
        BY <2>2, <3>1 DEF EntryOK
      <4> QED BY <4>2, <4>3, <4>4, <3>1, Zenon
    <3>2. ASSUME NEW e \in out, e.source # "document", ~call.ask.cross
          PROVE  logged[e.id].session = call.ask.session
      BY <3>2, <2>2 DEF EntryOK
    <3> QED BY <3>1, <3>2, <1>5 DEF TurnsOnce
  <2>6. NothingBetterLeftOut'
    <3> SUFFICES ASSUME NEW i \in 1 .. call.begun, (OwnWanted(i) \/ CrossWanted(i))'
                 PROVE  \/ \E e \in out : e.source # "document" /\ e.id = i
                        \/ /\ Cardinality(out) = call.ask.limit
                           /\ \A e \in out : e.score >= MatchScore(call.ask.query, logged[i])
      BY <1>5 DEF NothingBetterLeftOut
    <3>1. turns BY <1>5 DEF OwnWanted, CrossWanted
    <3>2. PICK e \in entries : e.source # "document" /\ e.id = i
      <4>1. CASE OwnWanted(i)'
        <5>1. from # "ranked" BY <4>1, <1>5, <1>3b DEF OwnWanted
        <5> QED BY <5>1, <4>1, <1>5 DEF OwnWanted
      <4>2. CASE CrossWanted(i)'
        <5>1. from = "cross" BY <4>2, <1>5, <1>3b DEF CrossWanted
        <5>2. i \in episodic_cross_session_search(call.ask)
          BY <4>2, <1>5 DEF CrossWanted, episodic_cross_session_search
        <5> QED BY <5>1, <5>2, <4>2, <1>5 DEF CrossWanted
      <4> QED BY <4>1, <4>2
    <3>3. e.score = MatchScore(call.ask.query, logged[i])
      <4>1. e = [source |-> e.source, id |-> e.id, score |-> MatchScore(call.ask.query, logged[e.id])]
        BY <3>2 DEF EntryOK
      <4> QED BY <4>1, <3>2
    <3> QED BY <3>1, <3>2, <3>3, <1>8
  <2> QED BY <2>1, <2>3, <2>4, <2>5, <2>6
<1> QED
  BY <1>1, <1>3, <1>3a, <1>4, <1>5, <1>10, <1>11 DEF RcInv, Exclusion

LEMMA RankedKeeps == ASSUME RcInv, ReadRanked PROVE RcInv'
<1>1. call.stage = "ranked" BY DEF ReadRanked
<1>2. call.ask \in Asks /\ call.excluded = Exclusion(call.ask) /\ docRows \subseteq DOMAIN Hits
  BY <1>1 DEF RcInv
<1>3. call.ask.limit \in Nat BY <1>2, RecallAssumption
<1> DEFINE ids == {g \in docRows : ~(Hits[g].kind = "document" /\ call.excluded # NoChat
                                     /\ Hits[g].session = call.excluded)}
           Row(h) == [source |-> Hits[h].kind, id |-> h, score |-> Hits[h].score]
           rows == {Row(h) : h \in ids}
           Kept(docs) == {e \in docs : /\ e.score >= call.ask.min_score
                                       /\ call.ask.category \in {AnyCategory, Hits[e.id].category}}
<1>4. PICK docs \in Ranked(call.ask, call.excluded) : Proceed("ranked", Kept(docs), {})
  BY DEF ReadRanked
<1>5. PICK s \in Truncated(rows, call.ask.limit) : docs = {e \in s : e.source = "document"}
  BY <1>4 DEF Ranked
<1>6. IsFiniteSet(rows)
  <2>1. IsFiniteSet(ids) BY <1>2, RecallAssumption, FS_Subset
  <2> DEFINE g == [h \in ids |-> Row(h)]
  <2>2. g \in Surjection(ids, rows) BY DEF Surjection
  <2> HIDE DEF ids, Row, rows, g
  <2> QED BY <2>1, <2>2, FS_Surjection
<1>7. \A e \in rows : e.score \in Int /\ e.id \in ids BY <1>2, RecallAssumption
<1>8. s \subseteq rows /\ IsFiniteSet(s) /\ Cardinality(s) <= call.ask.limit
  <2> HIDE DEF rows
  <2> QED BY <1>3, <1>5, <1>6, <1>7, TruncatedKeeps
<1>9. Kept(docs) \subseteq s BY <1>5
<1>10. IsFiniteSet(Kept(docs)) /\ Cardinality(Kept(docs)) <= call.ask.limit
  <2>1. IsFiniteSet(Kept(docs)) /\ Cardinality(Kept(docs)) <= Cardinality(s)
    <3> HIDE DEF Kept
    <3> QED BY <1>8, <1>9, FS_Subset
  <2>2. Cardinality(Kept(docs)) \in Nat /\ Cardinality(s) \in Nat BY <2>1, <1>8, FS_CardinalityType
  <2> HIDE DEF Kept
  <2> QED BY <2>1, <2>2, <1>3, <1>8
<1>11. ASSUME NEW e \in Kept(docs) PROVE EntryOK(e, call.ask)
  <2>1. e.source = "document" /\ e \in rows /\ e.score >= call.ask.min_score BY <1>5, <1>8
  <2>2. PICK h \in ids : e = Row(h) BY <2>1
  <2>3. e.id = h /\ Hits[h].kind = "document" /\ e.score \in Int BY <2>1, <2>2, <1>7
  <2>4. call.excluded = NoChat \/ Hits[h].session # call.excluded BY <2>3
  <2> QED BY <2>1, <2>3, <2>4, <1>2 DEF EntryOK
<1>12. UNCHANGED <<logged, docRows>> BY DEF ReadRanked
<1> HIDE DEF Kept
<1> QED BY <1>1, <1>4, <1>10, <1>11, <1>12, ProceedKeeps

LEMMA SessionKeeps == ASSUME RcInv, ReadSession PROVE RcInv'
<1> DEFINE ids == episodic_session_entries(call.ask.session)
           new == Scored("session", ids, call.ask)
<1>1. call.stage = "session" /\ Proceed("session", call.out \cup new, call.missed)
      /\ UNCHANGED <<logged, docRows>>
  BY DEF ReadSession
<1>2. logged \in Seq(Turns) /\ call.begun \in 0 .. Len(logged) /\ Gathered(call.out, call.missed, call.stage)
  BY <1>1 DEF RcInv
<1>3. ids \in SUBSET DOMAIN logged /\ \A i \in ids : logged[i].session = call.ask.session
  BY DEF episodic_session_entries
<1>4. IsFiniteSet(new) /\ (\A e \in new : EntryOK(e, call.ask))
      /\ \A i \in ids : Worth(call.ask, logged[i]) => \E e \in new : e.source # "document" /\ e.id = i
  <2> HIDE DEF ids
  <2> QED BY <1>1, <1>3, ScoredOK
<1>5. \A i \in 1 .. call.begun : logged[i].session = call.ask.session => i \in ids
  BY <1>2 DEF episodic_session_entries
<1>6. IsFiniteSet(call.out \cup new) /\ \A e \in call.out \cup new : EntryOK(e, call.ask)
  <2> HIDE DEF new
  <2> QED BY <1>2, <1>4, FS_Union DEF Gathered
<1>7. call.ask.session # NoChat BY <1>1 DEF RcInv, Gathered
<1> QED BY <1>1, <1>4, <1>5, <1>6, <1>7, ProceedKeeps

LEMMA CrossKeeps == ASSUME RcInv, ReadCross PROVE RcInv'
<1> DEFINE found == episodic_cross_session_search(call.ask)
           Missed(ids) == call.missed \cup (IF ids = found THEN {} ELSE {"cross"})
<1>1. call.stage = "cross" /\ UNCHANGED <<logged, docRows>> BY DEF ReadCross
<1>2. PICK ids \in Limited(found, call.ask.limit) :
        Proceed("cross", call.out \cup Scored("cross", ids, call.ask), Missed(ids))
  BY DEF ReadCross
<1> DEFINE new == Scored("cross", ids, call.ask)
<1>3. call.ask.cross BY <1>1 DEF RcInv, Gathered
<1>4. ids \in SUBSET DOMAIN logged /\ \A i \in ids : logged[i].session # call.ask.session
  BY <1>2 DEF Limited, episodic_cross_session_search
<1>5. IsFiniteSet(new) /\ (\A e \in new : EntryOK(e, call.ask))
      /\ \A i \in ids : Worth(call.ask, logged[i]) => \E e \in new : e.source # "document" /\ e.id = i
  <2> HIDE DEF found
  <2> QED BY <1>1, <1>3, <1>4, ScoredOK
<1>6. Gathered(call.out, call.missed, "cross") BY <1>1 DEF RcInv
<1>7. IsFiniteSet(call.out \cup new) /\ \A e \in call.out \cup new : EntryOK(e, call.ask)
  <2> HIDE DEF new
  <2> QED BY <1>5, <1>6, FS_Union DEF Gathered
<1>8. "cross" \notin Missed(ids) => ids = found OBVIOUS
<1>9. "session" \notin Missed(ids) => "session" \notin call.missed OBVIOUS
<1> HIDE DEF Missed, new
<1> QED BY <1>1, <1>2, <1>3, <1>5, <1>6, <1>7, <1>8, <1>9, ProceedKeeps DEF Gathered, new

LEMMA FailureKeeps == ASSUME RcInv, TurnsFail PROVE RcInv'
<1>1. call.stage \in {"session", "cross"} /\ UNCHANGED <<logged, docRows>>
      /\ Proceed(call.stage, call.out, call.missed \cup {call.stage})
  BY DEF TurnsFail
<1>2. Gathered(call.out, call.missed, call.stage) BY <1>1 DEF RcInv
<1>3. call.stage = "session" => "session" \in call.missed \cup {call.stage} OBVIOUS
<1>4. call.stage = "cross" => "cross" \in call.missed \cup {call.stage} OBVIOUS
<1>5. "session" \notin call.missed \cup {call.stage} => "session" \notin call.missed OBVIOUS
<1> QED BY <1>1, <1>2, <1>3, <1>4, <1>5, ProceedKeeps DEF Gathered

(* A turn that is logged while a recall is under way changes nothing for it. *)
LEMMA LogKeeps == ASSUME RcInv, NEW turn \in Turns, LogTurn(turn) PROVE RcInv'
<1>1. logged' = Append(logged, turn) /\ UNCHANGED <<docRows, call>> /\ logged \in Seq(Turns)
  BY DEF LogTurn, RcInv
<1>2. /\ logged' \in Seq(Turns) /\ Len(logged) \in Nat /\ Len(logged') = Len(logged) + 1
      /\ DOMAIN logged = 1 .. Len(logged) /\ DOMAIN logged' = 1 .. Len(logged) + 1
      /\ \A i \in DOMAIN logged : i \in DOMAIN logged' /\ logged'[i] = logged[i]
  BY <1>1
<1>3. CASE call.stage = "idle"
  BY <1>1, <1>2, <1>3 DEF RcInv, RecallSound
<1>4. CASE call.stage # "idle"
  <2>1. call.begun \in 0 .. Len(logged) /\ Gathered(call.out, call.missed, call.stage)
    BY <1>4 DEF RcInv
  <2>2. \A i \in 1 .. call.begun : i \in DOMAIN logged BY <1>2, <2>1
  <2>3. \A e \in call.out : EntryOK(e, call.ask)' BY <1>1, <1>2, <2>1 DEF Gathered, EntryOK, Exclusion
  <2>4. Gathered(call.out, call.missed, call.stage)'
    BY <1>1, <1>2, <2>1, <2>2, <2>3 DEF Gathered, Worth
  <2>5. ASSUME call.stage = "done" PROVE NothingBetterLeftOut'
    <3>1. NothingBetterLeftOut BY <2>5 DEF RcInv, RecallSound
    <3>2. ASSUME NEW i \in 1 .. call.begun
          PROVE  (OwnWanted(i)' <=> OwnWanted(i)) /\ (CrossWanted(i)' <=> CrossWanted(i))
                 /\ logged'[i] = logged[i]
      BY <1>1, <1>2, <2>2 DEF OwnWanted, CrossWanted, Worth, episodic_cross_session_search
    <3> QED BY <3>1, <3>2, <1>1 DEF NothingBetterLeftOut
  <2>6. ASSUME call.stage = "done" PROVE NoEcho' /\ TurnsOnce'
    <3>1. NoEcho /\ TurnsOnce BY <2>6 DEF RcInv, RecallSound
    <3>2. \A e \in call.out : e.source # "document" => e.id \in DOMAIN logged
      BY <2>1 DEF Gathered, EntryOK
    <3> QED BY <3>1, <3>2, <1>1, <1>2 DEF NoEcho, TurnsOnce, Exclusion
  <2>7. RecallSound'
    BY <1>1, <2>5, <2>6 DEF RcInv, RecallSound
  <2> QED BY <1>1, <1>2, <1>4, <2>1, <2>4, <2>7 DEF RcInv, Exclusion
<1> QED BY <1>3, <1>4

(* Steps that only change which rows the namespace has. *)
LEMMA RowsKeep ==
  ASSUME RcInv, NEW h \in DOMAIN Hits, StoreRow(h) \/ ForgetRow(h)
  PROVE  RcInv'
<1>1. UNCHANGED <<logged, call>> /\ docRows' \subseteq DOMAIN Hits
  BY DEF RcInv, StoreRow, ForgetRow
<1>2. RecallSound' /\ (call.stage # "idle" => Gathered(call.out, call.missed, call.stage)')
  BY <1>1 DEF RcInv, RecallSound, NoEcho, TurnsOnce, NothingBetterLeftOut, OwnWanted, CrossWanted,
              Worth, episodic_cross_session_search, Exclusion, Gathered, EntryOK
<1> QED BY <1>1, <1>2 DEF RcInv, Exclusion

LEMMA BeginKeeps == ASSUME RcInv, NEW ask \in Asks, BeginRecall(ask) PROVE RcInv'
<1>1. call' = [stage |-> "ranked", ask |-> ask, excluded |-> Exclusion(ask), begun |-> Len(logged),
               out |-> {}, missed |-> {}]
      /\ UNCHANGED <<logged, docRows>>
  BY DEF BeginRecall
<1>2. IsFiniteSet({}) BY FS_EmptySet
<1>3. Len(logged) \in 0 .. Len(logged) BY DEF RcInv
<1>4. RecallSound' BY <1>1 DEF RecallSound
<1>5. Gathered(call.out, call.missed, call.stage)' BY <1>1, <1>2 DEF Gathered
<1> QED BY <1>1, <1>3, <1>4, <1>5 DEF RcInv, Exclusion

(* Whatever is logged, stored and forgotten between the reads of a recall, and
   whichever of its reads of turns fail, its answer is within the limit and the
   least score, has nothing of the excluded session among its documents and no
   turn twice, and leaves out no turn logged before it began that was worth more
   than an entry it returns. *)
THEOREM RecallCorrect == RcSpec => []RecallSound
<1>1. RcInit => RcInv
  BY DEF RcInit, RcInv, RcIdle, RecallSound
<1>2. RcInv /\ [RcNext]_rcVars => RcInv'
  <2> SUFFICES ASSUME RcInv, [RcNext]_rcVars PROVE RcInv' OBVIOUS
  <2>1. CASE \E ask \in Asks : BeginRecall(ask) BY <2>1, BeginKeeps
  <2>2. CASE ReadRanked BY <2>2, RankedKeeps
  <2>3. CASE RankedFails \/ Return
    BY <2>3 DEF RankedFails, Return, RcInv, RcIdle, RecallSound
  <2>4. CASE ReadSession BY <2>4, SessionKeeps
  <2>5. CASE ReadCross BY <2>5, CrossKeeps
  <2>6. CASE TurnsFail BY <2>6, FailureKeeps
  <2>7. CASE \E turn \in Turns : LogTurn(turn) BY <2>7, LogKeeps
  <2>8. CASE \E h \in DOMAIN Hits : StoreRow(h) \/ ForgetRow(h) BY <2>8, RowsKeep
  <2>9. CASE UNCHANGED rcVars
    BY <2>9 DEF rcVars, RcInv, RecallSound, NoEcho, TurnsOnce, NothingBetterLeftOut, OwnWanted,
                CrossWanted, Worth, episodic_cross_session_search, Exclusion, Gathered, EntryOK
  <2> QED BY <2>1, <2>2, <2>3, <2>4, <2>5, <2>6, <2>7, <2>8, <2>9 DEF RcNext
<1>3. RcInv => RecallSound BY DEF RcInv
<1> QED BY <1>1, <1>2, <1>3, PTL DEF RcSpec
=============================================================================
