--------------------------- MODULE ProfileFacets ----------------------------
(***************************************************************************)
(* The user profile (store/namespace_store/profile.rs, store/             *)
(* profile_store.rs): one row per facet, unique by facet_id and by         *)
(* (facet_type, key), written along two paths.  Providers merge a claim    *)
(* and its confidence (profile_upsert); the stability detector of the host *)
(* writes whole rows back (profile_upsert_full), which it read earlier,    *)
(* and sweeps what it dropped.  The user pins and forgets by key.          *)
(***************************************************************************)
EXTENDS Naturals, Sequences, FiniteSets

CONSTANTS
  FacetIds, FacetTypes, FacetKeys, FacetValues,
  MaxConfidence,   \* confidences are the numbers 0 .. MaxConfidence
  MaxStability,    \* stabilities are the numbers 0 .. MaxStability
  MaxEvidence      \* bound: evidence_count

ASSUME ProfileAssumption ==
  MaxConfidence \in Nat /\ MaxStability \in Nat /\ MaxEvidence \in Nat \ {0}

VARIABLES
  user_profile, \* the rows
  detector,     \* the row the stability detector read and will write back, or none
  claims,       \* history: what was claimed of a (type, key) since its facet was made
  chosen        \* history: what the user chose for it, "auto" before any choice

pfVars == <<user_profile, detector, claims, chosen>>

FacetState == {"active", "provisional", "candidate", "dropped"}
UserState  == {"auto", "pinned", "forgotten"}
Claim == [value : FacetValues, confidence : 0 .. MaxConfidence]

ProfileFacet ==
  [facet_id : FacetIds, facet_type : FacetTypes, key : FacetKeys,
   value : FacetValues, confidence : 0 .. MaxConfidence,
   evidence_count : 1 .. MaxEvidence, state : FacetState,
   stability : 0 .. MaxStability, user_state : UserState]

Slots == FacetTypes \X FacetKeys
Slot(row) == <<row.facet_type, row.key>>
AsClaim(row) == [value |-> row.value, confidence |-> row.confidence]

\* Faulty variant: the latest claim takes the row whatever its confidence.
MergeLatest(row, claim) ==
  [row EXCEPT !.evidence_count = @ + 1, !.value = claim.value, !.confidence = claim.confidence]

\* Faulty variant: the row is written anew, and the user's choice with it.
MergeForgetsChoice(row, claim) ==
  [(IF claim.confidence >= row.confidence
    THEN [row EXCEPT !.value = claim.value, !.confidence = claim.confidence] ELSE row)
   EXCEPT !.evidence_count = @ + 1, !.user_state = "auto"]

\* profile_upsert, on a (facet_type, key) that has a row: the evidence is counted,
\* the value taken over only by a claim at least as confident as the stored one.
MergeClaim(row, claim) ==
  IF claim.confidence >= row.confidence
  THEN [row EXCEPT !.evidence_count = @ + 1, !.value = claim.value,
                   !.confidence = claim.confidence]
  ELSE [row EXCEPT !.evidence_count = @ + 1]

\* Faulty variant: the first observation is not counted.
NewFacetUncounted(id, slot, claim) ==
  [facet_id |-> id, facet_type |-> slot[1], key |-> slot[2],
   value |-> claim.value, confidence |-> claim.confidence, evidence_count |-> 0,
   state |-> "active", stability |-> 0, user_state |-> "auto"]

\* profile_upsert, on a (facet_type, key) that has none.
NewFacet(id, slot, claim) ==
  [facet_id |-> id, facet_type |-> slot[1], key |-> slot[2],
   value |-> claim.value, confidence |-> claim.confidence, evidence_count |-> 1,
   state |-> "active", stability |-> 0, user_state |-> "auto"]

\* The histories of the slots that have no row any more end, ...
Ended(slots) ==
  /\ claims' = [s \in Slots |-> IF s \in slots THEN {} ELSE claims[s]]
  /\ chosen' = [s \in Slots |-> IF s \in slots THEN "auto" ELSE chosen[s]]

\* ... and that of a new facet begins with what it is made of.
Made(row, slots) ==
  /\ claims' = [s \in Slots |-> IF s = Slot(row) THEN {AsClaim(row)}
                               ELSE IF s \in slots THEN {} ELSE claims[s]]
  /\ chosen' = [s \in Slots |-> IF s = Slot(row) THEN row.user_state
                               ELSE IF s \in slots THEN "auto" ELSE chosen[s]]

\* upsert_provider_facet.  The insert of an id that another facet has violates the
\* primary key and changes nothing.
ProfileUpsert(id, slot, claim) ==
  LET existing == {r \in user_profile : Slot(r) = slot}
  IN  IF existing # {}
      THEN \E r \in existing :
             /\ r.evidence_count < MaxEvidence
             /\ user_profile' = (user_profile \ {r}) \cup {MergeClaim(r, claim)}
             /\ claims' = [claims EXCEPT ![slot] = @ \cup {claim}]
             /\ UNCHANGED chosen
      ELSE /\ \A r \in user_profile : r.facet_id # id
           /\ user_profile' = user_profile \cup {NewFacet(id, slot, claim)}
           /\ Made(NewFacet(id, slot, claim), {})

\* Faulty variant: only the conflict on the primary key is resolved.
UpsertFullById(row) == user_profile' = {r \in user_profile : r.facet_id # row.facet_id} \cup {row}

\* profile_upsert_full: INSERT OR REPLACE deletes every row that conflicts on facet_id
\* or on (facet_type, key) before it inserts the new one.
ProfileUpsertFull(row) ==
  user_profile' = {r \in user_profile : r.facet_id # row.facet_id /\ Slot(r) # Slot(row)} \cup {row}

\* The slot of the facet that has an id.
Bearers(id) == {Slot(r) : r \in {t \in user_profile : t.facet_id = id}}

\* upsert_facet, of a row the caller made.
UpsertFacet(row) ==
  /\ ProfileUpsertFull(row)
  /\ Made(row, Bearers(row.facet_id))

\* set_facet_user_state: every facet of the key, whatever its type; the lifecycle
\* state is left as it is.
ProfileSetUserState(key, us) ==
  /\ user_profile' = {IF r.key = key THEN [r EXCEPT !.user_state = us] ELSE r : r \in user_profile}
  /\ chosen' = [s \in Slots |-> IF s[2] = key /\ \E r \in user_profile : Slot(r) = s THEN us ELSE chosen[s]]
  /\ UNCHANGED claims

RemoveFacets(gone) == user_profile' = user_profile \ gone /\ Ended({Slot(r) : r \in gone})

\* delete_facet and delete_facet_by_id.
ProfileDeleteByKey(key) == RemoveFacets({r \in user_profile : r.key = key})
DeleteByFacetId(id)     == RemoveFacets({r \in user_profile : r.facet_id = id})

\* drop_facets_below: the sweep.
ProfileDeleteBelowThreshold(threshold) ==
  RemoveFacets({r \in user_profile :
            r.stability < threshold /\ r.user_state # "pinned" /\ r.state = "dropped"})

\* get_facet answers one row of the key; list_active_facets the active ones.
GetByKey(key)  == {r \in user_profile : r.key = key}
SelectActive   == {r \in user_profile : r.state = "active"}

\* The stability detector reads a facet and later writes it back whole with a new
\* stability and the state that follows from it, keeping the id it read.
DetectorReads ==
  /\ detector = {}
  /\ \E r \in user_profile : detector' = {r}
  /\ UNCHANGED <<user_profile, claims, chosen>>

(* Over a row it has not read, what it writes is a facet made anew: what was claimed
   and chosen in between is gone. *)
DetectorWrites ==
  /\ \E r \in detector, st \in 0 .. MaxStability, state \in {"active", "dropped"} :
       /\ ProfileUpsertFull([r EXCEPT !.stability = st, !.state = state])
       /\ \/ r \in user_profile /\ UNCHANGED <<claims, chosen>>
          \/ r \notin user_profile /\ Made(r, Bearers(r.facet_id))
  /\ detector' = {}

PfInit ==
  /\ user_profile = {} /\ detector = {}
  /\ claims = [s \in Slots |-> {}] /\ chosen = [s \in Slots |-> "auto"]

\* The operations of MemoryProfile, as the provider exposes them.
ProfileStep ==
  \/ \E id \in FacetIds, s \in Slots, c \in Claim : ProfileUpsert(id, s, c)
  \/ \E id \in FacetIds, s \in Slots, c \in Claim : UpsertFacet(NewFacet(id, s, c))
  \/ \E k \in FacetKeys, us \in UserState : ProfileSetUserState(k, us)
  \/ \E k \in FacetKeys : ProfileDeleteByKey(k)
  \/ \E id \in FacetIds : DeleteByFacetId(id)
  \/ \E t \in 0 .. MaxStability + 1 : ProfileDeleteBelowThreshold(t)

PfNext ==
  \/ ProfileStep /\ UNCHANGED detector
  \/ DetectorReads \/ DetectorWrites

PfSpec == PfInit /\ [][PfNext]_pfVars

(***************************************************************************)
(* Properties.                                                             *)
(***************************************************************************)

\* The rows have the columns of PROFILE_INIT_SQL.
PfTypeOK ==
  /\ user_profile \subseteq ProfileFacet
  /\ claims \in [Slots -> SUBSET Claim] /\ chosen \in [Slots -> UserState]

\* facet_id and (facet_type, key) stay keys of the table along every path, the
\* REPLACE that may delete two rows at once included.
FacetKeysUnique ==
  \A r, t \in user_profile :
    r.facet_id = t.facet_id \/ Slot(r) = Slot(t) => r = t

\* A facet holds one of the most confident claims made of it, so a weaker
\* observation never displaces a stronger one however the claims are ordered, and
\* what the user chose for it last, through merges, sweeps and the detector's
\* write-backs of what it read.  A write-back of a row that has changed since the
\* detector read it makes the facet anew: nothing in profile_upsert_full compares
\* the two (profile.rs:388).
StrongestClaimWins ==
  \A r \in user_profile :
    /\ AsClaim(r) \in claims[Slot(r)]
    /\ \A c \in claims[Slot(r)] : c.confidence <= r.confidence
UserChoiceKept ==
  \A r \in user_profile : r.user_state = chosen[Slot(r)]

\* One facet per type and key, holding the strongest claim made for it and the
\* user's choice.
FacetsSound == PfTypeOK /\ FacetKeysUnique /\ StrongestClaimWins /\ UserChoiceKept
=============================================================================
