------------------------------ MODULE Sections ------------------------------
(***************************************************************************)
(* The section convention of namespaces (bus/namespace.rs) and the views   *)
(* the facade offers over it (sections/): one section's entries are put, *)
(* forgotten, listed and recalled by scope, and a listing or a recall of a *)
(* whole section is one provider call per namespace, between which others  *)
(* write.  A name is a sequence of tokens: words, the colon and the slash. *)
(***************************************************************************)
EXTENDS Integers, Sequences, FiniteSets, SequencesExt, FiniteSetsExt

CONSTANTS
    Known,                  \* the prefixes of the closed vocabulary
    Customs,                \* other words that may be a section's prefix
    MaxNameLen,             \* the longest name, in tokens (MAX_NAMESPACE_LEN)
    MaxSectionNamespaces,   \* MAX_SECTION_NAMESPACES
    StoredNames,            \* the names the provider's namespaces may have, in order
    KeyNames,               \* keys of entries, in order
    MaxScore,               \* scores of hits are 1..MaxScore
    Limit,                  \* the caller's limit on hits
    MaxRows,                \* bound on the entries there are at first
    MaxStores               \* bound on later writes

ASSUME SectionsAssumption ==
    /\ MaxSectionNamespaces \in Nat \ {0} /\ Limit \in Nat \ {0}
    /\ MaxRows \in Nat /\ MaxStores \in Nat

VARIABLES
    sectionRows, \* the provider's entries
    views,    \* the operation in progress on a section
    answers,  \* what an operation just returned
    stable,   \* ghost: the entries that were there from its beginning to now
    storeCount  \* how many writes there were

secVars == <<sectionRows, views, answers, stable, storeCount>>

---------------------------------------------------------------------------
(* Names.  "Up" is a word with an upper-case letter, "#" a character no name may hold. *)
Words == Known \cup Customs
StoredSpaces == Range(StoredNames)
SectionKeys == Range(KeyNames)
Section(sort, prefix) == [kind |-> sort, prefix |-> prefix]
NoSection == Section("none", "")
from_prefix(prefix) == Section(IF prefix \in Known THEN "known" ELSE "custom", prefix)

is_valid_section(prefix) == prefix \in Words
is_allowed_char(token) == token # "#"

IsTraversal(name, i) ==
    /\ name[i] = ".."
    /\ i = 1 \/ name[i - 1] = "/"
    /\ i = Len(name) \/ name[i + 1] = "/"

validate_name(name) ==
    /\ Len(name) \in 1..MaxNameLen
    /\ \A i \in DOMAIN name : is_allowed_char(name[i]) /\ ~IsTraversal(name, i)
    /\ Head(name) # "/" /\ Last(name) # "/"

(* Faulty variant: a prefix that is not a word of the vocabulary makes no section. *)
ParsesKnownOnly(name) ==
    IF Len(name) > 2 /\ name[2] = ":" /\ name[1] \in Known
      THEN [section |-> from_prefix(name[1]), scope |-> SubSeq(name, 3, Len(name))]
      ELSE [section |-> NoSection, scope |-> name]

(* Split at the first colon; without a valid prefix the name has no section. *)
Parse(name) ==
    IF Len(name) > 2 /\ name[2] = ":" /\ is_valid_section(name[1])
      THEN [section |-> from_prefix(name[1]), scope |-> SubSeq(name, 3, Len(name))]
      ELSE [section |-> NoSection, scope |-> name]

Render(section, scope) == <<section.prefix, ":">> \o scope

(* Namespace::new accepts the pair. *)
Forms(section, scope) ==
    /\ is_valid_section(section.prefix)
    /\ scope # <<>>
    /\ validate_name(Render(section, scope))

unsectioned(name) == validate_name(name) /\ Parse(name).section = NoSection

---------------------------------------------------------------------------
(* The provider: store, forget, namespaces, list and recall.               *)
Scores == 0..MaxScore   \* 0: no score, or one that is not finite
SecRow(ns, key, score) == [ns |-> ns, key |-> key, score |-> score, from |-> "store"]
In(ns) == {r \in sectionRows : r.ns = ns}
Holding == {r.ns : r \in sectionRows}

(* A row of the episodic log, which a session's recall adds whatever namespace it is pinned to. *)
Episode(ns) == [ns |-> ns, key |-> "turn", score |-> 1, from |-> "episodic"]

sort_score(r) == r.score

(* What the provider may answer: the best of the namespace, up to the limit. *)
Ranked(ns) ==
    {best \in SUBSET In(ns) :
        /\ Cardinality(best) = IF Cardinality(In(ns)) < Limit THEN Cardinality(In(ns)) ELSE Limit
        /\ \A r \in best, q \in In(ns) \ best : sort_score(r) >= sort_score(q)}

NoView == [op |-> "idle"]

SectionHits(op, section, hits, truncated) ==
    [op |-> op, section |-> section, hits |-> hits, truncated |-> truncated]
NoAnswer == SectionHits("none", NoSection, <<>>, FALSE)

Written(new) ==
    /\ storeCount' = storeCount + 1
    /\ sectionRows' = new
    /\ stable' = IF views = NoView THEN {} ELSE stable \cap new
    /\ answers' = NoAnswer
    /\ UNCHANGED views

Replaced(ns, key, score) ==
    {r \in sectionRows : r.ns # ns \/ r.key # key} \cup {SecRow(ns, key, score)}

(* Another caller of the same provider writes under any name. *)
StoreRaw ==
    /\ storeCount < MaxStores
    /\ \E ns \in StoredSpaces, key \in SectionKeys, score \in Scores : Written(Replaced(ns, key, score))

(* SectionView::new: a custom section that spells a known prefix is the known one. *)
(* Faulty variant: the caller's spelling is kept. *)
KeepsSpelling(section) == section

View(section) == from_prefix(section.prefix)

Spellings == {Section("known", p) : p \in Known} \cup {Section("custom", p) : p \in Words \cup {"Up"}}
Scopes == {Parse(ns).scope : ns \in StoredSpaces} \cup {<<>>}

Addressed(section, scope) == Forms(View(section), scope) /\ Render(View(section), scope) \in StoredSpaces

PutView ==
    \E section \in Spellings, scope \in Scopes :
      /\ storeCount < MaxStores /\ Addressed(section, scope)
      /\ \E key \in SectionKeys, score \in Scores : Written(Replaced(Render(View(section), scope), key, score))

ForgetView ==
    \E section \in Spellings, scope \in Scopes :
      /\ storeCount < MaxStores /\ Addressed(section, scope)
      /\ \E key \in SectionKeys, r \in In(Render(View(section), scope)) : r.key = key /\ Written(sectionRows \ {r})

---------------------------------------------------------------------------
(* Whole sections: list_section and across_section.                        *)

Place(seq, x) == SelectInSeq(seq, LAMBDA y : y = x)

(* The namespace with the most entries comes first, then the name decides. *)
Larger(a, b) ==
    LET n(ns) == Cardinality(In(ns))
    IN  n(a) > n(b) \/ (n(a) = n(b) /\ Place(StoredNames, a) < Place(StoredNames, b))

(* Faulty variant: the scopes are the names that begin with the prefix. *)
ScopesUnparsed(section) ==
    SetToSortSeq({ns \in Holding : ns[1] = section.prefix}, Larger)

ScopesOf(section) ==
    SetToSortSeq({ns \in Holding : validate_name(ns) /\ Parse(ns).section = section},
                 Larger)

Options == [namespace : BOOLEAN, session : BOOLEAN]
PlainOpts == [namespace |-> FALSE, session |-> FALSE]

reject_namespace_filter(opts) == opts.namespace

requests_episodic_augmentation(opts) == opts.session

reject_episodic_outside(section, opts) ==
    requests_episodic_augmentation(opts) /\ View(section) # Section("known", "conversation")

(* Faulty variant: the fan-out refuses what one scope refuses. *)
RefusesOutsideOnly(section, opts) ==
    reject_namespace_filter(opts) \/ reject_episodic_outside(section, opts)

RefusesFanOut(section, opts) ==
    reject_namespace_filter(opts) \/ requests_episodic_augmentation(opts)

Returned(answer) == answers' = answer /\ views' = NoView

Starts(op, section, opts, found) ==
    /\ views' = [op |-> op, section |-> View(section), opts |-> opts, got |-> <<>>,
                 left |-> IF op = "list" THEN found ELSE SubSeq(found, 1, Min({MaxSectionNamespaces, Len(found)})),
                 truncated |-> op # "list" /\ Len(found) > MaxSectionNamespaces]
    /\ answers' = NoAnswer
    /\ stable' = sectionRows

list_section(section) ==
    /\ is_valid_section(View(section).prefix)
    /\ Starts("list", section, PlainOpts, ScopesOf(View(section)))
    /\ UNCHANGED <<sectionRows, storeCount>>

across_section(section, opts) ==
    /\ ~RefusesFanOut(section, opts)
    /\ is_valid_section(View(section).prefix)
    /\ Starts("recall", section, opts, ScopesOf(View(section)))
    /\ UNCHANGED <<sectionRows, storeCount>>

in_scope(section, scope, opts) ==
    /\ ~reject_namespace_filter(opts) /\ ~reject_episodic_outside(section, opts)
    /\ Addressed(section, scope)
    /\ Starts("scope", section, opts, <<Render(View(section), scope)>>)
    /\ UNCHANGED <<sectionRows, storeCount>>

(* One provider call for the next namespace: a list, or a recall pinned to it. *)
Gather(got) == views' = [views EXCEPT !.got = @ \o SetToSeq(got), !.left = Tail(@)]

NextScope ==
    /\ views # NoView /\ views.left # <<>>
    /\ LET ns == Head(views.left)
       IN  \/ views.op = "list" /\ Gather(In(ns))
           \/ /\ views.op # "list"
              /\ \E best \in Ranked(ns) :
                   Gather(best \cup IF views.opts.session THEN {Episode(ns)} ELSE {})
    /\ UNCHANGED <<sectionRows, answers, stable, storeCount>>

(* A provider call fails: the operation fails as a whole. *)
CallFails ==
    /\ views # NoView /\ views.left # <<>>
    /\ Returned(NoAnswer)
    /\ stable' = {}
    /\ UNCHANGED <<sectionRows, storeCount>>

Outranks(a, b) ==
    \/ sort_score(a) > sort_score(b)
    \/ sort_score(a) = sort_score(b) /\ Place(StoredNames, a.ns) < Place(StoredNames, b.ns)
    \/ sort_score(a) = sort_score(b) /\ a.ns = b.ns /\ Place(KeyNames, a.key) < Place(KeyNames, b.key)

(* Faulty variant: the hits are cut before they are sorted. *)
CutsFirst(hits) == SubSeq(hits, 1, Min({Limit, Len(hits)}))

merge_hits(hits) ==
    LET order == SortSeq(hits, Outranks)
    IN  SubSeq(order, 1, Min({Limit, Len(order)}))

FinishView ==
    /\ views # NoView /\ views.left = <<>>
    /\ Returned(SectionHits(views.op, views.section,
                       IF views.op = "recall" THEN merge_hits(views.got) ELSE views.got,
                       views.truncated))
    /\ UNCHANGED <<sectionRows, stable, storeCount>>

(* The provider holds what its callers stored before. *)
Filled ==
    LET all == {SecRow(ns, key, score) : ns \in StoredSpaces, key \in SectionKeys, score \in Scores}
        sets == UNION {{Range(f) : f \in [1..k -> all]} : k \in 0..MaxRows}
    IN  {set \in sets : \A r, q \in set : r.ns = q.ns /\ r.key = q.key => r = q}

SecInit ==
    /\ sectionRows \in Filled
    /\ views = NoView
    /\ answers = NoAnswer
    /\ stable = {}
    /\ storeCount = 0

SecNext ==
    \/ StoreRaw \/ PutView \/ ForgetView
    \/ \E section \in Spellings :
         /\ views = NoView
         /\ \/ list_section(section)
            \/ \E opts \in Options : across_section(section, opts) \/ \E scope \in Scopes : in_scope(section, scope, opts)
    \/ NextScope \/ CallFails \/ FinishView

---------------------------------------------------------------------------
SecTypeOK ==
    /\ sectionRows \subseteq [ns : StoredSpaces, key : SectionKeys, score : Scores, from : {"store"}]
    /\ stable \subseteq sectionRows
    /\ storeCount \in 0..MaxStores
    /\ views # NoView => Range(views.left) \subseteq StoredSpaces

(* What Namespace::new renders, parse reads back, and the other way round. *)
NamesRoundTrip ==
    LET tokens == Words \cup {"Up", ":", "/", "..", "#"}
        names == SeqOf(tokens, MaxNameLen) \ {<<>>}
    IN  /\ \A name \in {n \in names : validate_name(n)} :
             LET p == Parse(name)
             IN  \/ p.section = NoSection /\ unsectioned(name)
                 \/ Forms(p.section, p.scope) /\ Render(p.section, p.scope) = name
        /\ \A section \in Spellings, scope \in SeqOf(tokens, MaxNameLen - 2) :
             Forms(section, scope) =>
               /\ validate_name(Render(section, scope))
               /\ Parse(Render(section, scope)) = [section |-> View(section), scope |-> scope]

(* A listing or a recall of a section holds nothing of another section, nothing
   of a name outside the convention, no entry twice, and a turn of the episodic
   log at most once and only for conversations. *)
SectionIsolated ==
    LET hits == answers.hits
    IN  \A i \in DOMAIN hits :
          /\ Parse(hits[i].ns).section = answers.section
          /\ validate_name(hits[i].ns)
          /\ hits[i].from = "episodic" => answers.section = Section("known", "conversation")
          /\ \A j \in DOMAIN hits : hits[i].from = hits[j].from /\ hits[i].key = hits[j].key
                /\ (hits[i].from = "store" => hits[i].ns = hits[j].ns) => i = j

(* An entry of the section that was there all the time, untouched, is in its
   listing.  A recall that was not cut short leaves it out only for a full
   page of hits that score no less. *)
StableIsFound ==
    LET ofSection == {r \in stable : validate_name(r.ns) /\ Parse(r.ns).section = answers.section}
        hits == Range(answers.hits)
    IN  /\ answers.op = "list" => ofSection \subseteq hits
        /\ (answers.op = "recall" /\ ~answers.truncated) =>
             \A r \in ofSection \ hits :
               Len(answers.hits) = Limit /\ \A h \in hits : sort_score(h) >= sort_score(r)

SectionsSound == SecTypeOK /\ NamesRoundTrip /\ SectionIsolated /\ StableIsFound
=============================================================================
