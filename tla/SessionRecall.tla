---------------------------- MODULE SessionRecall ----------------------------
(***************************************************************************)
(* Recall through the Memory trait (store/memory_trait.rs,                  *)
(* store/recall_policy.rs and the searches of namespace_store/fts5.rs): the *)
(* ranked documents of a namespace, the turns of the caller's own session   *)
(* and the turns of every other session, merged, sorted and cut.            *)
(*                                                                          *)
(* The three reads take the connection one after the other, so turns are   *)
(* logged and documents stored and forgotten between them; the first read  *)
(* fails the recall, the two others are tolerated.  A text is the set of   *)
(* its words.  The full-text index compares stems, over all columns; the   *)
(* score compares letters, in the content alone.                            *)
(***************************************************************************)
EXTENDS Integers, Sequences, FiniteSets

CONSTANTS
  Chats,       \* session ids
  NoChat,      \* no session
  Hits,        \* rows a namespace query ranks: row id -> [kind, category, session, score]
  AnyCategory, \* no category asked for
  Turns,       \* rows that may be logged: [session, content, other], sets of words
  Stem,        \* word -> its porter stem
  Letters,     \* pairs <<word, term>>: the word contains the term
  QueryTerms,  \* words of a query as typed: [text, token], token a set of at most one word
  Asks,        \* recalls: [query, limit, min_score, session, cross, exclude, ambient, category]
  TokenLimit,  \* tokens sanitize_fts_query takes (8)
  FullScore,        \* score of a text that has every term
  MaxLogged    \* bound: turns ever logged

ASSUME RecallAssumption ==
  /\ NoChat \notin Chats
  /\ IsFiniteSet(DOMAIN Hits)
  /\ TokenLimit \in Nat /\ FullScore \in Nat /\ MaxLogged \in Nat
  /\ \A h \in DOMAIN Hits : Hits[h].score \in Int /\ Hits[h].session \in Chats \cup {NoChat}
  /\ \A t \in Turns : t.session \in Chats
  /\ \A a \in Asks :
       /\ a.query \in Seq(QueryTerms) /\ a.limit \in Nat /\ a.min_score \in Int
       /\ a.session \in Chats \cup {NoChat} /\ a.cross \in BOOLEAN

VARIABLES
  logged,   \* episodic_log, in the order of its ids
  docRows,  \* ids of the rows of the namespace
  call      \* the recall under way: what was asked, what it has read

rcVars == <<logged, docRows, call>>

Smaller(a, b) == IF a < b THEN a ELSE b

(* sanitize_fts_query: what is left of the terms, at most TokenLimit of them. *)
sanitize_fts_query(query) ==
  LET tokens == SelectSeq(query, LAMBDA t : t.token # {})
  IN  UNION {tokens[i].token : i \in 1 .. Smaller(TokenLimit, Len(tokens))}

Stems(words) == {Stem[w] : w \in words}

Matched(query, turn) ==
  Cardinality({i \in DOMAIN query : \E w \in turn.content : <<w, query[i].text>> \in Letters})

MatchScore(query, turn) ==
  (Matched(query, turn) * FullScore) \div (IF Len(query) > 1 THEN Len(query) ELSE 1)

(* A turn that has none of the terms is dropped, whatever the index said. *)
Worth(ask, turn) ==
  Matched(ask.query, turn) > 0 /\ MatchScore(ask.query, turn) >= ask.min_score

Scored(source, ids, ask) ==
  {[source |-> source, id |-> i, score |-> MatchScore(ask.query, logged[i])] :
     i \in {j \in ids : Worth(ask, logged[j])}}

episodic_session_entries(session) == {i \in DOMAIN logged : logged[i].session = session}

(* The MATCH: every token, in whichever column; a query without one finds nothing. *)
Indexed(query, turn) ==
  LET tokens == sanitize_fts_query(query)
  IN  tokens # {} /\ Stems(tokens) \subseteq Stems(turn.content \cup turn.other)

(* Faulty variant: the search does not leave the caller's session out. *)
SearchAllSessions(ask) == {i \in DOMAIN logged : Indexed(ask.query, logged[i])}

(* episodic_cross_session_search before its LIMIT. *)
episodic_cross_session_search(ask) ==
  {i \in DOMAIN logged : logged[i].session # ask.session /\ Indexed(ask.query, logged[i])}

(* The rows LIMIT lets through; bm25 may rank them in any way. *)
Limited(ids, limit) ==
  {s \in SUBSET ids : Cardinality(s) = Smaller(limit, Cardinality(ids))}

(* The sort is stable, and documents are pushed before turns of the session,
   those before turns of other sessions. *)
Place(e) == CASE e.source = "session" -> 1 [] e.source = "cross" -> 2 [] OTHER -> 0
SortsBefore(e, f) == e.score > f.score \/ (e.score = f.score /\ Place(e) < Place(f))

(* sort_by and truncate: what may be left of the entries. *)
Truncated(entries, limit) ==
  {s \in SUBSET entries :
     /\ Cardinality(s) = Smaller(limit, Cardinality(entries))
     /\ \A e \in s, f \in entries \ s : ~SortsBefore(f, e)}

(* query_namespace_ranked_excluding_session: rows of the excluded session are
   dropped before the ranking, rows that are no documents after it. *)
Ranked(ask, excluded) ==
  LET rows == {[source |-> Hits[h].kind, id |-> h, score |-> Hits[h].score] :
                 h \in {g \in docRows : ~(Hits[g].kind = "document" /\ excluded # NoChat
                                         /\ Hits[g].session = excluded)}}
  IN  {{e \in s : e.source = "document"} : s \in Truncated(rows, ask.limit)}

(* Memory::recall: what the caller names wins over the ambient thread. *)
Exclusion(ask) == IF ask.exclude # NoChat THEN ask.exclude ELSE ask.ambient

RcIdle == [stage |-> "idle"]

RcInit == logged = <<>> /\ docRows = {} /\ call = RcIdle

BeginRecall(ask) ==
  /\ call.stage = "idle"
  /\ call' = [stage |-> "ranked", ask |-> ask, excluded |-> Exclusion(ask), begun |-> Len(logged),
              out |-> {}, missed |-> {}]
  /\ UNCHANGED <<logged, docRows>>

(* Where a recall goes after a read, with the entries it has so far; the last
   one sorts and cuts what it returns, if turns were asked for. *)
Proceed(from, entries, missed) ==
  LET next == IF from = "ranked" /\ call.ask.session # NoChat THEN "session"
              ELSE IF from # "cross" /\ call.ask.cross THEN "cross" ELSE "done"
  IN  \E out \in IF next = "done" /\ (call.ask.session # NoChat \/ call.ask.cross)
                 THEN Truncated(entries, call.ask.limit) ELSE {entries} :
        call' = [call EXCEPT !.stage = next, !.out = out, !.missed = missed]

ReadRanked ==
  /\ call.stage = "ranked"
  /\ \E docs \in Ranked(call.ask, call.excluded) :
       Proceed("ranked",
               {e \in docs : /\ e.score >= call.ask.min_score
                             /\ call.ask.category \in {AnyCategory, Hits[e.id].category}},
               {})
  /\ UNCHANGED <<logged, docRows>>

(* A namespace query that fails fails the recall. *)
RankedFails ==
  /\ call.stage = "ranked"
  /\ call' = RcIdle
  /\ UNCHANGED <<logged, docRows>>

ReadSession ==
  /\ call.stage = "session"
  /\ Proceed("session",
             call.out \cup Scored("session", episodic_session_entries(call.ask.session), call.ask),
             call.missed)
  /\ UNCHANGED <<logged, docRows>>

ReadCross ==
  /\ call.stage = "cross"
  /\ LET found == episodic_cross_session_search(call.ask)
     IN  \E ids \in Limited(found, call.ask.limit) :
           Proceed("cross", call.out \cup Scored("cross", ids, call.ask),
                   call.missed \cup (IF ids = found THEN {} ELSE {"cross"}))
  /\ UNCHANGED <<logged, docRows>>

(* A failed read of turns is tolerated. *)
TurnsFail ==
  /\ call.stage \in {"session", "cross"}
  /\ Proceed(call.stage, call.out, call.missed \cup {call.stage})
  /\ UNCHANGED <<logged, docRows>>

Return ==
  /\ call.stage = "done"
  /\ call' = RcIdle
  /\ UNCHANGED <<logged, docRows>>

(* The other parties: episodic_insert, and the writers of the namespace. *)
LogTurn(turn) ==
  /\ Len(logged) < MaxLogged
  /\ logged' = Append(logged, turn)
  /\ UNCHANGED <<docRows, call>>

StoreRow(h) ==
  /\ docRows' = docRows \cup {h}
  /\ UNCHANGED <<logged, call>>

ForgetRow(h) ==
  /\ docRows' = docRows \ {h}
  /\ UNCHANGED <<logged, call>>

RcNext ==
  \/ \E ask \in Asks : BeginRecall(ask)
  \/ ReadRanked \/ RankedFails \/ ReadSession \/ ReadCross \/ TurnsFail \/ Return
  \/ \E turn \in Turns : LogTurn(turn)
  \/ \E h \in DOMAIN Hits : StoreRow(h) \/ ForgetRow(h)

RcSpec == RcInit /\ [][RcNext]_rcVars

---------------------------------------------------------------------------
(* Nothing of the session a caller excludes comes back as a document, whether it
   said so itself or is inside a turn of that session. *)
NoEcho ==
  \A e \in call.out :
    e.source = "document" => \/ Exclusion(call.ask) = NoChat
                             \/ Hits[e.id].session # Exclusion(call.ask)

(* No turn comes back twice, although two reads at different moments look for
   it and turns are logged between them; without cross-session recall none of
   another session comes back at all. *)
TurnsOnce ==
  /\ \A e, f \in call.out : (e.source # "document" /\ f.source # "document" /\ e.id = f.id) => e = f
  /\ \A e \in call.out :
       e.source # "document" /\ ~call.ask.cross => logged[e.id].session = call.ask.session

(* A turn of the session that was logged before the recall began and is worth
   min_score comes back, unless its read failed or the answer is full of entries
   worth as much; the same of a turn of another session that the index matches,
   unless the search found more than its limit. *)
OwnWanted(i) ==
  /\ Worth(call.ask, logged[i]) /\ "session" \notin call.missed
  /\ call.ask.session # NoChat /\ logged[i].session = call.ask.session

CrossWanted(i) ==
  /\ Worth(call.ask, logged[i]) /\ "cross" \notin call.missed
  /\ call.ask.cross /\ i \in episodic_cross_session_search(call.ask)

NothingBetterLeftOut ==
  \A i \in 1 .. call.begun :
    OwnWanted(i) \/ CrossWanted(i) =>
      \/ \E e \in call.out : e.source # "document" /\ e.id = i
      \/ /\ Cardinality(call.out) = call.ask.limit
         /\ \A e \in call.out : e.score >= MatchScore(call.ask.query, logged[i])

(* The answer of a recall: within the limit and the least score, without echo,
   without repetition and without a gap. *)
RecallSound ==
  call.stage = "done" =>
    /\ Cardinality(call.out) <= call.ask.limit
    /\ \A e \in call.out : e.score >= call.ask.min_score
    /\ NoEcho /\ TurnsOnce /\ NothingBetterLeftOut
=============================================================================
