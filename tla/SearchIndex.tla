----------------------------- MODULE SearchIndex -----------------------------
(***************************************************************************)
(* The inverted index behind search_cross_thread_messages                  *)
(* (tinymemory-conversations/src/inverted_index.rs) and the normalisation  *)
(* and n-grams it is keyed by (tokenize.rs).  A text is a sequence of      *)
(* characters; what the tables of tokenize.rs do with a character is a     *)
(* constant.  Every call holds the index exclusively, so an operation is   *)
(* one action, and a search, which changes nothing, is an operator.        *)
(***************************************************************************)
EXTENDS Integers, Sequences, FiniteSets, Functions, SequencesExt

CONSTANTS
    Chars,
    Cjk,           \* is_cjk
    Blank,         \* white space, after normalisation
    Folded,        \* [Chars -> what normalize pushes for the character]
    Width,         \* [Chars -> bytes in UTF-8]
    Channels,      \* thread ids
    Incoming,      \* messages: [id, content, at]; `at` is an Int or Garbled
    Queries,
    Limits,
    LargeLimit,    \* LARGE_CANDIDATE_LIMIT
    MaxDocs,       \* bound on the documents of a behaviour
    Garbled,       \* a created_at no RFC 3339 parser accepts
    Epoch,         \* i64::MIN
    Gone           \* a slot whose message was removed

MinTermBytes == 3

-----------------------------------------------------------------------------
(* tokenize.rs                                                              *)

\* normalize: every character is lowercased and looked up in the fold tables
\* by itself; a combining mark leaves nothing, a ligature several letters.
normalize(text) == FlattenSeq([i \in 1..Len(text) |-> Folded[text[i]]])

\* The n characters after position k, and whether they are of one script.
Window(text, k, n) == [i \in 1..n |-> text[k + i]]
OneScript(text, k, n) ==
    IF n = 2 THEN \A i \in 1..n : text[k + i] \in Cjk
             ELSE \A i \in 1..n : text[k + i] \notin Cjk

\* ngrams: the windows of two inside a CJK run and of three inside any other.
ngrams(text) ==
    {Window(text, w[1], w[2]) :
        w \in {v \in (0..Len(text)) \X {2, 3} :
                  v[1] + v[2] <= Len(text) /\ OneScript(text, v[1], v[2])}}

\* str::contains
Includes(text, term) ==
    \E k \in 0..(Len(text) - Len(term)) : \A i \in 1..Len(term) : text[k + i] = term[i]

-----------------------------------------------------------------------------
VARIABLES
    docs,       \* slots in insertion order: an entry, or Gone
    postings,   \* n-gram -> the doc ids whose text has it
    byMessage,  \* by_message: <<thread, id>> -> doc id
    pool        \* thread_id_pool

siVars == <<docs, postings, byMessage, pool>>

Texts == {normalize(m.content) : m \in Incoming}
Entry == [thread : Channels, id : {m.id : m \in Incoming}, text : Texts, ms : Int]
Filled == {d \in DOMAIN docs : docs[d] # Gone}
Key(e) == <<e.thread, e.id>>

SiTypeOK ==
    /\ docs \in Seq(Entry \cup {Gone})
    /\ Len(docs) <= MaxDocs
    /\ pool \subseteq Channels

\* The texts are strings, and a removed slot is none of the entries.
ASSUME IndexAssumption ==
    /\ MaxDocs \in Nat /\ Epoch \in Int
    /\ \A m \in Incoming : m.at \in Int \cup {Garbled}
    /\ \A t \in Texts \cup {normalize(q) : q \in Queries} : t \in Seq(Chars)
    /\ Gone \notin [thread : Channels, id : {m.id : m \in Incoming}, text : Texts, ms : Int]

SiInit == docs = <<>> /\ postings = <<>> /\ byMessage = <<>> /\ pool = {}

-----------------------------------------------------------------------------
(* inverted_index.rs                                                        *)

CreatedMs(at) == IF at = Garbled THEN Epoch ELSE at

\* The document joins the posting of each of its n-grams.
Posted(d, text) ==
    [g \in DOMAIN postings \cup ngrams(text) |->
        (IF g \in DOMAIN postings THEN postings[g] ELSE {}) \cup
        (IF g \in ngrams(text) THEN {d} ELSE {})]

\* One shared name per thread; a later insert of the thread finds it there.
Interned(t) == pool \cup {t}

\* insert: a pair that is known is ignored, whatever the message says now.
insert(t, m) ==
    LET e == [thread |-> t, id |-> m.id, text |-> normalize(m.content), ms |-> CreatedMs(m.at)]
        d == Len(docs) + 1
    IN /\ Len(docs) < MaxDocs
       /\ Key(e) \notin DOMAIN byMessage
       /\ postings' = Posted(d, e.text)
       /\ pool' = Interned(t)
       /\ docs' = Append(docs, e)
       /\ byMessage' = [k \in DOMAIN byMessage \cup {Key(e)} |-> IF k = Key(e) THEN d ELSE byMessage[k]]

\* Faulty variant: a remove_doc that tokenizes something shorter than what was indexed.
UnpostedShort(D) ==
    LET rest(g) == {d \in postings[g] : d \notin D \/ g \notin ngrams(Tail(docs[d].text))}
    IN [g \in {h \in DOMAIN postings : rest(h) # {}} |-> rest(g)]

\* What remove_doc leaves of the postings: the ids of D leave the postings of
\* their texts, and a posting that runs empty is dropped.
Unposted(D) ==
    LET rest(g) == {d \in postings[g] : d \notin D \/ g \notin ngrams(docs[d].text)}
    IN [g \in {h \in DOMAIN postings : rest(h) # {}} |-> rest(g)]

remove_thread(t) ==
    LET D == {byMessage[k] : k \in {j \in DOMAIN byMessage : j[1] = t}}
    IN /\ postings' = Unposted(D)
       /\ byMessage' = [k \in DOMAIN byMessage \ {Key(docs[d]) : d \in D} |-> byMessage[k]]
       /\ docs' = [d \in DOMAIN docs |-> IF d \in D THEN Gone ELSE docs[d]]
       /\ pool' = pool \ {t}

\* The merge of the postings of some n-grams: an unknown one empties it.
Intersection(grams) ==
    {d \in DOMAIN docs : \A g \in grams : g \in DOMAIN postings /\ d \in postings[g]}

\* candidates_for_term, and the corpus when the term has no n-gram.
Candidates(term) == IF ngrams(term) = {} THEN Filled ELSE Intersection(ngrams(term))

\* split_whitespace and the length filter: where a term begins and ends.
Terms(query) ==
    LET q == normalize(query)
    IN {s \in (1..Len(q)) \X (1..Len(q)) :
           /\ s[1] <= s[2]
           /\ \A i \in s[1]..s[2] : q[i] # Blank
           /\ s[1] = 1 \/ q[s[1] - 1] = Blank
           /\ s[2] = Len(q) \/ q[s[2] + 1] = Blank
           /\ FoldFunction(+, 0, [i \in s[1]..s[2] |-> Width[q[i]]]) >= MinTermBytes}
Term(query, s) == SubSeq(normalize(query), s[1], s[2])

TooCommon(query) ==
    \E s \in Terms(query) : ngrams(Term(query, s)) # {} /\ Cardinality(Candidates(Term(query, s))) > LargeLimit

\* The sort and the truncation: the answers a ranking of documents allows.
\* Documents of equal rank come in either order.
Above(a, b) ==
    \/ a[1] > b[1]
    \/ a[1] = b[1] /\ a[2] > b[2]
    \/ a[1] = b[1] /\ a[2] = b[2] /\ a[3] > b[3]
Best(rank, limit) ==
    LET hits == DOMAIN rank
        n == IF Cardinality(hits) < limit THEN Cardinality(hits) ELSE limit
    IN {a \in [1..n -> hits] :
           /\ \A i, j \in 1..n : i < j => a[i] # a[j] /\ ~Above(rank[a[j]], rank[a[i]])
           /\ \A d \in hits : (\A i \in 1..n : a[i] # d) => \A i \in 1..n : ~Above(rank[d], rank[a[i]])}

Visible(exclude) == {d \in Filled : docs[d].thread # exclude}

\* recency_fallback: newest first, in insertion order where the times agree.
Newest(exclude, limit) == Best([d \in Visible(exclude) |-> <<0, docs[d].ms, -d>>], limit)

\* The candidates of every term are verified; a document ranks by how many
\* terms it holds, then by its time.
Ranked(query, held) ==
    [d \in {c \in DOMAIN docs : \E s \in Terms(query) : c \in held[s]} |->
        <<Cardinality({s \in Terms(query) : d \in held[s]}), docs[d].ms, 0>>]
Verified(term, exclude) == {d \in Candidates(term) \cap Visible(exclude) : Includes(docs[d].text, term)}

search(query, limit, exclude) ==
    IF limit = 0 \/ Terms(query) = {} THEN {<<>>}
    ELSE IF TooCommon(query) THEN Newest(exclude, limit)
    ELSE Best(Ranked(query, [s \in Terms(query) |-> Verified(Term(query, s), exclude)]), limit)

SiNext ==
    \/ \E t \in Channels, m \in Incoming : insert(t, m)
    \/ \E t \in Channels : remove_thread(t)

SiSpec == SiInit /\ [][SiNext]_siVars

-----------------------------------------------------------------------------
(* What the index promises                                                  *)

\* The postings hold the live documents under exactly the n-grams of their
\* texts, and none is empty.
PostingsExact ==
    /\ DOMAIN postings = UNION {ngrams(docs[d].text) : d \in Filled}
    /\ \A g \in DOMAIN postings : postings[g] = {d \in Filled : g \in ngrams(docs[d].text)}

\* by_message finds every live document under its own pair and nothing else.
ByMessageExact ==
    /\ DOMAIN byMessage = {Key(docs[d]) : d \in Filled}
    /\ \A d \in Filled : byMessage[Key(docs[d])] = d

\* The linear scan the index replaced: every visible document is looked at.
Scanned(term, exclude) == {d \in Visible(exclude) : Includes(docs[d].text, term)}
scan(query, limit, exclude) ==
    IF limit = 0 \/ Terms(query) = {} THEN {<<>>}
    ELSE Best(Ranked(query, [s \in Terms(query) |-> Scanned(Term(query, s), exclude)]), limit)

\* Through any inserts and removals the index stays exact - a removed thread
\* leaves no id in a posting, no pair and no interned name behind - and a
\* search finds what the linear scan finds, unless a term is too common
\* (inverted_index.rs: "Scoring matches the previous linear scan").
SearchSound ==
    /\ SiTypeOK
    /\ PostingsExact
    /\ ByMessageExact
    /\ pool = {docs[d].thread : d \in Filled}
    /\ docs # <<>> =>
         \A q \in Queries, n \in Limits, x \in Channels \cup {Gone} :
           ~TooCommon(q) => search(q, n, x) = scan(q, n, x)
=============================================================================
