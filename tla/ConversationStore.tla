-------------------------- MODULE ConversationStore --------------------------
(***************************************************************************)
(* The JSONL conversation store of tinymemory-conversations: the            *)
(* append-only thread log `threads.jsonl`, one message file per thread, the *)
(* in-memory cross-thread search index, and the locks that order them       *)
(* (store.rs, store_ops.rs, store_index.rs, store_locks.rs).                *)
(*                                                                          *)
(* Durable state is `index` (the fold of the terminated lines of the log),  *)
(* `file` (the parseable rows of each message file) and their tails: an     *)
(* append is "line, then newline", so a crash can leave a file whose last   *)
(* line is partial or complete but unterminated. Everything else is lost in *)
(* a crash.                                                                 *)
(*                                                                          *)
(* An operation that does all its work under the locks in one go is one     *)
(* action. The others run as a process of Procs, one action per stretch     *)
(* between two writes. The metadata mutex is always the innermost lock and  *)
(* released where it was taken, so it is held within an action, never       *)
(* across two; the lifecycle, index-build and thread locks are state.       *)
(***************************************************************************)
EXTENDS Integers, Sequences, FiniteSets, SequencesExt

CONSTANTS
    Procs,       \* concurrent callers of the store
    Threads,     \* thread ids
    Fresh,       \* message ids that are minted once (UUIDs)
    Minted,      \* deterministic ids ("agent:..."), presented any number of times
    None,        \* absent value
    Kinds,       \* the operations callers issue
    TearKinds,   \* what a crash can leave of the line being appended
    MaxCrashes,  \* bound on the crashes of a behaviour
    MaxFaults    \* bound on the I/O errors of a behaviour

Messages == Fresh \cup Minted

\* A line that does not parse
Partial == [op |-> "partial"]

\* What the folded log says of a thread: the number of its messages and the
\* newest of them, None where nothing was measured
ThreadEntry == [count : Nat \cup {None}, last : Messages \cup {None, "created"}]

ASSUME StoreAssumption ==
    /\ Fresh \cap Minted = {}
    /\ "log" \notin Threads
    /\ None \notin Procs \cup Threads \cup Messages /\ None \notin ThreadEntry
    /\ Partial \notin Messages \cup {None}
    /\ \A pending \in SUBSET (Threads \X Messages) : pending # None
    /\ TearKinds \subseteq {"partial", "unterminated"}
    /\ MaxCrashes \in Nat /\ MaxFaults \in Nat

VARIABLES
    index,     \* fold of threads.jsonl: [Threads -> entry or None]
    logTail,   \* None, Partial, or the complete entry of an unterminated line
    file,      \* [Threads -> rows of the message file]
    fileTail,  \* [Threads -> None, Partial, or an unterminated message row]
    cache,     \* CONVERSATION_INDEX_CACHE entry: None or [Threads -> messages]
    journal,   \* pending_index_appends: None or a set of <<thread, message>>
    readers,   \* holders of the lifecycle read lock
    writer,    \* holder of the lifecycle write lock
    builder,   \* holder of index_build
    owner,     \* [Threads -> holder of the thread lock]
    op,        \* [Procs -> the operation in progress]
    used,      \* fresh ids already presented
    truncated, \* threads ever truncated
    acked,     \* <<thread, message>> whose append returned Ok and that no
               \* truncation, deletion or purge has removed since
    removed,   \* <<thread, message>> removed by one of those and not appended since
    crashes, faults

disk  == <<index, logTail, file, fileTail>>
locks == <<readers, writer, builder, owner>>
aux   == <<used, truncated, acked, removed, crashes, faults>>
vars  == <<disk, cache, journal, locks, op, aux>>

-----------------------------------------------------------------------------
(* The thread log and its fold                                              *)

Upsert(t)           == [op |-> "upsert", thread |-> t]
Delete(t)           == [op |-> "delete", thread |-> t]
MessageAppended(t, m) == [op |-> "appended", thread |-> t, last |-> m]
Stats(t, n, l)      == [op |-> "stats", thread |-> t, count |-> n, last |-> l]

\* thread_index_unlocked: one entry applied to the folded state. The first
\* message timestamp of a thread without messages is its creation time.
Fold(ix, e) ==
    LET t == e.thread IN
    CASE e.op = "upsert" ->
            IF ix[t] = None
            THEN [ix EXCEPT ![t] = [count |-> None, last |-> None]]
            ELSE ix
      [] e.op = "delete" -> [ix EXCEPT ![t] = None]
      [] e.op = "appended" ->
            IF ix[t] = None THEN ix
            ELSE [ix EXCEPT ![t] =
                    [count |-> IF @.count = None THEN None ELSE @.count + 1,
                     last  |-> e.last]]
      [] e.op = "stats" ->
            IF ix[t] = None THEN ix
            ELSE [ix EXCEPT ![t] = [count |-> e.count, last |-> e.last]]

\* What a reader of threads.jsonl sees: the last line counts once complete.
Index == IF logTail \in {None, Partial} THEN index ELSE Fold(index, logTail)
Live == {t \in Threads : Index[t] # None}

\* What is left of a file's last line when an append is cut short: a second
\* piece on an already torn line never parses.
Torn(tail, piece) == IF tail = None THEN piece ELSE Partial

\* append_jsonl to the log. A torn last line swallows the new one: both end up
\* on one line that does not parse, and the newline closes it.
Logged(e) ==
    IF logTail = None
    THEN index' = Fold(index, e) /\ logTail' = None
    ELSE index' = index /\ logTail' = None

\* ... or the append fails: nothing of the line is written, or part of it.
LogTorn ==
    /\ \/ UNCHANGED logTail
       \/ "partial" \in TearKinds /\ logTail' = Partial
    /\ UNCHANGED <<index, file, fileTail>>

-----------------------------------------------------------------------------
(* Message files                                                            *)

\* read_jsonl of a message file
Rows(t) == IF fileTail[t] \in {None, Partial} THEN file[t]
           ELSE Append(file[t], fileTail[t])

RowSet(t) == ToSet(Rows(t))

\* append_jsonl of one row
RowAppended(t, m) ==
    /\ file' = IF fileTail[t] = None THEN [file EXCEPT ![t] = Append(@, m)] ELSE file
    /\ fileTail' = [fileTail EXCEPT ![t] = None]

\* rewrite_jsonl: temp file and rename, so the tail is clean again
Rewritten(t, rows) ==
    /\ file' = [file EXCEPT ![t] = rows]
    /\ fileTail' = [fileTail EXCEPT ![t] = None]

\* Faulty variant: off by one.
MeasuredShort(t) ==
    Stats(t, Len(Rows(t)) - 1, IF Rows(t) = <<>> THEN "created" ELSE Last(Rows(t)))

\* measure_messages_unlocked, as the Stats entry it yields
Measured(t) ==
    Stats(t, Len(Rows(t)), IF Rows(t) = <<>> THEN "created" ELSE Last(Rows(t)))

Unmeasured == {t \in Live : Index[t].count = None \/ Index[t].last = None}

-----------------------------------------------------------------------------
(* Operations in progress                                                   *)

Idle == [kind |-> "idle", step |-> "idle", thread |-> None, message |-> None,
         rows |-> <<>>, todo |-> {}, bad |-> {}, built |-> None]

Begun(kind, step, t, m) ==
    [Idle EXCEPT !.kind = kind, !.step = step, !.thread = t, !.message = m]

At(p, kind, step) == op[p].kind = kind /\ op[p].step = step

Goto(p, step) == op' = [op EXCEPT ![p].step = step]

\* Faulty variant: the thread lock is not released.
ThreadLockLeaked(p) ==
    /\ readers' = readers \ {p}
    /\ writer' = IF writer = p THEN None ELSE writer
    /\ builder' = IF builder = p THEN None ELSE builder
    /\ UNCHANGED owner

\* Every guard of p is dropped and p returns.
Released(p) ==
    /\ readers' = readers \ {p}
    /\ writer' = IF writer = p THEN None ELSE writer
    /\ builder' = IF builder = p THEN None ELSE builder
    /\ owner' = [t \in Threads |-> IF owner[t] = p THEN None ELSE owner[t]]
Returns(p) == op' = [op EXCEPT ![p] = Idle] /\ Released(p)

CanRead == writer = None
CanWrite == writer = None /\ readers = {}
EnterRead(p) == CanRead /\ readers' = readers \cup {p} /\ UNCHANGED <<writer, builder>>

Faulty == faults < MaxFaults /\ faults' = faults + 1

TypeOK ==
    /\ index \in [Threads -> {None} \cup ThreadEntry]
    /\ file \in [Threads -> Seq(Messages)]
    /\ fileTail \in [Threads -> Messages \cup {None, Partial}]
    /\ cache = None \/ cache \in [Threads -> SUBSET Messages]
    /\ journal = None \/ journal \subseteq Threads \X Messages
    /\ readers \subseteq Procs
    /\ {writer, builder} \subseteq Procs \cup {None}
    /\ owner \in [Threads -> Procs \cup {None}]
    /\ used \subseteq Fresh /\ truncated \subseteq Threads
    /\ acked \subseteq Threads \X Messages
    /\ removed \subseteq Threads \X Messages
    /\ crashes \in 0..MaxCrashes /\ faults \in 0..MaxFaults
    /\ DOMAIN op = Procs
    /\ \A p \in Procs : op[p].kind \in Kinds \cup {"idle"}

Init ==
    /\ index = [t \in Threads |-> None]
    /\ logTail = None
    /\ file = [t \in Threads |-> <<>>]
    /\ fileTail = [t \in Threads |-> None]
    /\ cache = None
    /\ journal = None
    /\ readers = {} /\ writer = None /\ builder = None
    /\ owner = [t \in Threads |-> None]
    /\ op = [p \in Procs |-> Idle]
    /\ used = {} /\ truncated = {} /\ acked = {} /\ removed = {}
    /\ crashes = 0 /\ faults = 0

-----------------------------------------------------------------------------
(* ensure_thread, update_thread_title, update_thread_labels: lifecycle read, *)
(* thread and metadata locks held throughout, one Upsert appended.           *)

EnsureThread(t) ==
    /\ "ensure" \in Kinds
    /\ CanRead /\ owner[t] = None
    /\ Logged(Upsert(t))
    /\ UNCHANGED <<file, fileTail, cache, journal, locks, op, aux>>

UpdateThread(t) ==
    /\ "retitle" \in Kinds
    /\ CanRead /\ owner[t] = None
    /\ t \in Live
    /\ Logged(Upsert(t))
    /\ UNCHANGED <<file, fileTail, cache, journal, locks, op, aux>>

\* The one line that ensure_thread, a change of title or labels, or delete_thread
\* appends before anything else is torn: the call fails. An append that writes
\* nothing leaves everything as it was.
LineFails(p) ==
    /\ op[p] = Idle
    /\ \/ {"ensure", "retitle"} \cap Kinds # {} /\ CanRead
       \/ "delete" \in Kinds /\ CanWrite /\ Live # {}
    /\ \E t \in Threads : owner[t] = None
    /\ "partial" \in TearKinds
    /\ Faulty
    /\ logTail' = Partial
    /\ UNCHANGED <<index, file, fileTail, cache, journal, locks, op, used, truncated, acked,
                   removed, crashes>>

-----------------------------------------------------------------------------
(* append_message                                                            *)

\* Faulty variant: no lookup of a row that already carries a minted id.
AppendWithoutLookup(p, t, m) ==
    /\ "append" \in Kinds
    /\ op[p] = Idle
    /\ m \in Fresh => m \notin used
    /\ EnterRead(p)
    /\ owner[t] = None
    /\ t \in Live
    /\ owner' = [owner EXCEPT ![t] = p]
    /\ op' = [op EXCEPT ![p] = Begun("append", "row", t, m)]
    /\ used' = IF m \in Fresh THEN used \cup {m} ELSE used
    /\ UNCHANGED <<disk, cache, journal, truncated, acked, removed, crashes, faults>>

\* Lifecycle read and thread locks, the existence check and, for a minted id,
\* the lookup of a row that already carries it.
AppendBegin(p, t, m) ==
    /\ "append" \in Kinds
    /\ op[p] = Idle
    /\ m \in Fresh => m \notin used
    /\ EnterRead(p)
    /\ owner[t] = None
    /\ t \in Live
    /\ ~(m \in Minted /\ m \in RowSet(t))
    /\ owner' = [owner EXCEPT ![t] = p]
    /\ op' = [op EXCEPT ![p] = Begun("append", "row", t, m)]
    /\ used' = IF m \in Fresh THEN used \cup {m} ELSE used
    /\ UNCHANGED <<disk, cache, journal, truncated, acked, removed, crashes, faults>>

\* The id is already there: the stored row is returned, nothing is written.
AppendExisting(t, m) ==
    /\ "append" \in Kinds
    /\ CanRead /\ owner[t] = None
    /\ t \in Live
    /\ m \in Minted /\ m \in RowSet(t)
    /\ acked' = acked \cup {<<t, m>>}
    /\ UNCHANGED <<disk, cache, journal, locks, op, used, truncated, removed, crashes, faults>>

\* append_jsonl of the authoritative row
AppendRow(p) ==
    /\ At(p, "append", "row")
    /\ RowAppended(op[p].thread, op[p].message)
    /\ removed' = removed \ {<<op[p].thread, op[p].message>>}
    /\ Goto(p, "stat")
    /\ UNCHANGED <<index, logTail, cache, journal, locks, used, truncated, acked, crashes, faults>>

\* ... or it fails, possibly part way through the line, and so does the call.
AppendRowFails(p) ==
    /\ At(p, "append", "row")
    /\ Faulty
    /\ \/ UNCHANGED fileTail
       \/ /\ "partial" \in TearKinds
          /\ fileTail' = [fileTail EXCEPT ![op[p].thread] = Partial]
    /\ Returns(p)
    /\ UNCHANGED <<index, logTail, file, cache, journal, used, truncated, acked, removed, crashes>>

\* Faulty variant: only a warm cache is maintained, an append that lands
\* during a cold scan is not journaled.
IndexedIfWarm(p) ==
    LET t == op[p].thread
        m == op[p].message IN
    /\ UNCHANGED journal
    /\ cache' = IF cache = None THEN None ELSE [cache EXCEPT ![t] = @ \cup {m}]

\* Under metadata: journal, warm cache, then the MessageAppended stat entry.
AppendIndexed(p) ==
    LET t == op[p].thread
        m == op[p].message IN
    /\ journal' = IF journal = None THEN None ELSE journal \cup {<<t, m>>}
    /\ cache' = IF cache = None THEN None ELSE [cache EXCEPT ![t] = @ \cup {m}]

AppendStat(p) ==
    LET t == op[p].thread
        m == op[p].message IN
    /\ At(p, "append", "stat")
    /\ AppendIndexed(p)
    /\ Logged(MessageAppended(t, m))
    /\ acked' = acked \cup {<<t, m>>}
    /\ Returns(p)
    /\ UNCHANGED <<file, fileTail, used, truncated, removed, crashes, faults>>

\* The stat entry may fail on its own: the row stays, the call returns Err.
AppendStatFails(p) ==
    /\ At(p, "append", "stat")
    /\ Faulty
    /\ AppendIndexed(p)
    /\ Returns(p)
    /\ LogTorn
    /\ UNCHANGED <<used, truncated, acked, removed, crashes>>

-----------------------------------------------------------------------------
(* update_message: read the transcript, patch one row, rewrite the file.     *)
(* Only metadata of the row changes, so the rows keep their identities.      *)

\* Faulty variant: the read-modify-write does not take the thread lock.
UpdateReadUnlocked(p, t) ==
    /\ "patch" \in Kinds
    /\ op[p] = Idle
    /\ EnterRead(p)
    /\ Rows(t) # <<>>
    /\ op' = [op EXCEPT ![p] = [Begun("patch", "rewrite", t, None) EXCEPT !.rows = Rows(t)]]
    /\ UNCHANGED <<disk, cache, journal, owner, aux>>

UpdateRead(p, t) ==
    /\ "patch" \in Kinds
    /\ op[p] = Idle
    /\ EnterRead(p)
    /\ owner[t] = None
    /\ Rows(t) # <<>>
    /\ owner' = [owner EXCEPT ![t] = p]
    /\ op' = [op EXCEPT ![p] = [Begun("patch", "rewrite", t, None) EXCEPT !.rows = Rows(t)]]
    /\ UNCHANGED <<disk, cache, journal, aux>>

UpdateRewrite(p) ==
    /\ At(p, "patch", "rewrite")
    /\ Rewritten(op[p].thread, op[p].rows)
    /\ Returns(p)
    /\ UNCHANGED <<index, logTail, cache, journal, aux>>

-----------------------------------------------------------------------------
(* delete_messages_from: drop the message and everything after it.           *)

TruncateRead(p, t, m) ==
    /\ "truncate" \in Kinds
    /\ op[p] = Idle
    /\ EnterRead(p)
    /\ owner[t] = None
    /\ m \in RowSet(t)
    /\ owner' = [owner EXCEPT ![t] = p]
    /\ op' = [op EXCEPT ![p] = [Begun("truncate", "rewrite", t, m) EXCEPT !.rows = Rows(t)]]
    /\ UNCHANGED <<disk, cache, journal, aux>>

\* messages[..cut_at], cut at the first row with the id
Kept(rows, m) ==
    LET cut == CHOOSE i \in 1..Len(rows) :
                  rows[i] = m /\ \A j \in 1..(i-1) : rows[j] # m
    IN  SubSeq(rows, 1, cut - 1)

TruncateRewrite(p) ==
    LET t == op[p].thread
        kept == Kept(op[p].rows, op[p].message) IN
    /\ At(p, "truncate", "rewrite")
    /\ Rewritten(t, kept)
    /\ acked' = {a \in acked : a[1] = t => a[2] \in ToSet(kept)}
    /\ removed' = removed \cup {<<t, m>> : m \in ToSet(op[p].rows) \ ToSet(kept)}
    /\ truncated' = truncated \cup {t}
    /\ Goto(p, "stats")
    /\ UNCHANGED <<index, logTail, cache, journal, locks, used, crashes, faults>>

\* Faulty variant: the counts of a truncated thread are not rewritten.
TruncateWithoutStats(p) ==
    /\ At(p, "truncate", "stats")
    /\ Goto(p, "evict")
    /\ UNCHANGED <<disk, cache, journal, locks, aux>>

\* The authoritative Stats snapshot; the thread lock is still held, so the
\* file is the one just written.
TruncateStats(p) ==
    /\ At(p, "truncate", "stats")
    /\ Logged(Measured(op[p].thread))
    /\ Goto(p, "evict")
    /\ UNCHANGED <<file, fileTail, cache, journal, locks, aux>>

\* The snapshot cannot be appended: Err, before the cache is touched.
TruncateStatsFails(p) ==
    /\ At(p, "truncate", "stats")
    /\ Faulty
    /\ Returns(p)
    /\ LogTorn
    /\ UNCHANGED <<cache, journal, used, truncated, acked, removed, crashes>>

\* The whole thread leaves the warm cache, if there is one.
TruncateEvict(p) ==
    /\ At(p, "truncate", "evict")
    /\ cache' = IF cache = None THEN None ELSE [cache EXCEPT ![op[p].thread] = {}]
    /\ Returns(p)
    /\ UNCHANGED <<disk, journal, aux>>

\* rewrite_jsonl of either fails: the temporary file goes, the transcript stays.
RewriteFails(p) ==
    /\ At(p, "patch", "rewrite") \/ At(p, "truncate", "rewrite")
    /\ Faulty
    /\ Returns(p)
    /\ UNCHANGED <<disk, cache, journal, used, truncated, acked, removed, crashes>>

-----------------------------------------------------------------------------
(* delete_thread, under the lifecycle write lock                             *)

DeleteBegin(p, t) ==
    /\ "delete" \in Kinds
    /\ op[p] = Idle
    /\ CanWrite
    /\ owner[t] = None
    /\ t \in Live
    /\ writer' = p
    /\ owner' = [owner EXCEPT ![t] = p]
    /\ Logged(Delete(t))
    /\ acked' = {a \in acked : a[1] # t}
    /\ removed' = removed \cup {<<t, m>> : m \in RowSet(t)}
    /\ op' = [op EXCEPT ![p] = Begun("delete", "remove", t, None)]
    /\ UNCHANGED <<file, fileTail, cache, journal, readers, builder, used, truncated, crashes, faults>>

\* Faulty variant: the tombstone alone is taken for the deletion.
DeleteKeepsFile(p) ==
    /\ At(p, "delete", "remove")
    /\ Goto(p, "evict")
    /\ UNCHANGED <<disk, cache, journal, locks, aux>>

DeleteRemove(p) ==
    /\ At(p, "delete", "remove")
    /\ Rewritten(op[p].thread, <<>>)
    /\ Goto(p, "evict")
    /\ UNCHANGED <<index, logTail, cache, journal, locks, aux>>

\* remove_file fails: the error is returned, but only after the eviction.
DeleteRemoveFails(p) ==
    /\ At(p, "delete", "remove")
    /\ Faulty
    /\ Goto(p, "evict")
    /\ UNCHANGED <<disk, cache, journal, locks, used, truncated, acked, removed, crashes>>

DeleteEvict(p) ==
    /\ At(p, "delete", "evict")
    /\ cache' = IF cache = None THEN None ELSE [cache EXCEPT ![op[p].thread] = {}]
    /\ Returns(p)
    /\ UNCHANGED <<disk, journal, aux>>

-----------------------------------------------------------------------------
(* purge_threads, under the lifecycle write lock                             *)

\* purge_stats_unlocked measures what was never measured, then the directory
\* starts to go; remove_dir_all takes its files in no particular order.
PurgeBegin(p) ==
    /\ "purge" \in Kinds
    /\ op[p] = Idle
    /\ CanWrite
    /\ writer' = p
    /\ IF Unmeasured = {}
       THEN UNCHANGED <<index, logTail>>
       ELSE \E lost \in SUBSET Unmeasured :
              /\ Cardinality(lost) = IF logTail = None THEN 0 ELSE 1
              /\ index' = [t \in Threads |->
                              IF t \in Unmeasured \ lost
                              THEN Fold(index, Measured(t))[t] ELSE index[t]]
              /\ logTail' = None
    /\ acked' = {}
    /\ removed' = removed \cup {a \in Threads \X Messages : a[2] \in RowSet(a[1])}
    /\ op' = [op EXCEPT ![p] = [Begun("purge", "remove", None, None)
                                EXCEPT !.todo = Threads \cup {"log"}]]
    /\ UNCHANGED <<file, fileTail, cache, journal, readers, builder, owner, used, truncated,
                   crashes, faults>>

PurgeRemove(p, x) ==
    /\ At(p, "purge", "remove")
    /\ x \in op[p].todo
    /\ IF x = "log"
       THEN /\ index' = [t \in Threads |-> None]
            /\ logTail' = None
            /\ UNCHANGED <<file, fileTail>>
       ELSE Rewritten(x, <<>>) /\ UNCHANGED <<index, logTail>>
    /\ op' = [op EXCEPT ![p].todo = @ \ {x}]
    /\ UNCHANGED <<cache, journal, locks, aux>>

\* remove_dir_all gives up part way: Err, and the cached index stays.
PurgeRemoveFails(p) ==
    /\ At(p, "purge", "remove")
    /\ op[p].todo # {}
    /\ Faulty
    /\ Returns(p)
    /\ UNCHANGED <<disk, cache, journal, used, truncated, acked, removed, crashes>>

PurgeFinish(p) ==
    /\ At(p, "purge", "remove")
    /\ op[p].todo = {}
    /\ cache' = None
    /\ Returns(p)
    /\ UNCHANGED <<disk, journal, aux>>

-----------------------------------------------------------------------------
(* list_threads                                                              *)

ListBegin(p) ==
    /\ "list" \in Kinds
    /\ op[p] = Idle
    /\ EnterRead(p)
    /\ op' = [op EXCEPT ![p] = Begun("list", "snapshot", None, None)]
    /\ UNCHANGED <<disk, cache, journal, owner, aux>>

\* One pass of the loop: fold the log and pick the threads never measured.
ListSnapshot(p) ==
    LET missing == Unmeasured \ op[p].bad IN
    /\ At(p, "list", "snapshot")
    /\ missing # {}
    /\ op' = [op EXCEPT ![p].todo = missing, ![p].step = "repair"]
    /\ UNCHANGED <<disk, cache, journal, locks, aux>>

\* thread then metadata lock: measure the file and append a Stats entry,
\* unless the thread is gone or was measured meanwhile.
ListRepair(p, t) ==
    /\ At(p, "list", "repair")
    /\ t \in op[p].todo
    /\ owner[t] = None
    /\ IF t \in Unmeasured THEN Logged(Measured(t)) ELSE UNCHANGED <<index, logTail>>
    /\ op' = [op EXCEPT ![p].todo = @ \ {t}]
    /\ UNCHANGED <<file, fileTail, cache, journal, locks, aux>>

\* An unreadable transcript is quarantined for the rest of this call.
ListUnreadable(p, t) ==
    /\ At(p, "list", "repair")
    /\ t \in op[p].todo
    /\ owner[t] = None
    /\ t \in Unmeasured
    /\ Faulty
    /\ op' = [op EXCEPT ![p].todo = @ \ {t}, ![p].bad = @ \cup {t}]
    /\ UNCHANGED <<disk, cache, journal, locks, used, truncated, acked, removed, crashes>>

\* The Stats entry cannot be appended: the call fails.
ListFails(p) ==
    /\ At(p, "list", "repair")
    /\ op[p].todo \cap Unmeasured # {}
    /\ Faulty
    /\ Returns(p)
    /\ LogTorn
    /\ UNCHANGED <<cache, journal, used, truncated, acked, removed, crashes>>

ListAgain(p) ==
    /\ At(p, "list", "repair")
    /\ op[p].todo = {}
    /\ Goto(p, "snapshot")
    /\ UNCHANGED <<disk, cache, journal, locks, aux>>

\* Nothing left to measure: the folded index is returned.
ListReturn(p) ==
    /\ At(p, "list", "snapshot")
    /\ Unmeasured \subseteq op[p].bad
    /\ Returns(p)
    /\ UNCHANGED <<disk, cache, journal, aux>>

-----------------------------------------------------------------------------
(* search_cross_thread_messages with prime_index_if_cold                     *)

SearchBegin(p) ==
    /\ "search" \in Kinds
    /\ op[p] = Idle
    /\ EnterRead(p)
    /\ op' = [op EXCEPT ![p] =
                Begun("search", IF cache = None THEN "build" ELSE "query", None, None)]
    /\ UNCHANGED <<disk, cache, journal, owner, aux>>

\* index_build is taken; the cache is checked again under it.
BuildLock(p) ==
    /\ At(p, "search", "build")
    /\ builder = None
    /\ IF cache # None
       THEN Goto(p, "query") /\ UNCHANGED <<builder, journal>>
       ELSE /\ builder' = p
            /\ journal' = {}
            /\ Goto(p, "snapshot")
    /\ UNCHANGED <<disk, cache, readers, writer, owner, aux>>

\* The live thread ids, under metadata.
BuildSnapshot(p) ==
    /\ At(p, "search", "snapshot")
    /\ op' = [op EXCEPT ![p].todo = Live, ![p].step = "scan",
                        ![p].built = [t \in Threads |-> {}]]
    /\ UNCHANGED <<disk, cache, journal, locks, aux>>

\* Faulty variant: the error returns without cancelling the build.
BuildNotCancelled(p) ==
    /\ At(p, "search", "snapshot")
    /\ Faulty
    /\ Returns(p)
    /\ UNCHANGED <<disk, cache, journal, used, truncated, acked, removed, crashes>>

\* The log cannot be read: the build is cancelled.
BuildSnapshotFails(p) ==
    /\ At(p, "search", "snapshot")
    /\ Faulty
    /\ journal' = None
    /\ Returns(p)
    /\ UNCHANGED <<disk, cache, used, truncated, acked, removed, crashes>>

\* One transcript, read under its thread lock.
BuildScan(p, t) ==
    /\ At(p, "search", "scan")
    /\ t \in op[p].todo
    /\ owner[t] = None
    /\ op' = [op EXCEPT ![p].todo = @ \ {t}, ![p].built[t] = RowSet(t)]
    /\ UNCHANGED <<disk, cache, journal, locks, aux>>

\* A transcript that cannot be read is skipped.
BuildScanFails(p, t) ==
    /\ At(p, "search", "scan")
    /\ t \in op[p].todo
    /\ owner[t] = None
    /\ Faulty
    /\ op' = [op EXCEPT ![p].todo = @ \ {t}]
    /\ UNCHANGED <<disk, cache, journal, locks, used, truncated, acked, removed, crashes>>

\* Faulty variant: the journal is read but not taken.
PublishKeepsJournal(p) ==
    /\ At(p, "search", "scan")
    /\ op[p].todo = {}
    /\ cache' = [t \in Threads |->
                    op[p].built[t] \cup {m \in Messages : <<t, m>> \in journal}]
    /\ builder' = None
    /\ op' = [op EXCEPT ![p].step = "query", ![p].built = None]
    /\ UNCHANGED <<disk, journal, readers, writer, owner, aux>>

\* Under metadata: the journal is drained into the index and it is published.
BuildPublish(p) ==
    /\ At(p, "search", "scan")
    /\ op[p].todo = {}
    /\ cache' = [t \in Threads |->
                    op[p].built[t] \cup {m \in Messages : <<t, m>> \in journal}]
    /\ journal' = None
    /\ builder' = None
    /\ op' = [op EXCEPT ![p].step = "query", ![p].built = None]
    /\ UNCHANGED <<disk, readers, writer, owner, aux>>

\* with_primed_index: the query runs against the cache.
SearchReturn(p) ==
    /\ At(p, "search", "query")
    /\ Returns(p)
    /\ UNCHANGED <<disk, cache, journal, aux>>

-----------------------------------------------------------------------------
(* The process dies. A line that was being appended may be torn: the message *)
(* row of a process about to finish AppendRow, or a log line.                *)

TornRows ==
    {[p |-> p, tail |-> Partial] : p \in {q \in Procs : At(q, "append", "row")}}
      \cup {[p |-> p, tail |-> op[p].message] : p \in {q \in Procs : At(q, "append", "row")}}

TearKindOf(tail) == IF tail = Partial THEN "partial" ELSE "unterminated"

CrashTearsRow ==
    \E torn \in TornRows :
        /\ TearKindOf(torn.tail) \in TearKinds
        /\ fileTail' = [fileTail EXCEPT ![op[torn.p].thread] = Torn(@, torn.tail)]
        /\ UNCHANGED <<index, logTail, file>>

CrashTearsLog ==
    /\ UNCHANGED <<index, file, fileTail>>
    /\ \/ /\ "partial" \in TearKinds
          /\ logTail' = Partial
       \/ /\ "unterminated" \in TearKinds
          /\ \E p \in Procs :
                /\ At(p, "append", "stat")
                /\ logTail' = Torn(logTail, MessageAppended(op[p].thread, op[p].message))

Crash ==
    /\ crashes < MaxCrashes
    /\ crashes' = crashes + 1
    /\ UNCHANGED disk \/ CrashTearsRow \/ CrashTearsLog
    /\ cache' = None /\ journal' = None
    /\ readers' = {} /\ writer' = None /\ builder' = None
    /\ owner' = [t \in Threads |-> None]
    /\ op' = [p \in Procs |-> Idle]
    /\ UNCHANGED <<used, truncated, acked, removed, faults>>

-----------------------------------------------------------------------------

Mutations ==
    \E t \in Threads :
        \/ EnsureThread(t) \/ UpdateThread(t)
        \/ \E m \in Minted : AppendExisting(t, m)

Begin(p) ==
    \/ \E t \in Threads, m \in Messages : AppendBegin(p, t, m) \/ TruncateRead(p, t, m)
    \/ \E t \in Threads : UpdateRead(p, t) \/ DeleteBegin(p, t)
    \/ PurgeBegin(p) \/ ListBegin(p) \/ SearchBegin(p)

\* Steps a started operation takes without waiting for a lock
Step(p) ==
    \/ AppendRow(p) \/ AppendStat(p)
    \/ UpdateRewrite(p)
    \/ TruncateRewrite(p) \/ TruncateStats(p) \/ TruncateEvict(p)
    \/ DeleteRemove(p) \/ DeleteEvict(p)
    \/ \E x \in Threads \cup {"log"} : PurgeRemove(p, x)
    \/ PurgeFinish(p)
    \/ ListSnapshot(p) \/ ListAgain(p) \/ ListReturn(p)
    \/ BuildSnapshot(p) \/ BuildPublish(p) \/ SearchReturn(p)

\* Steps that wait for a lock another process may hold
Wait(p) ==
    \/ BuildLock(p)
    \/ \E t \in Threads : ListRepair(p, t) \/ BuildScan(p, t)

Fault(p) ==
    \/ LineFails(p) \/ AppendRowFails(p) \/ AppendStatFails(p)
    \/ RewriteFails(p) \/ TruncateStatsFails(p) \/ DeleteRemoveFails(p) \/ PurgeRemoveFails(p)
    \/ ListFails(p) \/ BuildSnapshotFails(p)
    \/ \E t \in Threads : ListUnreadable(p, t) \/ BuildScanFails(p, t)

Next ==
    \/ Mutations
    \/ \E p \in Procs : Begin(p) \/ Step(p) \/ Wait(p) \/ Fault(p)
    \/ Crash

Spec == Init /\ [][Next]_vars

(***************************************************************************)
(* Fairness: a thread inside an operation keeps running (weak fairness of   *)
(* its steps), and parking_lot's mutexes are eventually fair, so a waiter   *)
(* on a lock that keeps being released gets it (strong fairness of the      *)
(* waiting steps). Nothing obliges a caller to begin an operation.          *)
(***************************************************************************)
Fairness ==
    \A p \in Procs :
        /\ WF_vars(Step(p))
        /\ SF_vars(Wait(p))

FairSpec == Spec /\ Fairness

-----------------------------------------------------------------------------
(* Properties                                                               *)

\* Once an index is published and while no operation holds the thread's lock,
\* a thread's postings are exactly its rows on disk, and a thread that is not
\* live has none: whatever interleaving of appends with the cold scan, no
\* append is missed (journal and warm cache cover both sides of publication)
\* and no deleted message comes back into a hit. A truncation empties the
\* thread in a warm index although rows survive (store_ops.rs:343), so truncated
\* threads are left out.
IndexExact ==
    cache # None /\ writer = None =>
        \A t \in Threads \ truncated : owner[t] = None =>
            cache[t] = IF t \in Live THEN RowSet(t) ELSE {}

\* "A thread must never carry two messages under one id": for ids the core
\* mints deterministically, however often and by however many writers one is
\* presented, with crashes between the row and its stat entry.
NoDuplicateIds == \A t \in Threads : IsInjective(Rows(t))

\* A message whose append returned Ok stays in its thread's file until it is
\* truncated, deleted or purged: no concurrent rewrite loses it, no crash does.
AckedDurable == \A a \in acked : a[2] \in RowSet(a[1])

\* A message that was truncated away, deleted with its thread or purged does
\* not come back, even when a thread with the same id is created again.
RemovedStaysRemoved ==
    writer = None =>
        \A a \in removed : a[1] \in Live => a[2] \notin RowSet(a[1])

\* What list_threads reports for a thread nobody is writing to and whose file
\* was readable is what its file holds: number of messages and newest one.
ListTruthful ==
    [][\A p \in Procs :
         (At(p, "list", "snapshot") /\ op'[p] = Idle /\ crashes' = crashes) =>
            \A t \in Live \ op[p].bad : owner[t] = None =>
                Index[t] = [count |-> Measured(t).count, last |-> Measured(t).last]]_vars

\* Every operation that has begun returns: the lock order lifecycle, index
\* build, thread, metadata admits no cycle, and list_threads' loop ends.
OperationsReturn == \A p \in Procs : (op[p] # Idle) ~> (op[p] = Idle)

\* An acknowledged message stays and a removed one stays removed.
HistoryKept == TypeOK /\ AckedDurable /\ RemovedStaysRemoved

\* What the store promises its callers as long as nothing fails: the search index
\* shows what the files hold, and the files what was appended and not removed.
ThreadStoreSound == IndexExact /\ HistoryKept

\* `None` in pending_index_appends means no scan is active
\* (store_locks.rs:25): a journal never outlives its build.
JournalOnlyWhileBuilding == journal # None <=> builder # None

\* Crashes and failures between any two steps duplicate nothing and leave no
\* journal that would collect appends for ever.
CrashesLeaveNothing == NoDuplicateIds /\ JournalOnlyWhileBuilding

\* The callers are interchangeable (a symmetry for runs without liveness).
Callers == Permutations(Procs)
=============================================================================
