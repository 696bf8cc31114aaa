---------------------------- MODULE Portability ----------------------------
(***************************************************************************)
(* Copying one driver's records into another (tinymemory/src/migrate)      *)
(* while clients of the source keep writing.  A source pages either as the *)
(* drivers over a Memory backend do (api/src/mandatory: a cursor of        *)
(* namespace index and offset into a listing, newest first), or as the     *)
(* reference drivers do (one offset into all rows in key order), or hands  *)
(* out cursors of its own devising, which the copy must survive.           *)
(***************************************************************************)
EXTENDS Integers, Sequences, FiniteSets, SequencesExt

CONSTANTS
    Spaces,      \* how many namespaces, 1 .. Spaces in the order of their names
    Keys,        \* how many keys
    PageLimit,   \* records a page asks for (PAGE_LIMIT)
    MaxPages,    \* the hard stop on pages (MAX_PAGES)
    MaxWrites,   \* bound: stores and forgets at the source
    MaxCopies    \* bound: copies started

ASSUME PortabilityAssumption ==
    {Spaces, Keys, PageLimit, MaxPages, MaxWrites, MaxCopies} \subseteq Nat \ {0}

VARIABLES
    from,     \* what pages the source: "trait", "offset" or "rogue"
    to,       \* what imports at the target: "trait" or "reference"
    rows,     \* the source's rows
    clock,    \* the last stamp given to a row; it also stands for the content
    writes,   \* stores and forgets since the start
    target,   \* the target's rows
    copy,     \* the running copy: step, cursor, seen, page and report
    listed,   \* namespaces an export read before it lists one of them
    copies,   \* copies started
    touched,  \* rows written since the copy began, and <<0, 0>> once one was forgotten
    stood     \* the rows when the copy began

ptVars == <<from, to, rows, clock, writes, target, copy, listed, copies, touched, stood>>

(* A blank or absent namespace is 0; namespace 1 plays GLOBAL_NAMESPACE. *)
Global == 1
Taints == {"internal", "external"}
Row == [ns : 1 .. Spaces, key : 1 .. Keys, taint : Taints, at : 0 .. Spaces * Keys + MaxWrites]

(* A page record: to_record keeps a row's taint and payload under a kind.   *)
to_record(r) == [kind |-> "entry", ns |-> r.ns, key |-> r.key, taint |-> r.taint, at |-> r.at]

(* What a driver this project does not ship may export beside its rows: a   *)
(* kind of its own, and an entry without a namespace.                       *)
Foreign ==
    { [kind |-> "blob", ns |-> 2, key |-> 1, taint |-> "external", at |-> 0],
      [kind |-> "entry", ns |-> 0, key |-> 1, taint |-> "external", at |-> 0] }

Start == <<>>      \* no cursor
End == <<0, 0, 0>>    \* no next cursor

Fresh == [step |-> "idle", cursor |-> Start, seen |-> {}, page |-> <<>>, next |-> End,
          pages |-> 0, records |-> 0, imported |-> 0, skipped |-> 0, failed |-> 0]

----------------------------------------------------------------------------
(* The source's own clients. *)

At(s, ns, key) == {r \in s : r.ns = ns /\ r.key = key}

PutAppends(s, new) == s \cup new

(* Upsert on (namespace, key) of the rows of a set of at most one. *)
Put(s, new) == {q \in s : \A e \in new : <<q.ns, q.key>> # <<e.ns, e.key>>} \cup new

Store(ns, key, taint) ==
    /\ writes < MaxWrites
    /\ writes' = writes + 1
    /\ clock' = clock + 1
    /\ rows' = Put(rows, {[ns |-> ns, key |-> key, taint |-> taint, at |-> clock + 1]})
    /\ touched' = touched \cup {<<ns, key>>}
    /\ UNCHANGED <<from, to, target, copy, listed, copies, stood>>

Forget(ns, key) ==
    /\ writes < MaxWrites
    /\ At(rows, ns, key) # {}
    /\ writes' = writes + 1
    /\ rows' = rows \ At(rows, ns, key)
    /\ touched' = touched \cup {<<ns, key>>, <<0, 0>>}
    /\ UNCHANGED <<from, to, clock, target, copy, listed, copies, stood>>

----------------------------------------------------------------------------
(* Paging. *)

(* ORDER BY updated_at DESC *)
list_blocking(ns) == SetToSortSeq({r \in rows : r.ns = ns}, LAMBDA a, b : a.at > b.at)

(* GROUP BY namespace ORDER BY ns *)
namespace_summaries == SetToSortSeq({r.ns : r \in rows}, <)

(* The reference drivers walk a BTreeMap in the order of namespace and key. *)
InKeyOrder ==
    SetToSortSeq(rows, LAMBDA a, b : a.ns < b.ns \/ (a.ns = b.ns /\ a.key < b.key))

Least(S) == CHOOSE x \in S : \A y \in S : x <= y

parse_cursor(c) == IF c = Start THEN <<0, 0>> ELSE c

Emit(c, records, next) ==
    [c EXCEPT !.step = "import", !.page = records, !.next = next,
              !.pages = @ + 1, !.records = @ + Len(records)]

Failed(c) == [c EXCEPT !.step = "failed", !.page = <<>>, !.next = End]

BeginCopy ==
    /\ copy.step \in {"idle", "done", "failed"}
    /\ copies < MaxCopies
    /\ copies' = copies + 1
    /\ copy' = [Fresh EXCEPT !.step = "page"]
    /\ touched' = {}
    /\ stood' = rows
    /\ UNCHANGED <<from, to, rows, clock, writes, target, listed>>

(* The page cap comes before the request. *)
PageCap ==
    /\ copy.step = "page"
    /\ copy.pages >= MaxPages
    /\ copy' = Failed(copy)
    /\ UNCHANGED <<from, to, rows, clock, writes, target, listed, copies, touched, stood>>

MayFetch == copy.step = "page" /\ copy.pages < MaxPages

(* export_page over a Memory backend reads the namespaces, and then, in     *)
(* another blocking task, the rows of one of them.                          *)
ExportSummaries ==
    /\ MayFetch
    /\ from = "trait"
    /\ listed' = namespace_summaries
    /\ LET index == parse_cursor(copy.cursor)[1]
           sums == namespace_summaries
       IN copy' = IF index < Len(sums) THEN [copy EXCEPT !.step = "list"]
                  ELSE IF copy.cursor # Start /\ sums # <<>> THEN Failed(copy)
                  ELSE Emit(copy, <<>>, End)
    /\ UNCHANGED <<from, to, rows, clock, writes, target, copies, touched, stood>>

NextCursorPastLast(index, end, len, namespaces) ==
    IF end + 1 < len THEN <<index, end>>
    ELSE IF index + 1 < namespaces THEN <<index + 1, 0>>
    ELSE End

NextCursor(index, end, len, namespaces) ==
    IF end < len THEN <<index, end>>
    ELSE IF index + 1 < namespaces THEN <<index + 1, 0>>
    ELSE End

ExportList ==
    /\ copy.step = "list"
    /\ LET at == parse_cursor(copy.cursor)
           entries == list_blocking(listed[at[1] + 1])
           end == Least({at[2] + PageLimit, Len(entries)})
           records == [i \in 1 .. (end - at[2]) |-> to_record(entries[at[2] + i])]
       IN copy' = IF at[2] > Len(entries) THEN Failed(copy)
                  ELSE Emit(copy, records, NextCursor(at[1], end, Len(entries), Len(listed)))
    /\ listed' = <<>>
    /\ UNCHANGED <<from, to, rows, clock, writes, target, copies, touched, stood>>

export_entries_page ==
    /\ MayFetch
    /\ from = "offset"
    /\ LET offset == parse_cursor(copy.cursor)[2]
           all == InKeyOrder
           records == [i \in 1 .. Least({PageLimit, Len(all) - offset}) |-> to_record(all[offset + i])]
           consumed == offset + Len(records)
       IN copy' = Emit(copy, records, IF consumed < Len(all) THEN <<0, consumed>> ELSE End)
    /\ UNCHANGED <<from, to, rows, clock, writes, target, listed, copies, touched, stood>>

(* A source that answers with whatever cursor it likes. *)
RogueExport ==
    /\ MayFetch
    /\ from = "rogue"
    /\ \E r \in {to_record(x) : x \in rows} \cup Foreign, next \in {<<0, c>> : c \in 1 .. MaxPages} \cup {End} :
           copy' = Emit(copy, <<r>>, next)
    /\ UNCHANGED <<from, to, rows, clock, writes, target, listed, copies, touched, stood>>

----------------------------------------------------------------------------
(* Importing. *)

DecodedInternal(r, ns) == [ns |-> ns, key |-> r.key, taint |-> "internal", at |-> r.at]

Decoded(r, ns) == [ns |-> ns, key |-> r.key, taint |-> r.taint, at |-> r.at]

(* Over a Memory backend: the kind must be known, a missing namespace is    *)
(* the global one.                                                          *)
read_record(r) ==
    IF r.kind # "entry" THEN {} ELSE {Decoded(r, IF r.ns = 0 THEN Global ELSE r.ns)}

(* In the reference drivers: any kind, but there must be a namespace. *)
decode_export_record(r) == IF r.ns = 0 THEN {} ELSE {Decoded(r, r.ns)}

Importable(r) == IF to = "trait" THEN read_record(r) ELSE decode_export_record(r)

(* One record of import_records: refused ones are counted, the others are   *)
(* stored with the taint they carry.                                        *)
ImportOne ==
    /\ copy.step = "import"
    /\ copy.page # <<>>
    /\ LET read == Importable(Head(copy.page))
       IN /\ target' = Put(target, read)
          /\ copy' = [copy EXCEPT !.page = Tail(@),
                                  !.imported = @ + Cardinality(read),
                                  !.failed = @ + 1 - Cardinality(read)]
    /\ UNCHANGED <<from, to, rows, clock, writes, listed, copies, touched, stood>>

(* The target's write fails: the page and the copy are given up. *)
ImportAborts ==
    /\ copy.step = "import"
    /\ copy.page # <<>>
    /\ Importable(Head(copy.page)) # {}
    /\ copy' = Failed(copy)
    /\ UNCHANGED <<from, to, rows, clock, writes, target, listed, copies, touched, stood>>

RepeatsLast(next) == next = copy.cursor

Repeats(next) == next = copy.cursor \/ next \in copy.seen

(* The page is in: follow its cursor unless the source issued it before. *)
Advance ==
    /\ copy.step = "import"
    /\ copy.page = <<>>
    /\ copy' = IF copy.next = End THEN [copy EXCEPT !.step = "done"]
               ELSE IF Repeats(copy.next) THEN Failed(copy)
               ELSE [copy EXCEPT !.step = "page", !.cursor = copy.next,
                                 !.seen = @ \cup {copy.next}, !.next = End]
    /\ UNCHANGED <<from, to, rows, clock, writes, target, listed, copies, touched, stood>>

CopyStep ==
    \/ BeginCopy \/ PageCap \/ ExportSummaries \/ ExportList \/ export_entries_page
    \/ RogueExport \/ ImportOne \/ ImportAborts \/ Advance

PtInit ==
    /\ from \in {"trait", "offset", "rogue"}
    /\ to \in {"trait", "reference"}
    /\ to = "reference" => from = "rogue"   \* they read what these drivers export alike
    /\ \E n \in 0 .. Spaces * Keys : \E order \in [1 .. n -> (1 .. Spaces) \X (1 .. Keys)] :
           /\ IsInjective(order)
           /\ from = "rogue" => n < 2
           /\ rows = {[ns |-> order[i][1], key |-> order[i][2], taint |-> "external", at |-> i]
                         : i \in 1 .. n}
           /\ clock = n
    /\ writes = 0 /\ target = {}
    /\ copy = Fresh /\ listed = <<>> /\ copies = 0
    /\ touched = {} /\ stood = {}

PtNext ==
    \/ /\ from # "rogue"   \* whose pages need not follow its rows
       /\ copy.step \in {"page", "list", "import"}   \* earlier writes are in the initial rows
       /\ \E ns \in 1 .. Spaces, key \in 1 .. Keys :
              (\E t \in Taints : Store(ns, key, t)) \/ Forget(ns, key)
    \/ CopyStep

PtSpec == PtInit /\ [][PtNext]_ptVars

----------------------------------------------------------------------------
(* Rows and reports stay in their domains, and the target holds one row per *)
(* address however often a record is imported.                              *)
PtTypeOK ==
    /\ rows \subseteq Row /\ target \subseteq Row
    /\ \A r, q \in target : <<r.ns, r.key>> = <<q.ns, q.key>> => r = q
    /\ copy.step \in {"idle", "page", "list", "import", "done", "failed"}
    /\ copy.pages \in 0 .. MaxPages

(* A copy that reports success has moved every row that stood unchanged     *)
(* while it ran, whatever was stored meanwhile: new rows and rewritten ones *)
(* push the listing down, so a cursor meets rows twice but skips none.      *)
(* (A forget pulls it up and may hide a row: see the README.)               *)
OnlyForgetHides ==
    copy.step = "done" /\ from # "rogue" /\ <<0, 0>> \notin touched =>
        \A r \in stood : <<r.ns, r.key>> \in touched \/ r \in target

(* No page is asked for under a cursor that was used before: a source whose *)
(* cursors run in a circle ends the copy instead of feeding it for ever.    *)
NoPageTwice == copy.step = "page" => copy.pages = Cardinality(copy.seen)

----------------------------------------------------------------------------
Pair(r) == <<<<r.ns, r.key>>, <<r.taint, r.at>>>>

Pairs(records) ==
    {Pair([r EXCEPT !.ns = IF @ = 0 THEN Global ELSE @]) : r \in records}

Migration ==
    INSTANCE MemoryMigration
    WITH src <- Pairs({to_record(r) : r \in rows} \cup Foreign),
         inflight <- Pairs(ToSet(copy.page)),
         dst <- {Pair(r) : r \in target}

(* The copy implements the abstract migration: it never writes to its       *)
(* source, never deletes from the target, and every write to the target is  *)
(* a pair of address, content and taint that the source exported.           *)
MovesOnlyWhatWasRead == Migration!Spec

\* A copy loses nothing but what was forgotten under it, and reads no page twice.
CopyComplete == PtTypeOK /\ OnlyForgetHides /\ NoPageTwice
=============================================================================
