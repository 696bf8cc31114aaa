---------------------------- MODULE SegmentStore ----------------------------
(***************************************************************************)
(* The episodic log and the conversation segments of the namespace store   *)
(* (store/namespace_store/fts5.rs and segments.rs), as the provider's       *)
(* MemoryEpisodic family exposes them.                                      *)
(*                                                                          *)
(* Every function of the two files is one SQL statement under the          *)
(* connection mutex, hence one step.  What is hard is the order in which   *)
(* their callers take those steps: an archivist per session logs a turn,   *)
(* looks the open segment up, decides with detect_boundary and then        *)
(* appends, or closes and creates, each in a call of its own; a summariser *)
(* lists the closed segments, works on one and writes the summary back     *)
(* later.  An archivist may die between any two of its calls.              *)
(***************************************************************************)
EXTENDS Naturals, Sequences, FiniteSets

CONSTANTS
  Sessions,   \* session ids of the callers
  SecretSession, \* a session id that looks like a secret
  None,       \* absence of a value
  MaxTurns,   \* BoundaryConfig.max_turns_per_segment (20)
  MaxGap,     \* BoundaryConfig.max_time_gap_secs (600)
  MaxLog,     \* bound: turns ever logged
  MaxClock    \* bound: value of the logical clock

ASSUME SegmentAssumption ==
  /\ MaxTurns \in Nat \ {0} /\ MaxGap \in Nat
  /\ MaxLog \in Nat /\ MaxClock \in Nat
  /\ None \notin Nat

VARIABLES
  episodic,   \* episodic_log: the turns in the order of their AUTOINCREMENT ids
  segments,   \* conversation_segments, in the order of created_at
  clock,      \* the time the callers stamp their rows with
  archivist,  \* per session: where its archivist is and what it read
  summariser  \* where the summariser is and what it read

segVars == <<episodic, segments, clock, archivist, summariser>>

EpisodicEntry == [session : Sessions \ {SecretSession}, timestamp : Nat]

ConversationSegment ==
  [session : Sessions, start : Nat, end : Nat \cup {None},
   start_timestamp : Nat, end_timestamp : Nat \cup {None},
   turn_count : Nat, status : {"open", "closed", "summarised"},
   summary : Nat \cup {None}]

Idle == [pc |-> "idle"]

(***************************************************************************)
(* The operations of segments.rs and fts5.rs.                              *)
(***************************************************************************)

\* Faulty variant: no screening of the session id.
EpisodicInsertUnscreened(session, ts) ==
  episodic' = Append(episodic, [session |-> session, timestamp |-> ts])

\* episodic_insert: a session or role that looks like a secret is refused;
\* otherwise the text, which no property here tells apart, is sanitised and the
\* row is appended.
EpisodicInsert(session, ts) ==
  /\ session # SecretSession
  /\ episodic' = Append(episodic, [session |-> session, timestamp |-> ts])

\* segment_create: a row that holds one turn and is open.
SegmentCreate(session, id, ts) ==
  segments' = Append(segments,
    [session |-> session, start |-> id, end |-> None,
     start_timestamp |-> ts, end_timestamp |-> None,
     turn_count |-> 1, status |-> "open", summary |-> None])

\* segment_append_turn: by id, whatever the status of the row is.
SegmentAppendTurn(seg, id, ts) ==
  segments' = [segments EXCEPT ![seg].turn_count = @ + 1,
                               ![seg].end = id,
                               ![seg].end_timestamp = ts]

\* Faulty variant: the status condition of the UPDATE never matches.
SegmentCloseMissed(seg) == UNCHANGED segments

\* segment_close: only a row that is still open.
SegmentClose(seg) ==
  segments' = IF segments[seg].status = "open"
              THEN [segments EXCEPT ![seg].status = "closed"]
              ELSE segments

\* segment_set_summary: by id, whatever the status of the row is.  The summary
\* is represented by the number of turns it was made from.
SegmentSetSummary(seg, turns) ==
  segments' = [segments EXCEPT ![seg].summary = turns, ![seg].status = "summarised"]

\* open_segment_for_session: the newest open row of the session.
OpenSegmentForSession(session) ==
  LET open == {i \in DOMAIN segments :
                 segments[i].session = session /\ segments[i].status = "open"}
  IN  IF open = {} THEN None
      ELSE CHOOSE i \in open : \A j \in open : j <= i

\* Faulty variant: the condition on the status is gone.
PendingAnyStatus ==
  LET ids == {i \in DOMAIN segments : segments[i].status # "summarised"}
  IN  IF ids = {} THEN None ELSE CHOOSE i \in ids : \A j \in ids : i <= j

\* segments_pending_summary(1): the oldest closed row.
SegmentsPendingSummary ==
  LET closed == {i \in DOMAIN segments : segments[i].status = "closed"}
  IN  IF closed = {} THEN None
      ELSE CHOOSE i \in closed : \A j \in closed : i <= j

\* Faulty variant: one turn too many before the count closes a segment.
DetectBoundaryLate(seg, turn) ==
  IF seg.turn_count > MaxTurns THEN "turn_count_exceeded"
  ELSE IF turn.marker = "none" THEN "continue" ELSE "explicit_marker"

\* detect_boundary: turn count, then time gap, then an explicit marker, then
\* drift of the embedding; the last two are what the turn itself says.
DetectBoundary(seg, turn) ==
  LET last == IF seg.end_timestamp = None THEN seg.start_timestamp
                                          ELSE seg.end_timestamp
  IN  IF seg.turn_count >= MaxTurns THEN "turn_count_exceeded"
      ELSE IF turn.timestamp > last + MaxGap THEN "time_gap"
      ELSE IF turn.marker = "explicit" THEN "explicit_marker"
      ELSE IF turn.marker = "drift" THEN "embedding_drift"
      ELSE "continue"

(***************************************************************************)
(* The callers.                                                            *)
(***************************************************************************)

Tick ==
  /\ clock < MaxClock
  /\ clock' = clock + 1
  /\ UNCHANGED <<episodic, segments, archivist, summariser>>

\* insert_turn of the provider: the archivist logs the turn it was handed.
InsertTurn(s) ==
  /\ archivist[s] = Idle
  /\ Len(episodic) < MaxLog
  /\ EpisodicInsert(s, clock)
  /\ \E marker \in {"none", "explicit", "drift"} :
       archivist' = [archivist EXCEPT ![s] =
            [pc |-> "look", id |-> Len(episodic) + 1, timestamp |-> clock,
             marker |-> marker]]
  /\ UNCHANGED <<segments, clock, summariser>>

\* open_segment and detect_boundary: what to do next is decided on the row read.
DecideBoundary(s) ==
  /\ archivist[s].pc = "look"
  /\ LET seg == OpenSegmentForSession(s)
         next == IF seg = None THEN "create"
                 ELSE IF DetectBoundary(segments[seg], archivist[s]) = "continue"
                      THEN "append" ELSE "close"
     IN  archivist' = [archivist EXCEPT ![s] =
           [pc |-> next, id |-> @.id, timestamp |-> @.timestamp, seg |-> seg]]
  /\ UNCHANGED <<episodic, segments, clock, summariser>>

AppendTurn(s) ==
  /\ archivist[s].pc = "append"
  /\ SegmentAppendTurn(archivist[s].seg, archivist[s].id, archivist[s].timestamp)
  /\ archivist' = [archivist EXCEPT ![s] = Idle]
  /\ UNCHANGED <<episodic, clock, summariser>>

CloseSegment(s) ==
  /\ archivist[s].pc = "close"
  /\ SegmentClose(archivist[s].seg)
  /\ archivist' = [archivist EXCEPT ![s].pc = "create"]
  /\ UNCHANGED <<episodic, clock, summariser>>

CreateSegment(s) ==
  /\ archivist[s].pc = "create"
  /\ SegmentCreate(s, archivist[s].id, archivist[s].timestamp)
  /\ archivist' = [archivist EXCEPT ![s] = Idle]
  /\ UNCHANGED <<episodic, clock, summariser>>

\* The process of an archivist ends between two of its calls.
ArchivistDies(s) ==
  /\ archivist[s] # Idle
  /\ archivist' = [archivist EXCEPT ![s] = Idle]
  /\ UNCHANGED <<episodic, segments, clock, summariser>>

PickPending ==
  /\ summariser = Idle
  /\ SegmentsPendingSummary # None
  /\ LET seg == SegmentsPendingSummary
     IN  summariser' = [pc |-> "write", seg |-> seg,
                        turns |-> segments[seg].turn_count]
  /\ UNCHANGED <<episodic, segments, clock, archivist>>

SetSegmentSummary ==
  /\ summariser.pc = "write"
  /\ SegmentSetSummary(summariser.seg, summariser.turns)
  /\ summariser' = Idle
  /\ UNCHANGED <<episodic, clock, archivist>>

SegInit ==
  /\ episodic = <<>> /\ segments = <<>> /\ clock = 0
  /\ archivist = [s \in Sessions |-> Idle]
  /\ summariser = Idle

SegStep ==
  \/ \E s \in Sessions :
       \/ InsertTurn(s) \/ DecideBoundary(s) \/ AppendTurn(s)
       \/ CloseSegment(s) \/ CreateSegment(s) \/ ArchivistDies(s)
  \/ PickPending \/ SetSegmentSummary

SegNext == SegStep \/ Tick

SegSpec == SegInit /\ [][SegNext]_segVars

(***************************************************************************)
(* Properties.                                                             *)
(***************************************************************************)

\* Every table holds rows of its schema (EPISODIC_INIT_SQL, SEGMENTS_INIT_SQL).
SegTypeOK ==
  /\ episodic \in Seq(EpisodicEntry)
  /\ segments \in Seq(ConversationSegment)
  /\ clock \in 0 .. MaxClock
  /\ DOMAIN archivist = Sessions

\* A session has at most one open segment although segment_create does not look
\* for another one and the archivist may die between closing the old segment and
\* creating the new one: an orphaned open segment would never be summarised,
\* because segments_pending_summary lists closed rows only.
OneOpenPerSession ==
  \A i, j \in DOMAIN segments :
    /\ segments[i].session = segments[j].session
    /\ segments[i].status = "open" /\ segments[j].status = "open"
    => i = j

\* A summary was made from every turn its segment has: segment_append_turn and
\* segment_set_summary check no status, so only the split of the work (the
\* archivist writes to open rows, the summariser reads closed ones) keeps a turn
\* from being added behind the summariser's back.
SummaryCoversSegment ==
  \A i \in DOMAIN segments :
    segments[i].status = "summarised" => segments[i].summary = segments[i].turn_count

\* Segments of one session neither overlap nor run backwards, and no segment
\* outgrows max_turns_per_segment, although the count is read in one call and
\* incremented in another.
SegmentsPartitionLog ==
  /\ \A i \in DOMAIN segments :
       LET seg == segments[i]
       IN  /\ seg.turn_count <= MaxTurns
           /\ seg.end # None => seg.start < seg.end
  /\ \A i, j \in DOMAIN segments :
       (i < j /\ segments[i].session = segments[j].session)
         => /\ segments[i].start < segments[j].start
            /\ segments[i].end # None => segments[i].end < segments[j].start

\* The segments of a session cut its log into consecutive pieces, at most one of
\* them open, and a summary is of the piece it is filed under.
SegmentsSound ==
  SegTypeOK /\ OneOpenPerSession /\ SegmentsPartitionLog /\ SummaryCoversSegment
=============================================================================
