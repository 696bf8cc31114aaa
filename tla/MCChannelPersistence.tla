------------------------- MODULE MCChannelPersistence -------------------------
(***************************************************************************)
(* Small instances of the channel subscriber and of the search index; a    *)
(* behaviour works on one of them.  For the subscriber: two conversations  *)
(* whose legacy ids collide (a component with an underscore), one whose    *)
(* legacy and collision-safe ids are the same, and one whose legacy id     *)
(* imitates that.  For the index: two scripts, a capital, a ligature, a    *)
(* combining mark, a full-width space, and ids that messages share.        *)
(***************************************************************************)
EXTENDS ChannelPersistence, SearchIndex

CONSTANT MaxOverlapping  \* bound on the deliveries where several handlers run at once

MCConversations == {"a_b|c", "a|b_c", "plain", "pl|ain"}
MCLegacy == [c \in MCConversations |-> IF c \in {"plain", "pl|ain"} THEN "plain" ELSE "a_b_c"]
MCSafe == [c \in MCConversations |->
              CASE c = "plain" -> "plain"
                [] c = "pl|ain" -> "plain__3"
                [] c = "a_b|c" -> "a_b_c__1"
                [] OTHER -> "a_b_c__2"]
Turn(w, c, id) == [workspace |-> w, conversation |-> c, id |-> id, role |-> "user"]
MCTurns == {Turn("w1", "a_b|c", "id1"), Turn("w1", "a|b_c", "id2"), Turn("w2", "plain", "id1"),
            Turn("w2", "pl|ain", "id1")}

MCChars == {"a", "b", "c", "s", "B", "eszett", "mark", "ka", "kb", " ", "wide"}
MCFolded == [c \in MCChars |->
                CASE c = "B" -> <<"b">>
                  [] c = "eszett" -> <<"s", "s">>
                  [] c = "mark" -> <<>>
                  [] c = "wide" -> <<" ">>
                  [] OTHER -> <<c>>]
MCWidth == [c \in MCChars |-> IF c \in {"ka", "kb"} THEN 3 ELSE 1]
Message(id, content, at) == [id |-> id, content |-> content, at |-> at]
MCIncoming ==
    {Message("m1", <<"c", "a", "B", "eszett">>, 1), Message("m1", <<"ka", "kb", " ", "a">>, 2),
     Message("m2", <<"a", "b", "s", "s", "a", "b">>, 2), Message("m2", <<"a", "b">>, Garbled),
     Message("m3", <<"kb", "ka", "mark", "kb", "s">>, 1)}
MCQueries ==
    {<<"a", "b", "s">>, <<"ka", "wide", "c", "a", "b">>, <<"ka">>, <<"ka", "kb">>, <<"a", "b">>,
     <<"B", "eszett", " ", "a", "b", "s">>, <<"kb", "s">>, <<"ka", "b", "ka">>}

Symmetry == Permutations(Handlers) \cup Permutations(Registrars)

VARIABLE focus   \* what this behaviour works on

mcVars == <<cpVars, siVars, focus>>

McInit ==
    /\ CpInit /\ SiInit
    /\ focus \in {"sequential", "overlapping", "search"}
    /\ focus = "search" => legacyKept = {}

\* All deliveries one after the other, or fewer of them at once and in one workspace.
Paced ==
    \/ /\ focus = "sequential"
       /\ \E h \in Handlers : \A k \in Handlers \ {h} : run'[k] = Free
    \/ /\ focus = "overlapping"
       /\ deliveries' <= MaxOverlapping
       /\ \A h \in Handlers : run'[h].ws \in {"w1", Absent}

McNext ==
    /\ UNCHANGED focus
    /\ \/ focus # "search" /\ CpNext /\ Paced /\ UNCHANGED siVars
       \/ focus = "search" /\ SiNext /\ UNCHANGED cpVars

McSpec == McInit /\ [][McNext]_mcVars
=============================================================================
