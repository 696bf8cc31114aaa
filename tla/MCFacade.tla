------------------------------ MODULE MCFacade ------------------------------
(***************************************************************************)
(* What a host holds of the library: the client of its workspace, the      *)
(* driver it binds, the views that address a driver's namespaces by        *)
(* section, and the reads of the tree the driver offers, checked in one    *)
(* run.  They share no state, so a behaviour works on one of them.         *)
(***************************************************************************)
EXTENDS GlobalClient, DriverBinding, Sections, TreeReads

VARIABLE focus   \* what this behaviour works on

facadeVars == <<vars, bdVars, secVars, trVars, focus>>

SpaceNames == <<<<"conversation", ":", "#">>, <<"conversation", ":", "A">>, <<"conversation", ":", "B">>,
                <<"conversation", ":", "note", "B">>, <<"note", ":", "A">>>>
EntryKeys == <<"k", "l">>

(* Two sources whose names differ where one of them has a wildcard. *)
McTreeScope == <<<<"a", "_">>, <<"a", "b">>>>
McAllowed == {<<"a", "_">>, <<"a", "b">>}
LeafOf(source, attributed, at) == [source |-> source, attributed |-> attributed, at |-> at]
McLeaf ==
  <<LeafOf(<<"mem_src", "a", "_", ":", "1">>, TRUE, 1),
    LeafOf(<<"mem_src", "a", "b", ":", "1">>, TRUE, 2),
    LeafOf(<<"mem_src", "a", "b", ":", "2">>, TRUE, 3),
    LeafOf(<<"mail", ":", "x", ":", "1">>, FALSE, 4)>>

(* Readers, two accounts of one connector, and two malformed entries. *)
SourceOf(id, connector, toolkit, connection) ==
  [id |-> id, connector |-> connector, toolkit |-> toolkit, connection |-> connection]
McRegistered ==
  <<SourceOf(<<"a", "_">>, FALSE, <<>>, <<>>), SourceOf(<<"a", "b">>, FALSE, <<>>, <<>>),
    SourceOf(<<"x">>, TRUE, <<"mail">>, <<"x">>), SourceOf(<<"y">>, TRUE, <<"mail">>, <<"y">>),
    SourceOf(<<"m">>, TRUE, <<"mail">>, <<>>), SourceOf(<<"n">>, TRUE, <<>>, <<>>)>>

(* Node 5 is a summary; one mention is of no tree. *)
Mention(entity, kind, node, tree, like) ==
  [entity |-> entity, kind |-> kind, node |-> node, node_kind |-> IF node > 4 THEN "summary" ELSE "leaf",
   tree |-> tree, at |-> node, like |-> like]
McMentions ==
  {Mention("ann", "person", 2, 2, {"n"}), Mention("ann", "person", 5, 2, {"n"}),
   Mention("rome", "place", 2, 2, {}), Mention("rome", "place", 5, 2, {}),
   Mention("bob", "person", 2, 2, {}), Mention("ann", "person", 4, 0, {"n"})}

McTouchLists == {<<<<1, "ann">>>>, <<<<2, "ann">>, <<2, "bob">>>>}

BdRest == choice = [driver |-> "", entry |-> NoEntry, reserved |-> builtin, endpoint |-> "none",
                    deployment |-> "none", credential |-> "none"] /\ BdInit
SecRest == sectionRows = {} /\ SecInit

FacadeInit ==
  /\ Init /\ TrInit
  /\ \/ focus \in {"client", "tree", "touch"} /\ BdRest /\ SecRest
     \/ focus = "binding"  /\ BdInit /\ SecRest
     \/ focus = "sections" /\ BdRest /\ SecInit

(* A read of the tree is followed until it is answered: what is written later
   is no part of it, and is reached by a behaviour without the read. *)
FacadeNext ==
  \/ focus = "client"   /\ Next    /\ UNCHANGED <<bdVars, secVars, trVars, focus>>
  \/ focus = "binding"  /\ BdNext  /\ UNCHANGED <<vars, secVars, trVars, focus>>
  \/ focus = "sections" /\ SecNext /\ UNCHANGED <<vars, bdVars, trVars, focus>>
  \/ focus = "tree"  /\ reply = NoRead /\ TrRead  /\ UNCHANGED <<vars, bdVars, secVars, focus>>
  \/ focus = "touch" /\ reply = NoRead /\ TrTouch /\ UNCHANGED <<vars, bdVars, secVars, focus>>

FacadeSpec == FacadeInit /\ [][FacadeNext]_facadeVars

(* The driver that is bound is the one that was chosen and described, a        *)
(* section's view sees that section only, and what is read of the tree is in   *)
(* scope, complete and as it was while the read ran.                           *)
FacadeSound ==
  /\ focus = "binding" => BindingSound
  /\ focus = "sections" => SectionsSound
  /\ focus \in {"tree", "touch"} => ReadsTrue
=============================================================================
