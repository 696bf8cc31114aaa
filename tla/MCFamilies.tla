----------------------------- MODULE MCFamilies -----------------------------
(***************************************************************************)
(* The families of the provider contract: the episodic, event and profile  *)
(* tables of the namespace store, recall over documents and turns, the     *)
(* module service that routes requests to a family, its process, and the   *)
(* conformance suite that asks a driver for the families it offers,        *)
(* checked in one run.  They share no state, so a behaviour works on one   *)
(* of them: no interleaving is lost and the instances do not multiply.     *)
(***************************************************************************)
EXTENDS SegmentStore, EventLog, ProfileFacets, SessionRecall, ConformanceSuite, ServiceRoutes,
        ModuleService, TLC

VARIABLE focus   \* what this behaviour works on

vars == <<segVars, evVars, pfVars, rcVars, cfVars, rtVars, msVars, focus>>

(* The order of row ids: namespace first, then key. *)
SuiteSpaces == <<"aa", "awkward", "conversation:thread", "filters", "forget", "iso-a", "iso-b",
                 "portability", "probe", "recall-a", "recall-b", "recall-scope", "round-trip",
                 "taint", "thread", "upsert", "zz">>
SuiteKeys == <<"core-a", "daily-b", "empty", "external", "f", "internal", "k", "k1", "large",
               "newlines", "other", "p1", "probe", "r1", "r2", "r3", "same-key", "scoped", "unicode">>

Names == {Shared, <<"-">>, <<"_", "2", "d">>, <<"/">>, <<"2", "d", "2", "d">>}

(* What is typed, indexed and asked for in the recalls. *)
TypedTerms == {[text |-> "cat", token |-> {"cat"}], [text |-> "cat?", token |-> {"cat"}],
               [text |-> "runs", token |-> {"runs"}], [text |-> "?", token |-> {}]}
Typed(text) == CHOOSE t \in TypedTerms : t.text = text
PorterStem == [w \in {"cat", "run", "runs"} |-> IF w = "runs" THEN "run" ELSE w]
Spelled == {<<"cat", "cat">>, <<"runs", "runs">>}
RankedRows ==
  <<[kind |-> "document", category |-> "conversation", session |-> "c1", score |-> 2],
    [kind |-> "document", category |-> "core", session |-> "c2", score |-> 1],
    [kind |-> "kv", category |-> "core", session |-> "none", score |-> 2]>>
LoggedTurns ==
  {[session |-> "c1", content |-> {"cat"}, other |-> {}],
   [session |-> "c2", content |-> {"cat"}, other |-> {}],
   [session |-> "c2", content |-> {"run", "cat"}, other |-> {}],
   [session |-> "c2", content |-> {"runs"}, other |-> {"cat"}]}
Recalls ==
  {[query |-> q, limit |-> b[1], min_score |-> b[2], session |-> s, cross |-> x,
    exclude |-> e[1], ambient |-> e[2], category |-> e[3]] :
     q \in {<<Typed("cat")>>, <<Typed("runs"), Typed("cat?")>>, <<Typed("?")>>},
     b \in {<<1, 0>>, <<2, 1>>}, s \in {"c1", "none"}, x \in BOOLEAN,
     e \in {<<"none", "c1", "any">>, <<"c2", "c1", "core">>}}

CfRest == CfInit /\ kind = "null"
RtRest == /\ served = "null" /\ ask = [scope |-> "none", taint |-> "internal"] /\ stage = "rest"
          /\ route = [bus |-> "get", family |-> "core", method |-> "get", fits |-> FALSE]
          /\ done = {} /\ driverAnswer = Unasked /\ result = Ok /\ reply = Ok

Init ==
  /\ SegInit /\ EvInit /\ PfInit /\ RcInit /\ MsInit
  /\ \/ focus \in {"segments", "events", "profile", "recall", "process"} /\ CfRest /\ RtRest
     \/ focus = "suite" /\ CfInit /\ RtRest
     \/ focus = "routes" /\ CfRest /\ RtInit

Next ==
  \/ focus = "segments" /\ SegNext /\ UNCHANGED <<evVars, pfVars, rcVars, cfVars, rtVars, msVars, focus>>
  \/ focus = "events"   /\ EvNext  /\ UNCHANGED <<segVars, pfVars, rcVars, cfVars, rtVars, msVars, focus>>
  \/ focus = "profile"  /\ PfNext  /\ UNCHANGED <<segVars, evVars, rcVars, cfVars, rtVars, msVars, focus>>
  \/ focus = "recall"   /\ RcNext  /\ UNCHANGED <<segVars, evVars, pfVars, cfVars, rtVars, msVars, focus>>
  \/ focus = "suite"    /\ CfNext  /\ UNCHANGED <<segVars, evVars, pfVars, rcVars, rtVars, msVars, focus>>
  \/ focus = "routes"   /\ RtNext  /\ UNCHANGED <<segVars, evVars, pfVars, rcVars, cfVars, msVars, focus>>
  \/ focus = "process"  /\ MsNext  /\ UNCHANGED <<segVars, evVars, pfVars, rcVars, cfVars, rtVars, focus>>

Spec == Init /\ [][Next]_vars

(* Nothing a driver offers over the bus is answered otherwise than the contract
   says: the suite accepts the drivers that keep it and leaves nothing behind,
   and a request reaches the family it names, or is refused and does nothing. *)
ContractSound == (focus = "suite" => SuiteSound) /\ (focus = "routes" => RoutesSound)

Symmetry == Permutations(FacetIds) \cup Permutations(FacetTypes) \cup Permutations(FacetValues)
=============================================================================
