------------------------------ MODULE MCDrivers -----------------------------
(***************************************************************************)
(* The remote drivers and the copy between drivers, checked in one run.    *)
(* They share no state, so a behaviour works on one of them.               *)
(***************************************************************************)
EXTENDS Portability, CortexLog, RemoteKeyed, TLC

VARIABLE focus   \* what this behaviour works on

vars == <<ptVars, cxVars, rkVars, focus>>

CxRest == /\ wire = "direct" /\ log = {} /\ wal = 0 /\ records = {} /\ claims = {} /\ net = EmptyBag
          /\ call = [c \in Clients |-> Idle] /\ calls = 0 /\ acked = [k \in CxKeys |-> 0]

PtRest == /\ from = "trait" /\ to = "trait" /\ rows = {} /\ clock = 0 /\ writes = 0 /\ target = {}
          /\ copy = Fresh /\ listed = <<>> /\ copies = 0 /\ touched = {} /\ stood = {}

RkRest == RkInit /\ service = "mem0" /\ held = {}

Init ==
  \/ focus = "copy"   /\ PtInit /\ CxRest /\ RkRest
  \/ focus = "cortex" /\ PtRest /\ CxInit /\ RkRest
  \/ focus = "remote" /\ PtRest /\ CxRest /\ RkInit

Next ==
  \/ focus = "copy"   /\ PtNext /\ UNCHANGED <<cxVars, rkVars, focus>>
  \/ focus = "cortex" /\ CxNext /\ UNCHANGED <<ptVars, rkVars, focus>>
  \/ focus = "remote" /\ RkNext /\ UNCHANGED <<ptVars, cxVars, focus>>

Spec == Init /\ [][Next]_vars

Symmetry == Permutations(Clients) \cup Permutations(Callers) \cup Permutations(RemoteKeys)
=============================================================================
