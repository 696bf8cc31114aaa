-------------------------- MODULE MemoryMigration --------------------------
(***************************************************************************)
(* What a migration promises, whatever drivers are at its two ends: it     *)
(* moves pairs of an address and a value from the source to the target.    *)
(* It leaves the source alone, deletes nothing from the target, and writes *)
(* to the target only what the source held under that address when the     *)
(* page was read.                                                          *)
(***************************************************************************)
VARIABLES
    src,       \* set of <<address, value>> pairs the source holds
    inflight,  \* set of pairs read and not yet written
    dst        \* set of pairs the target holds, one per address

(* The clients of the source work on it as they like. *)
SourceChanges == UNCHANGED <<inflight, dst>>

ReadPage ==
    /\ inflight' \subseteq inflight \cup src
    /\ UNCHANGED <<src, dst>>

WriteOne ==
    \E p \in inflight :
        /\ dst' = {q \in dst : q[1] # p[1]} \cup {p}
        /\ inflight' \in {inflight, inflight \ {p}}
        /\ UNCHANGED src

(* A record the target refuses, or the rest of a page after an error. *)
GiveUp ==
    /\ inflight' \subseteq inflight
    /\ UNCHANGED <<src, dst>>

Init == inflight = {} /\ dst = {}

Next == SourceChanges \/ ReadPage \/ WriteOne \/ GiveUp

Spec == Init /\ [][Next]_<<src, inflight, dst>>
=============================================================================
