----------------------------- MODULE KeyedStore -----------------------------
(***************************************************************************)
(* What a keyed memory promises its callers: a request to store or forget  *)
(* takes effect at one instant, on the key it names, and at most once,     *)
(* however often the driver sends it; nothing else ever changes what is    *)
(* held.                                                                   *)
(***************************************************************************)
VARIABLES
    mem,      \* what is held under each key
    issued,   \* the requests made so far
    pending   \* the requests that may still take effect: records id, key, val

Issue ==
    \E r \in pending' :
        /\ r.id \notin issued
        /\ issued' = issued \cup {r.id}
        /\ pending' = pending \cup {r}
        /\ UNCHANGED mem

(* A read, or a request that repeats one which took effect. *)
IssueNothing ==
    \E id \in issued' \ issued :
        /\ issued' = issued \cup {id}
        /\ UNCHANGED <<mem, pending>>

(* Requests that repeat this one are spent with it. *)
Apply ==
    \E r \in pending :
        /\ mem' = [mem EXCEPT ![r.key] = r.val]
        /\ pending' \subseteq pending \ {r}
        /\ UNCHANGED issued

(* It is lost, or another one made it unnecessary. *)
Withdraw ==
    /\ pending' \subseteq pending
    /\ UNCHANGED <<mem, issued>>

Next == Issue \/ IssueNothing \/ Apply \/ Withdraw

Init == issued = {} /\ pending = {}

Spec == Init /\ [][Next]_<<mem, issued, pending>>
=============================================================================
