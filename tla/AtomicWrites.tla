---------------------------- MODULE AtomicWrites ----------------------------
(***************************************************************************)
(* What DB::Write promises its callers: a batch is seen whole or not at    *)
(* all, it is applied between the call and the return, and the call        *)
(* succeeds exactly when it was.                                           *)
(***************************************************************************)
CONSTANTS Batches

VARIABLES
    applied,   \* the batches a reader sees
    outcome    \* per batch: "none" before the call, "called", "ok", "error"

vars == <<applied, outcome>>

Init == applied = {} /\ outcome = [b \in Batches |-> "none"]

Call(b) ==
    /\ outcome[b] = "none"
    /\ outcome' = [outcome EXCEPT ![b] = "called"]
    /\ UNCHANGED applied

\* Batches that wait are applied together, or refused together.
Decide(S, result) ==
    /\ \A b \in S : outcome[b] = "called"
    /\ outcome' = [b \in Batches |-> IF b \in S THEN result ELSE outcome[b]]
    /\ applied' = IF result = "ok" THEN applied \cup S ELSE applied

Next ==
    \/ \E b \in Batches : Call(b)
    \/ \E S \in SUBSET Batches, result \in {"ok", "error"} : Decide(S, result)

Spec == Init /\ [][Next]_vars
=============================================================================
