----------------------------- MODULE DurableMap -----------------------------
(***************************************************************************)
(* What a store on a disk promises: batches are added one at a time and    *)
(* stay, whatever the store does in between, when it is closed, killed or  *)
(* opened; a power failure may take those that nobody waited for, and may  *)
(* bring the one that was being written.                                   *)
(***************************************************************************)
CONSTANTS Batches

VARIABLES
    stored,   \* the batches that are seen, or would be if the store were opened
    safe      \* those written with sync

vars == <<stored, safe>>

Init == stored = {} /\ safe = {}

Add == \E n \in Batches \ stored :
          /\ stored' = stored \cup {n}
          /\ safe' \in {safe, safe \cup {n}}

\* The batch was stored before it is known to be safe.
Promise == \E n \in stored : safe' = safe \cup {n} /\ UNCHANGED stored

PowerFailure == /\ safe \subseteq stored'
                /\ \/ stored' \subseteq stored
                   \/ \E n \in Batches : stored' \subseteq stored \cup {n}
                /\ UNCHANGED safe

\* What the store does by itself; when power fails is not its choice.
Write == Add \/ Promise
Next == Write \/ PowerFailure
Spec == Init /\ [][Next]_vars
=============================================================================
