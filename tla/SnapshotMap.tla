---------------------------- MODULE SnapshotMap ----------------------------
(***************************************************************************)
(* What an ordered store with snapshots promises: a map that only writes   *)
(* change, one key each, of which copies can be taken that nothing changes *)
(* until they are given back.  This is all a user of LevelDB sees of       *)
(* memtables, files, levels and merges.                                    *)
(***************************************************************************)
EXTENDS Naturals

CONSTANTS
    Keys,
    Values,   \* what the n-th write brings, if it brings a value
    Absent,   \* stands for no value
    Times     \* names of copies

VARIABLES
    writes,   \* how many there have been
    now,      \* the map
    held      \* the copies taken, each with its name

vars == <<writes, now, held>>

Init == writes = 0 /\ now = [k \in Keys |-> Absent] /\ held = {}

\* One key is given the value of this write, or taken out.
Write == /\ writes' = writes + 1 /\ UNCHANGED held
         /\ LET old == now
                new == now'
            IN  \E k \in Keys, v \in {Absent, Values[writes + 1]} :
                    new = [old EXCEPT ![k] = v]

\* The map is copied, and never changes with the copies.
Copy == /\ UNCHANGED <<writes, now>>
        /\ LET have == held
               will == held'
               name == now
           IN  \/ \E t \in Times : will = have \cup {<<t, name>>}
               \/ \E c \in have : will = have \ {c}
               \/ will = {}

Spec == Init /\ [][Write \/ Copy]_vars
=============================================================================
