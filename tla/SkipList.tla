------------------------------ MODULE SkipList ------------------------------
(***************************************************************************)
(* The memtable of LevelDB (db/skiplist.h): one writer inserts, holding    *)
(* the place at the front of the writers' queue, while readers seek and    *)
(* walk without any lock.  Every load and store of a link that another     *)
(* thread may see is a step.                                               *)
(*                                                                         *)
(* A node is its key.  Levels count from 1, the list of all the nodes.     *)
(***************************************************************************)
EXTENDS Integers

CONSTANTS
    MaxKey,     \* keys are 1 .. MaxKey
    MaxHeight,  \* kMaxHeight
    Readers

SkipListAssumption == MaxKey \in Nat \ {0} /\ MaxHeight \in Nat \ {0}

Keys == 1 .. MaxKey
Levels == 1 .. MaxHeight
Head == 0
Nil == MaxKey + 1    \* NULL, which "sorts after all keys"
Unset == 0           \* what a node's link holds before it is stored: no link leads to head_
Nodes == Keys \cup {Head}

VARIABLES
    next,        \* next[l][n]: the link of node n on level l
    max_height_,
    heights,     \* what max_height_ has been: what a reader may still see of it
    wpc,         \* Insert: "idle", "search" in FindGreaterOrEqual, "link" in its loop
    key, height, prev,
    wx, wlevel,  \* x and level of the search, then level of the loop
    mode,        \* a reader: "ge" or "lt" in FindGreaterOrEqual or FindLessThan, then
                 \* "forward" or "backward" with its iterator at position
    x, level, target, position,
    began,       \* history: the keys that were in the list when the reader began
    passed       \* history: the keys its iterator has been at since

listVars == <<next, max_height_, heights>>
writerVars == <<wpc, key, height, prev, wx, wlevel>>
readerVars == <<mode, x, level, target, position, began, passed>>
vars == <<listVars, writerVars, readerVars>>

Listed == {k \in Keys : next[1][k] # Unset}

Init ==
    /\ next = [l \in Levels |-> [n \in Nodes |-> IF n = Head THEN Nil ELSE Unset]]
    /\ max_height_ = 1 /\ heights = {1}
    /\ wpc = "idle" /\ key = 1 /\ height = 1 /\ prev = [l \in Levels |-> Head]
    /\ wx = Head /\ wlevel = 1
    /\ mode = [r \in Readers |-> "forward"]
    /\ x = [r \in Readers |-> Head] /\ level = [r \in Readers |-> 1]
    /\ target = [r \in Readers |-> Nil] /\ position = [r \in Readers |-> Nil]
    /\ began = [r \in Readers |-> {}] /\ passed = [r \in Readers |-> {}]

----------------------------------------------------------------------------
(* The writer. *)

\* Insert begins its search.  Levels above the highest will have head_ before the key.
Insert(k) ==
    /\ wpc = "idle" /\ k \notin Listed
    /\ wpc' = "search" /\ key' = k /\ prev' = [l \in Levels |-> Head]
    /\ wx' = Head /\ wlevel' = max_height_
    /\ UNCHANGED <<listVars, height, readerVars>>

SearchOn ==
    /\ wpc = "search" /\ next[wlevel][wx] < key
    /\ wx' = next[wlevel][wx]
    /\ UNCHANGED <<listVars, wpc, key, height, prev, wlevel, readerVars>>

\* Mutant: the node before is not kept on the levels above the first.
SearchDownUnrecorded ==
    /\ wpc = "search" /\ next[wlevel][wx] >= key /\ wlevel > 1
    /\ wlevel' = wlevel - 1
    /\ UNCHANGED <<listVars, wpc, key, height, prev, wx, readerVars>>

SearchDown ==
    /\ wpc = "search" /\ next[wlevel][wx] >= key /\ wlevel > 1
    /\ prev' = [prev EXCEPT ![wlevel] = wx] /\ wlevel' = wlevel - 1
    /\ UNCHANGED <<listVars, wpc, key, height, wx, readerVars>>

\* The search is over: h is the RandomHeight of the new node.
SetHeight(h) ==
    /\ wpc = "search" /\ next[wlevel][wx] >= key /\ wlevel = 1
    /\ prev' = [prev EXCEPT ![1] = wx]
    /\ height' = h
    /\ IF h > max_height_ THEN max_height_' = h /\ heights' = heights \cup {h}
                          ELSE UNCHANGED <<max_height_, heights>>
    /\ wpc' = "link"
    /\ UNCHANGED <<next, key, wx, wlevel, readerVars>>

\* One round of the loop: SetNext on the new node, then on the one before it.
Link ==
    /\ wpc = "link"
    /\ next' = [next EXCEPT ![wlevel][key] = next[wlevel][prev[wlevel]],
                            ![wlevel][prev[wlevel]] = key]
    /\ IF wlevel < height THEN wlevel' = wlevel + 1 /\ UNCHANGED wpc
                          ELSE wpc' = "idle" /\ UNCHANGED wlevel
    /\ UNCHANGED <<max_height_, heights, key, height, prev, wx, readerVars>>

----------------------------------------------------------------------------
(* The readers' Iterator. *)

Idle(r) == mode[r] \in {"forward", "backward"}

\* A search by r for t begins at the highest level, as far as r can see.
Search(r, m, t) ==
    /\ Idle(r)
    /\ mode' = [mode EXCEPT ![r] = m]
    /\ x' = [x EXCEPT ![r] = Head]
    /\ \E h \in heights : level' = [level EXCEPT ![r] = h]
    /\ target' = [target EXCEPT ![r] = t]
    /\ began' = [began EXCEPT ![r] = Listed]
    /\ passed' = [passed EXCEPT ![r] = {}]
    /\ UNCHANGED <<listVars, writerVars, position>>

Seek(r, t) == Search(r, "ge", t)
Prev(r) == position[r] # Nil /\ Search(r, "lt", position[r])
SeekToLast(r) == Search(r, "lt", Nil)    \* FindLast: every node is before NULL

Following(r) == next[level[r]][x[r]]

GoOn(r) ==
    /\ ~Idle(r) /\ Following(r) < target[r]
    /\ x' = [x EXCEPT ![r] = Following(r)]
    /\ UNCHANGED <<listVars, writerVars, mode, level, target, position, began, passed>>

\* Mutant: the level is not changed.
GoDownStays(r) ==
    /\ ~Idle(r) /\ Following(r) >= target[r] /\ level[r] > 1
    /\ level' = [level EXCEPT ![r] = @]
    /\ UNCHANGED <<listVars, writerVars, mode, x, target, position, began, passed>>

GoDown(r) ==
    /\ ~Idle(r) /\ Following(r) >= target[r] /\ level[r] > 1
    /\ level' = [level EXCEPT ![r] = @ - 1]
    /\ UNCHANGED <<listVars, writerVars, mode, x, target, position, began, passed>>

\* Mutant: the search ends on the highest level.
ReturnFromAbove(r) ==
    /\ ~Idle(r) /\ Following(r) >= target[r]
    /\ IF mode[r] = "ge"
       THEN /\ position' = [position EXCEPT ![r] = Following(r)]
            /\ mode' = [mode EXCEPT ![r] = "forward"]
       ELSE /\ position' = [position EXCEPT ![r] = IF x[r] = Head THEN Nil ELSE x[r]]
            /\ mode' = [mode EXCEPT ![r] = "backward"]
    /\ UNCHANGED <<listVars, writerVars, x, level, target, began, passed>>

\* FindGreaterOrEqual returns the node after x, FindLessThan x itself, head_ being none.
Return(r) ==
    /\ ~Idle(r) /\ Following(r) >= target[r] /\ level[r] = 1
    /\ IF mode[r] = "ge"
       THEN /\ position' = [position EXCEPT ![r] = Following(r)]
            /\ mode' = [mode EXCEPT ![r] = "forward"]
       ELSE /\ position' = [position EXCEPT ![r] = IF x[r] = Head THEN Nil ELSE x[r]]
            /\ mode' = [mode EXCEPT ![r] = "backward"]
    /\ UNCHANGED <<listVars, writerVars, x, level, target, began, passed>>

\* A walk from node n on, which counts from there when the iterator did not walk forward.
Walk(r, n, t, seen) ==
    /\ Idle(r)
    /\ position' = [position EXCEPT ![r] = next[1][n]]
    /\ mode' = [mode EXCEPT ![r] = "forward"]
    /\ target' = [target EXCEPT ![r] = t]
    /\ passed' = [passed EXCEPT ![r] = seen]
    /\ UNCHANGED <<listVars, writerVars, x, level>>

SeekToFirst(r) == Walk(r, Head, 1, {}) /\ began' = [began EXCEPT ![r] = Listed]

NextNode(r) ==
    /\ position[r] # Nil
    /\ IF mode[r] = "forward"
       THEN Walk(r, position[r], target[r], passed[r] \cup {position[r]}) /\ UNCHANGED began
       ELSE /\ Walk(r, position[r], position[r], {position[r]})
            /\ began' = [began EXCEPT ![r] = Listed]

Write ==
    \/ \E k \in Keys : Insert(k)
    \/ SearchOn \/ SearchDown \/ Link
    \/ \E h \in Levels : SetHeight(h)

Read(r) ==
    \/ \E t \in Keys : Seek(r, t)
    \/ Prev(r) \/ SeekToLast(r) \/ SeekToFirst(r) \/ NextNode(r)
    \/ GoOn(r) \/ GoDown(r) \/ Return(r)

Next == Write \/ \E r \in Readers : Read(r)
Spec == Init /\ [][Next]_vars

----------------------------------------------------------------------------
(* Properties. *)

\* The types of the links, the writer and the readers.
TypeOK ==
    /\ next \in [Levels -> [Nodes -> 0 .. Nil]]
    /\ max_height_ \in Levels /\ heights \subseteq Levels
    /\ wpc \in {"idle", "search", "link"}
    /\ key \in Keys /\ height \in Levels /\ prev \in [Levels -> Nodes]
    /\ wx \in Nodes /\ wlevel \in Levels
    /\ mode \in [Readers -> {"forward", "backward", "ge", "lt"}]
    /\ x \in [Readers -> Nodes] /\ level \in [Readers -> Levels]
    /\ target \in [Readers -> 1 .. Nil] /\ position \in [Readers -> 1 .. Nil]
    /\ began \in [Readers -> SUBSET Keys] /\ passed \in [Readers -> SUBSET Keys]

On(l) == {n \in Nodes : next[l][n] # Unset}

\* Every level is at every moment a sorted list that leaves out none of its nodes, and
\* each is part of the one below, also while a node is being linked.
Sorted ==
    \A l \in Levels :
        /\ \A n \in On(l) : next[l][n] > n /\ next[l][n] \in On(l) \cup {Nil}
        /\ \A n, o \in On(l) : o <= n \/ next[l][n] <= o
        /\ \A m \in 1 .. l : On(l) \subseteq On(m)

\* A reader never follows a link that was not stored yet, on its way or from its node.
LinksStored ==
    \A r \in Readers :
        /\ ~Idle(r) => x[r] \in On(level[r])
        /\ position[r] \in On(1) \cup {Nil}

\* The lists as writer and readers find them.
ListsTrue == TypeOK /\ Sorted /\ LinksStored

\* No reader misses a key that was in the list before it began: a walk forward has been
\* at all of them on its way, and a search backward stops at the last of them.
SeesInserted ==
    \A r \in Readers : \A k \in began[r] :
        /\ mode[r] = "forward" /\ target[r] <= k /\ k < position[r] => k \in passed[r]
        /\ mode[r] = "backward" /\ k < target[r] => position[r] # Nil /\ k <= position[r]

\* A reader's call ends, however busy the writer is.
SearchEnds == \A r \in Readers : ~Idle(r) ~> Idle(r)
FairSpec == Spec /\ \A r \in Readers : WF_vars(GoOn(r) \/ GoDown(r) \/ Return(r))
=============================================================================
