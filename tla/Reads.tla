------------------------------- MODULE Reads -------------------------------
(***************************************************************************)
(* Reading while a writer goes on: an iterator (Cursor) whose first child  *)
(* is the memtable, and the list the memtable is made of (SkipList).  An   *)
(* entry that Cursor adds in one step is linked by SkipList in many.       *)
(***************************************************************************)
EXTENDS Cursor

CONSTANTS MaxKey, MaxHeight, Readers   \* SkipList's

\* The writer's key and a reader's node are `adding' and `node' here.
VARIABLES next, max_height_, heights, wpc, adding, height, prev, wx, wlevel,
          mode, node, level, target, position, began, passed

memtableVars == <<next, max_height_, heights, wpc, adding, height, prev, wx, wlevel,
                  mode, node, level, target, position, began, passed>>

L == INSTANCE SkipList WITH key <- adding, x <- node

ASSUME ReadsAssumption == CursorAssumption /\ L!SkipListAssumption

\* The properties of SkipList: the lists as writer and readers find them, and what a reader
\* must not miss.
ListsTrue == L!ListsTrue
SeesInserted == L!SeesInserted
=============================================================================
