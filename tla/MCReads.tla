------------------------------ MODULE MCReads -------------------------------
(***************************************************************************)
(* What LevelDB's readers go through while others write: the memtable and  *)
(* an iterator over a memtable that grows (Reads), a table file            *)
(* (TableFile) and the cache of open ones (TableCache).  They share        *)
(* nothing, so in each behaviour one of them moves while the others are as *)
(* they were created.                                                      *)
(***************************************************************************)
EXTENDS Reads, TableCache

----------------------------------------------------------------------------
(* An iterator over the memtable and a table: three entries it may show, one it may not. *)

\* One of the initial states of the iterator, where it stays while others move.
IteratorRests ==
    /\ deleted = {} /\ child[2] = {} /\ child[1] = {Entry(1, s) : s \in 1 .. 3}
    /\ merge = [pos |-> <<0, 0>>, current |-> 0, forward |-> TRUE]
    /\ ~valid /\ pc = "idle" /\ expected = 0 /\ Init

----------------------------------------------------------------------------
(* A table of a few keys: one is between two others that may be parted by a shorter key; in
   blocks of any size. *)

VARIABLES interval, blocks, block, index, last_key, pending, entries, closed, bad, iter,
          sought, skipped

tableVars == <<interval, blocks, block, index, last_key, pending, entries, closed, bad, iter,
               sought, skipped>>

File == INSTANCE TableFile WITH
    expected <- sought, UserKeys <- {<<0, 1>>, <<1>>, <<2>>}, Sequences <- {1, 2},
    MaxSequence <- 3, MaxByte <- 2, MaxEntries <- 4, Intervals <- {1, 2}, Stepping <- TRUE

ASSUME FileAssumption == File!TableFileAssumption

FileRests == interval = 1 /\ File!Init

----------------------------------------------------------------------------
(* Two threads and tables of two sizes: two small ones or the large one fit in the cache. *)

CONSTANT Large

Charges == [k \in Numbers |-> IF k = Large THEN 2 ELSE 1]

ASSUME CacheAssumption == TableCacheAssumption

----------------------------------------------------------------------------

AllInit == Init /\ L!Init /\ File!Init /\ CacheInit /\ (IteratorRests \/ FileRests)

AllNext ==
    \/ IteratorRests /\ FileRests /\ CacheInit /\ L!Next
       /\ UNCHANGED <<vars, tableVars, cacheVars>>
    \/ L!Init /\ FileRests /\ CacheInit /\ Next
       /\ UNCHANGED <<memtableVars, tableVars, cacheVars>>
    \/ L!Init /\ IteratorRests /\ CacheInit /\ File!Next
       /\ UNCHANGED <<memtableVars, vars, cacheVars>>
    \/ L!Init /\ IteratorRests /\ FileRests /\ CacheNext
       /\ UNCHANGED <<memtableVars, vars, tableVars>>

\* A reader that has begun is scheduled.
AllFairness ==
    /\ \A r \in Readers : WF_memtableVars(L!GoOn(r) \/ L!GoDown(r) \/ L!Return(r))
    /\ WF_vars(FindNextUserEntry \/ Turn \/ FindPrevUserEntry)

AllSpec ==
    /\ AllInit /\ [][AllNext]_<<vars, memtableVars, tableVars, cacheVars>>
    /\ AllFairness

----------------------------------------------------------------------------
(* Properties. *)

\* Tables: the entries of a file come in order, and a lookup finds the newest (TableFile).
TablesTrue == File!TypeOK /\ File!ReadsInOrder /\ File!SkipsAreTold /\ File!LookupsFind

\* A search in the memtable ends however busy the writer is, and so does a move of an
\* iterator (SkipList, Cursor).
ReadsEnd == L!SearchEnds /\ CallsEnd
=============================================================================
