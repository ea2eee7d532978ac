----------------------------- MODULE LevelTree -----------------------------
(***************************************************************************)
(* The tree of LevelDB, in which FirebaseDatabase keeps the app's data on  *)
(* disk: memtables, files in levels, snapshots and compactions             *)
(* (db/db_impl.cc, db/version_set.cc).                                     *)
(*                                                                         *)
(* An entry is a value or a deletion with a key and a sequence number.  A  *)
(* file is the set of its entries.  Level 0 has the memtables written out, *)
(* by their file numbers, whose ranges may overlap; the files of a deeper  *)
(* level are sorted and must not overlap.  One background thread writes    *)
(* out the immutable memtable and merges files of a level into the next,   *)
(* dropping the entries no snapshot can see.  A merge runs without the     *)
(* lock: writes go on, snapshots come and go, and it stops to write out a  *)
(* memtable.                                                               *)
(*                                                                         *)
(* What depends on the size of a file or a level (which level or file is   *)
(* merged next, how far a set of inputs grows, where an output file ends)  *)
(* is a choice.                                                            *)
(***************************************************************************)
EXTENDS Integers, FiniteSets, FiniteSetsExt

CONSTANTS
    Keys,        \* user keys, integers in the order of the comparator
    Depth,       \* the deepest level, kNumLevels - 1
    MaxPush,     \* kMaxMemCompactLevel
    MaxSeq,      \* bound: writes of a behaviour
    StopWrites,  \* kL0_StopWritesTrigger
    Manual,      \* CompactRange is called
    Snapshots,   \* snapshots are taken
    Deletions,   \* the kinds of writes: whether they delete
    Tear         \* an output file may end between two entries of one key

ASSUME LevelTreeAssumption ==
    /\ Keys \subseteq Nat /\ Keys # {} /\ Depth \in Nat \ {0}
    /\ MaxPush \in 0 .. Depth - 1 /\ MaxSeq \in Nat
    /\ {Manual, Tear, Snapshots} \cup Deletions \subseteq BOOLEAN

VARIABLES
    lastSequence,   \* VersionSet.last_sequence_
    mem, imm,       \* the memtables, sets of entries; no immutable one: {}
    l0,             \* Version.files_[0] of the current version, by file number
    files,          \* Version.files_[l], l \in 1 .. Depth, sets
    snapshots,      \* the sequence numbers of snapshots_
    compaction,     \* the merge under way, or NoCompaction
    log             \* history: every entry ever written

vars == <<lastSequence, mem, imm, l0, files, snapshots, compaction, log>>

Levels == 1 .. Depth
Entries == [key : Keys, seq : 1 .. MaxSeq, del : BOOLEAN]
NoCompaction == [level |-> -1]

Newest(S) == {e \in S : \A o \in S : o.seq <= e.seq}
Lo(f) == Min({e.key : e \in f})
Hi(f) == Max({e.key : e \in f})

\* The order of internal keys: by key, the newest entry first.
Before(a, b) == a.key < b.key \/ (a.key = b.key /\ a.seq > b.seq)

\* The types of memtables, levels and the merge under way.
TypeOK ==
    /\ lastSequence \in 0 .. MaxSeq
    /\ mem \subseteq Entries /\ imm \subseteq Entries /\ log \subseteq Entries
    /\ DOMAIN l0 \subseteq Nat \ {0} /\ l0 \in [DOMAIN l0 -> SUBSET Entries]
    /\ files \in [Levels -> SUBSET SUBSET Entries]
    /\ snapshots \subseteq 0 .. MaxSeq
    /\ \/ compaction = NoCompaction
       \/ /\ compaction.level \in 0 .. Depth - 1
          /\ compaction.inputs \subseteq SUBSET Entries
          /\ compaction.parents \subseteq SUBSET Entries
          /\ compaction.smallestSnapshot \in 0 .. MaxSeq

Init ==
    /\ lastSequence = 0
    /\ mem = {} /\ imm = {} /\ l0 = [n \in {} |-> {}] /\ files = [l \in Levels |-> {}]
    /\ snapshots = {} /\ compaction = NoCompaction
    /\ log = {}

-----------------------------------------------------------------------------
(* Versions.                                                               *)

FilesAt(l) == IF l = 0 THEN {l0[n] : n \in DOMAIN l0} ELSE files[l]

\* NewFileNumber, as far as level 0 can tell: beyond the numbers of its files.
NewFileNumber == Max({0} \cup DOMAIN l0) + 1

\* Level 0 with the memtables written out to it, the older one first.
WrittenOut ==
    LET next == NewFileNumber
        last == IF imm = {} THEN next ELSE next + 1
    IN  [n \in DOMAIN l0 \cup {next, last} |->
            IF n = last THEN mem ELSE IF n = next THEN imm ELSE l0[n]]

\* Where an entry may be, in the order in which Get looks: memtables and level 0 from the
\* newest on (NewestFirst), then level by level.
Places ==
    LET tables == WrittenOut
    IN  [p \in {-n : n \in DOMAIN tables} \cup Levels |->
            IF p < 0 THEN tables[-p] ELSE UNION files[p]]

Overlaps(f, lo, hi) == ~(Hi(f) < lo \/ hi < Lo(f))

OverlapInLevel(l, lo, hi) == \E f \in FilesAt(l) : Overlaps(f, lo, hi)

\* GetOverlappingInputs: at level 0 a file that overlaps the range extends it, until every
\* file that overlaps it is inside: the least such range.
GetOverlappingInputs(l, lo, hi) ==
    LET Closed == {r \in Keys \X Keys :
                      /\ r[1] <= lo /\ hi <= r[2]
                      /\ \A f \in FilesAt(0) :
                            Overlaps(f, r[1], r[2]) => r[1] <= Lo(f) /\ Hi(f) <= r[2]}
    IN  IF l = 0 THEN {f \in FilesAt(0) : \A r \in Closed : Overlaps(f, r[1], r[2])}
                 ELSE {f \in FilesAt(l) : Overlaps(f, lo, hi)}

Visible(S, k, s) == {e \in S : e.key = k /\ e.seq <= s}

\* FindFile: the first file whose largest entry is not before the one looked for, the only
\* one of the level that Get looks into.
Candidate(l, k, s) ==
    LET Ahead(f) == \E e \in f : ~Before(e, [key |-> k, seq |-> s])
        First(f) == \A g \in files[l] : Ahead(g) => \E e \in f : \A o \in g : ~Before(o, e)
    IN  UNION {f \in files[l] : Ahead(f) /\ First(f)}

\* The value of the newest of S, as a set: its sequence number, or nothing when it is a
\* deletion or there is none.
Value(S) == {e.seq : e \in {n \in Newest(S) : ~n.del}}

\* DBImpl::Get and Version::Get: the memtables, then level 0 from the newest file on
\* (NewestFirst), then level by level.  A place is reached if those before it have nothing.
Get(k, s) ==
    LET In(S)  == Visible(S, k, s)
        At(l)  == In(Candidate(l, k, s))
        Recent == UNION {In(l0[n]) : n \in {n \in DOMAIN l0 :
                             \A m \in DOMAIN l0 : m > n => In(l0[m]) = {}}}
        Lower  == UNION {At(l) : l \in {l \in Levels : \A d \in 1 .. l - 1 : At(d) = {}}}
    IN  Value(IF In(mem) # {} THEN In(mem) ELSE IF In(imm) # {} THEN In(imm)
              ELSE IF Recent # {} THEN Recent ELSE Lower)

\* What an iterator sees: MergingIterator over everything, DBIter on top of it.
Stored == mem \cup imm \cup UNION UNION {FilesAt(l) : l \in 0 .. Depth}
Scan(S, k, s) == Value(Visible(S, k, s))

-----------------------------------------------------------------------------
(* Writes and snapshots.                                                   *)

Write(k, deletion) ==
    /\ lastSequence < MaxSeq
    /\ lastSequence' = lastSequence + 1
    /\ LET e == [key |-> k, seq |-> lastSequence + 1, del |-> deletion]
       IN  mem' = mem \cup {e} /\ log' = log \cup {e}
    /\ UNCHANGED <<imm, l0, files, snapshots, compaction>>

\* MakeRoomForWrite
SwitchMemTable ==
    /\ mem # {} /\ imm = {} /\ Cardinality(DOMAIN l0) < StopWrites
    /\ imm' = mem /\ mem' = {}
    /\ UNCHANGED <<lastSequence, l0, files, snapshots, compaction, log>>

GetSnapshot ==
    /\ Snapshots /\ lastSequence \notin snapshots
    /\ snapshots' = snapshots \cup {lastSequence}
    /\ UNCHANGED <<lastSequence, mem, imm, l0, files, compaction, log>>

ReleaseSnapshot(s) ==
    /\ s \in snapshots
    /\ snapshots' = snapshots \ {s}
    /\ UNCHANGED <<lastSequence, mem, imm, l0, files, compaction, log>>

\* The process ends, in the middle of whatever, and the store is opened again: Recover and
\* RecoverLogFile put what the logs of the two memtables hold into new files of level 0.
Reopen ==
    /\ l0' = [n \in {w \in DOMAIN WrittenOut : WrittenOut[w] # {}} |-> WrittenOut[n]]
    /\ mem' = {} /\ imm' = {} /\ snapshots' = {} /\ compaction' = NoCompaction
    /\ UNCHANGED <<lastSequence, files, log>>

-----------------------------------------------------------------------------
(* The background thread.                                                  *)

\* Mutant: the level the table is put into is not looked at.
PickLevelUnchecked(lo, hi) ==
    {0} \cup {l \in 1 .. MaxPush : \A k \in 0 .. l - 1 : ~OverlapInLevel(k, lo, hi)}

\* PickLevelForMemTableOutput: down to MaxPush, as long as nothing overlaps; it may stop
\* earlier because of the size of what overlaps below.
PickLevelForMemTableOutput(lo, hi) ==
    {0} \cup {l \in 1 .. MaxPush : \A k \in 0 .. l : ~OverlapInLevel(k, lo, hi)}

Inputs(c) == UNION (c.inputs \cup c.parents)

\* WriteLevel0Table and CompactMemTable, by itself or in the middle of a merge.
CompactMemTable ==
    /\ imm # {}
    /\ \E level \in PickLevelForMemTableOutput(Lo(imm), Hi(imm)) :
        /\ IF level = 0 THEN /\ l0' = [n \in DOMAIN l0 \cup {NewFileNumber} |-> WrittenOut[n]]
                             /\ UNCHANGED files
           ELSE files' = [files EXCEPT ![level] = @ \cup {imm}] /\ UNCHANGED l0
    /\ imm' = {}
    /\ UNCHANGED <<lastSequence, mem, snapshots, compaction, log>>

\* SetupOtherInputs: the files of the next level in the range, and then more files of this
\* level, if that brings no more of the next one; it may not, because of their size.
SetupOtherInputs(l, in0) ==
    LET in1  == GetOverlappingInputs(l + 1, Lo(UNION in0), Hi(UNION in0))
        all  == UNION (in0 \cup in1)
        exp0 == GetOverlappingInputs(l, Lo(all), Hi(all))
        exp1 == GetOverlappingInputs(l + 1, Lo(UNION exp0), Hi(UNION exp0))
        Expandable == /\ in1 # {} /\ Cardinality(exp0) > Cardinality(in0)
                      /\ Cardinality(exp1) = Cardinality(in1)
    IN  {<<in0, in1>>} \cup IF Expandable THEN {<<exp0, exp1>>} ELSE {}

Begin(l, in0) ==
    \E in \in SetupOtherInputs(l, in0) :
        compaction' = [level |-> l, inputs |-> in[1], parents |-> in[2],
                       smallestSnapshot |-> IF snapshots = {} THEN lastSequence
                                            ELSE Min(snapshots),
                       deeper |-> [d \in l + 2 .. Depth |-> files[d]]]

Removed(l, S) == IF l = 0 THEN [n \in {w \in DOMAIN l0 : l0[w] \notin S} |-> l0[n]] ELSE l0

\* PickCompaction: whichever file of a level is due, by size or by seeks; at level 0 with
\* every file that overlaps it.
PickCompaction(l, f) ==
    /\ compaction = NoCompaction /\ imm = {}
    /\ f \in FilesAt(l)
    /\ Begin(l, IF l = 0 THEN GetOverlappingInputs(0, Lo(f), Hi(f)) ELSE {f})
    /\ UNCHANGED <<lastSequence, mem, imm, l0, files, snapshots, log>>

\* CompactRange, asked for by a caller: the files of the range, or the first ones.
\* Between the ranges of its inputs there may be gaps.  With three keys or more a memtable
\* may be put into one while the merge runs, and be covered by its output: LevelsDisjoint
\* does not hold of such instances.
CompactRange(l, lo, hi) ==
    /\ Manual
    /\ compaction = NoCompaction /\ imm = {}
    /\ LET in == GetOverlappingInputs(l, lo, hi)
       IN  /\ in # {}
           /\ \E k \in Keys : LET first == {f \in in : l = 0 \/ Lo(f) <= k}
                              IN  first # {} /\ Begin(l, first)
    /\ UNCHANGED <<lastSequence, mem, imm, l0, files, snapshots, log>>

\* IsTrivialMove: a single file with nothing to merge with is moved down as it is.
TrivialMove(l, f) ==
    /\ compaction = NoCompaction /\ imm = {}
    /\ f \in FilesAt(l)
    /\ IF l = 0 THEN GetOverlappingInputs(0, Lo(f), Hi(f)) = {f} ELSE TRUE
    /\ ~OverlapInLevel(l + 1, Lo(f), Hi(f))
    /\ l0' = Removed(l, {f})
    /\ files' = [d \in Levels |-> IF d = l THEN files[d] \ {f}
                                  ELSE IF d = l + 1 THEN files[d] \cup {f} ELSE files[d]]
    /\ UNCHANGED <<lastSequence, mem, imm, snapshots, compaction, log>>

\* Mutant: the search begins one level too deep.
IsBaseLevelBelowNext(c, k) ==
    \A d \in DOMAIN c.deeper \ {c.level + 2} : \A f \in c.deeper[d] : ~Overlaps(f, k, k)

\* IsBaseLevelForKey, in the version the merge began with.
IsBaseLevelForKey(c, k) ==
    \A d \in DOMAIN c.deeper : \A f \in c.deeper[d] : ~Overlaps(f, k, k)

\* DoCompactionWork: an entry is dropped when a newer one hides it from every snapshot, or
\* when it is a deletion with nothing left to hide.
Drop(c, e) ==
    \/ \E n \in Inputs(c) : n.key = e.key /\ n.seq > e.seq /\ n.seq <= c.smallestSnapshot
    \/ e.del /\ e.seq <= c.smallestSnapshot /\ IsBaseLevelForKey(c, e.key)

Kept(c) == {e \in Inputs(c) : ~Drop(c, e)}

\* The entries kept, cut into files after the entries of Cuts.
Outputs(K, Cuts) ==
    LET Ended(e) == {c \in Cuts : Before(c, e)}
    IN  {{o \in K : Ended(o) = Ended(e)} : e \in K}

LastOfKey(K, e) == \A o \in K : o.key = e.key => ~Before(e, o)

InstallCompactionResults ==
    /\ compaction # NoCompaction
    /\ LET c == compaction
           K == Kept(c)
       IN \E Cuts \in SUBSET {e \in K : Tear \/ LastOfKey(K, e)} :
            LET Out == Outputs(K, Cuts) IN
            /\ l0' = Removed(c.level, c.inputs)
            /\ files' = [d \in Levels |->
                            IF d = c.level THEN files[d] \ c.inputs
                            ELSE IF d = c.level + 1 THEN (files[d] \ c.parents) \cup Out
                            ELSE files[d]]
    /\ compaction' = NoCompaction
    /\ UNCHANGED <<lastSequence, mem, imm, snapshots, log>>

Next ==
    \/ \E k \in Keys, deletion \in Deletions : Write(k, deletion)
    \/ SwitchMemTable \/ GetSnapshot
    \/ \E s \in snapshots : ReleaseSnapshot(s)
    \/ Reopen \/ CompactMemTable
    \/ \E l \in 0 .. Depth - 1 :
        \/ \E f \in FilesAt(l) : PickCompaction(l, f) \/ TrivialMove(l, f)
        \/ \E lo, hi \in Keys : CompactRange(l, lo, hi)
    \/ InstallCompactionResults

Spec == Init /\ [][Next]_vars

-----------------------------------------------------------------------------
(* Properties.                                                             *)

Readable == snapshots \cup {lastSequence}

\* An iterator, which goes through everything there is, sees what was written last before
\* its snapshot: no merge drops what a snapshot sees, or a deletion that still hides
\* something.
ScansTrue ==
    \A k \in Keys, s \in Readable : Scan(Stored, k, s) = Scan(log, k, s)

\* Of one key, what is found earlier is newer: what Version::Get relies on when it stops at
\* the first level it finds something in ("entries never hop across levels").
NewerAbove ==
    LET places == Places
    IN  \A i, j \in DOMAIN places : i < j =>
            \A a \in places[i], b \in places[j] : a.key = b.key => a.seq > b.seq

\* The files of a level but the first do not overlap, for all that memtables are put among
\* them while a merge runs ("Must not overlap").
LevelsDisjoint ==
    \A l \in Levels : \A f, g \in files[l] : f # g => ~Overlaps(f, Lo(g), Hi(g))

\* The levels are what Get and the iterators rely on.
LevelsTrue == TypeOK /\ ScansTrue /\ NewerAbove /\ LevelsDisjoint

\* What a reader with the sequence number s reads.
Reads(s) == [k \in Keys |-> Get(k, s)]

Map == INSTANCE SnapshotMap WITH
    Values <- [n \in 1 .. MaxSeq |-> {n}], Absent <- {}, Times <- 0 .. MaxSeq,
    writes <- lastSequence,
    now <- Reads(lastSequence), held <- {<<s, Reads(s)>> : s \in snapshots}

\* The store implements a map with snapshots: a write changes one key, no switch of
\* memtables, flush, move or merge changes what anybody reads, and a restart loses nothing.
ImplementsMap == Map!Spec
=============================================================================
