----------------------------- MODULE TableFile ------------------------------
(***************************************************************************)
(* A table of LevelDB, written by TableBuilder (table/table_builder.cc)    *)
(* and read through a TwoLevelIterator (table/two_level_iterator.cc) and   *)
(* by Table::InternalGet.  The index has one entry for each block: a key   *)
(* that is as short as can be and still parts it from the next.  Some      *)
(* blocks may turn out not to be readable.                                 *)
(***************************************************************************)
EXTENDS Block, FiniteSets

CONSTANTS
    UserKeys,    \* sequences of bytes
    Sequences,   \* of the entries
    MaxSequence, \* kMaxSequenceNumber
    MaxByte,     \* 0xff
    MaxEntries,  \* bounds the table
    Intervals,   \* block_restart_interval
    Stepping     \* whether the iterator is moved as well as set

TableFileAssumption ==
    /\ \A k \in UserKeys : k \in Seq(0 .. MaxByte) /\ k # <<>>
    /\ Sequences \subseteq 1 .. MaxSequence - 1

VARIABLES
    interval,
    blocks,     \* the data blocks written
    block,      \* data_block
    index,      \* index_block, with the numbers of the blocks for handles
    last_key,
    pending,    \* pending_index_entry
    entries,    \* history: the block of each key added
    closed,
    bad,        \* the blocks that cannot be read
    iter,       \* the TwoLevelIterator: number 0 when data is NULL, error of status_
    expected,   \* history: the key the iterator should be at, <<>> for none
    skipped     \* history: whether its last move passed over a key it cannot read

vars == <<interval, blocks, block, index, last_key, pending, entries, closed, bad,
          iter, expected, skipped>>

InternalKeys == {k \o <<s>> : k \in UserKeys, s \in Sequences}

Init ==
    /\ interval \in Intervals
    /\ blocks = <<>> /\ block = Empty /\ index = Empty /\ last_key = <<>>
    /\ pending = FALSE /\ entries = <<>> /\ closed = FALSE /\ bad = {}
    /\ iter = [index |-> NewIter(Empty), data |-> NewIter(Empty), number |-> 0,
               error |-> FALSE]
    /\ expected = <<>> /\ skipped = FALSE

----------------------------------------------------------------------------
(* The keys of the index. *)

\* BytewiseComparatorImpl.
ShortestSeparator(start, limit) ==
    LET n == Shared(start, limit)
    IN  IF n < Len(start) /\ n < Len(limit) /\ start[n + 1] < MaxByte
           /\ start[n + 1] + 1 < limit[n + 1]
        THEN SubSeq(start, 1, n) \o <<start[n + 1] + 1>> ELSE start

ShortSuccessor(key) ==
    LET less == {i \in 1 .. Len(key) : key[i] # MaxByte}
        i == LeastOf(less)
    IN  IF less = {} THEN key ELSE SubSeq(key, 1, i - 1) \o <<key[i] + 1>>

\* InternalKeyComparator: the shorter user key tmp, as the first of its entries.
Shortened(key, tmp) ==
    IF Len(tmp) < Len(UserKey(key)) /\ BytesBefore(UserKey(key), tmp)
    THEN tmp \o <<MaxSequence>> ELSE key
FindShortestSeparator(start, limit) ==
    Shortened(start, ShortestSeparator(UserKey(start), UserKey(limit)))
FindShortSuccessor(key) == Shortened(key, ShortSuccessor(UserKey(key)))

----------------------------------------------------------------------------
(* TableBuilder. *)

\* The index entry of the last block, whose restart interval is 1.
WithPending(key) == IF pending THEN Add(index, key, Len(blocks), 1) ELSE index

\* Mutant: the index key is shortened without regard to the key that follows.
AddKeyBySuccessor(k, full) ==
    /\ ~closed /\ Cardinality(DOMAIN entries) < MaxEntries
    /\ entries # <<>> => Before(last_key, k)
    /\ LET b == Add(block, k, <<>>, interval)
       IN  /\ blocks' = IF full THEN Append(blocks, b) ELSE blocks
           /\ block' = IF full THEN Empty ELSE b
    /\ index' = WithPending(FindShortSuccessor(last_key))
    /\ pending' = full
    /\ last_key' = k /\ entries' = entries @@ (k :> Len(blocks) + 1)
    /\ UNCHANGED <<interval, closed, bad, iter, expected, skipped>>

\* full: the estimate of the block's size has reached block_size.
AddKey(k, full) ==
    /\ ~closed /\ Cardinality(DOMAIN entries) < MaxEntries
    /\ entries # <<>> => Before(last_key, k)
    /\ LET b == Add(block, k, <<>>, interval)
       IN  /\ blocks' = IF full THEN Append(blocks, b) ELSE blocks
           /\ block' = IF full THEN Empty ELSE b
    /\ index' = WithPending(FindShortestSeparator(last_key, k))
    /\ pending' = full
    /\ last_key' = k /\ entries' = entries @@ (k :> Len(blocks) + 1)
    /\ UNCHANGED <<interval, closed, bad, iter, expected, skipped>>

\* A block that is not empty is written without its successor.
Finish ==
    /\ ~closed /\ entries # <<>>
    /\ closed' = TRUE
    /\ blocks' = IF block.entries = <<>> THEN blocks ELSE Append(blocks, block)
    /\ index' = Add(index, FindShortSuccessor(last_key), Len(blocks'), 1)
    /\ block' = Empty /\ pending' = FALSE
    /\ bad' \in SUBSET (1 .. Len(blocks'))
    /\ iter' = [iter EXCEPT !.index = NewIter(index')]
    /\ UNCHANGED <<interval, last_key, entries, expected, skipped>>

----------------------------------------------------------------------------
(* TwoLevelIterator. *)

\* data_iter_ is NULL, or is an error iterator, or is in its block.
Broken(t) == t.number \in bad
OnData(t) == t.number # 0 /\ ~Broken(t) /\ Valid(blocks[t.number], t.data)

SetDataIterator(t, n) ==
    [t EXCEPT !.error = t.error \/ Broken(t), !.number = n,
              !.data = IF n = 0 \/ n \in bad THEN NewIter(Empty) ELSE NewIter(blocks[n])]

\* A block the iterator is in already is not read again.
InitDataBlock(t) ==
    IF ~Valid(index, t.index) THEN SetDataIterator(t, 0)
    ELSE LET n == Value(index, t.index)
         IN  IF t.number = n THEN t ELSE SetDataIterator(t, n)

\* An error iterator ignores what it is told.
Told(t, it) == IF t.number = 0 \/ Broken(t) THEN t ELSE [t EXCEPT !.data = it]
DataFirst(t) == Told(t, IterFirst(blocks[t.number], t.data))
DataLast(t) == Told(t, IterLast(blocks[t.number], t.data))
DataSeek(t, k) == Told(t, IterSeek(blocks[t.number], t.data, k))

RECURSIVE SkipForward(_), SkipBackward(_)
SkipForward(t) ==
    IF OnData(t) THEN t
    ELSE IF ~Valid(index, t.index) THEN SetDataIterator(t, 0)
    ELSE SkipForward(DataFirst(InitDataBlock([t EXCEPT !.index = IterNext(index, @)])))
SkipBackward(t) ==
    IF OnData(t) THEN t
    ELSE IF ~Valid(index, t.index) THEN SetDataIterator(t, 0)
    ELSE SkipBackward(DataLast(InitDataBlock([t EXCEPT !.index = IterPrev(index, @)])))

(* The iterator is moved.  Among the keys of S, the first and the last. *)

FirstOf(S) == IF S = {} THEN <<>> ELSE CHOOSE k \in S : \A o \in S : ~Before(o, k)
LastOf(S) == IF S = {} THEN <<>> ELSE CHOOSE k \in S : \A o \in S : ~Before(k, o)
Added == DOMAIN entries
Readable == {k \in Added : entries[k] \notin bad}

Move(t) ==
    /\ closed /\ iter' = t
    /\ UNCHANGED <<interval, blocks, block, index, last_key, pending, entries, closed, bad>>

Forward(S) ==
    /\ expected' = FirstOf(S \cap Readable)
    /\ skipped' = (FirstOf(S) # FirstOf(S \cap Readable))
Backward(S) ==
    /\ expected' = LastOf(S \cap Readable)
    /\ skipped' = (LastOf(S) # LastOf(S \cap Readable))

Seek(k) ==
    /\ Move(SkipForward(DataSeek(
            InitDataBlock([iter EXCEPT !.index = IterSeek(index, @, k)]), k)))
    /\ Forward({o \in Added : ~Before(o, k)})
SeekToFirst ==
    /\ Move(SkipForward(DataFirst(
            InitDataBlock([iter EXCEPT !.index = IterFirst(index, @)]))))
    /\ Forward(Added)
SeekToLast ==
    /\ Move(SkipBackward(DataLast(
            InitDataBlock([iter EXCEPT !.index = IterLast(index, @)]))))
    /\ Backward(Added)
NextKey ==
    /\ OnData(iter)
    /\ Move(SkipForward(Told(iter, IterNext(blocks[iter.number], iter.data))))
    /\ Forward({o \in Added : Before(expected, o)})
PrevKey ==
    /\ OnData(iter)
    /\ Move(SkipBackward(Told(iter, IterPrev(blocks[iter.number], iter.data))))
    /\ Backward({o \in Added : Before(o, expected)})

Next ==
    \/ \E k \in InternalKeys, full \in BOOLEAN : AddKey(k, full)
    \/ Finish
    \/ \E k \in InternalKeys : closed /\ Seek(k)
    \/ closed /\ (SeekToFirst \/ SeekToLast)
    \/ closed /\ Stepping /\ (NextKey \/ PrevKey)

Spec == Init /\ [][Next]_vars

\* Table::InternalGet with SaveValue: the entry of u that a reader of sequence s finds.
InternalGet(u, s) ==
    LET k == u \o <<s>>
        i == IterSeek(index, NewIter(index), k)
        n == Value(index, i)
        it == IterSeek(blocks[n], NewIter(blocks[n]), k)
    IN  IF ~Valid(index, i) THEN [found |-> <<>>, ok |-> TRUE]
        ELSE IF n \in bad THEN [found |-> <<>>, ok |-> FALSE]
        ELSE [found |-> IF Valid(blocks[n], it) /\ UserKey(it.key) = u THEN it.key
                        ELSE <<>>,
              ok |-> TRUE]

----------------------------------------------------------------------------
(* Properties. *)

\* The types of the builder, the blocks and the iterator.
TypeOK ==
    /\ pending => block = Empty /\ blocks # <<>>
    /\ Len(index.entries) = Len(blocks) - (IF pending THEN 1 ELSE 0)
    /\ iter.number \in 0 .. Len(blocks) /\ bad \subseteq 1 .. Len(blocks)
    /\ iter.error \in BOOLEAN /\ skipped \in BOOLEAN

\* Wherever the iterator is sent, over the restart points of a block and from block to
\* block, either way and across blocks it cannot read, it is at the next key there is.
ReadsInOrder ==
    closed => IF expected = <<>> THEN ~OnData(iter)
              ELSE OnData(iter) /\ iter.data.key = expected

\* It passes over no key in silence: when it left one out its status says so.
SkipsAreTold == closed /\ skipped => iter.error \/ Broken(iter)

\* A lookup finds the newest entry of its key as of its sequence number, in the one block
\* the index names, though the index keys are shortened; and it never takes an entry it
\* cannot read for one that is not there.
LookupsFind ==
    closed => \A u \in UserKeys, s \in Sequences :
        LET newest == FirstOf({k \in Added : UserKey(k) = u /\ Tag(k) <= s})
        IN  IF newest = <<>> THEN InternalGet(u, s).found = <<>>
            ELSE IF newest \in Readable THEN InternalGet(u, s).found = newest
            ELSE ~InternalGet(u, s).ok
=============================================================================
