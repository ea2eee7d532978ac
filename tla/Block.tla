------------------------------- MODULE Block --------------------------------
(***************************************************************************)
(* A block of a LevelDB table: how BlockBuilder (table/block_builder.cc)   *)
(* writes a sorted run of keys, each as what it does not share with the    *)
(* one before, but for the restart points, and how Block::Iter             *)
(* (table/block.cc) finds its way in it.                                   *)
(*                                                                         *)
(* The bytes of an internal key are those of the user key and, standing    *)
(* for the eight of its tag, its sequence number.  An entry's offset is    *)
(* its number.                                                             *)
(***************************************************************************)
EXTENDS Integers, SequencesExt

LeastOf(S) == CHOOSE n \in S : \A m \in S : n <= m
GreatestOf(S) == CHOOSE n \in S : \A m \in S : n >= m

\* How many bytes a and b begin with in common.
Shared(a, b) ==
    GreatestOf({n \in 0 .. Len(a) : n <= Len(b) /\ SubSeq(a, 1, n) = SubSeq(b, 1, n)})

\* Slice::compare, and InternalKeyComparator::Compare: the newest entry of a key first.
BytesBefore(a, b) ==
    LET n == Shared(a, b)
    IN  n < Len(b) /\ (n < Len(a) => a[n + 1] < b[n + 1])
UserKey(k) == Front(k)
Tag(k) == Last(k)
Before(a, b) ==
    \/ BytesBefore(UserKey(a), UserKey(b))
    \/ UserKey(a) = UserKey(b) /\ Tag(a) > Tag(b)

----------------------------------------------------------------------------
(* BlockBuilder. *)

Empty == [entries |-> <<>>, restarts |-> <<1>>, counter |-> 0, last_key |-> <<>>]

Add(b, key, value, interval) ==
    LET restart == b.counter >= interval
        n == IF restart THEN 0 ELSE Shared(b.last_key, key)
    IN  [entries |-> Append(b.entries,
            [shared |-> n, delta |-> SubSeq(key, n + 1, Len(key)), value |-> value]),
         restarts |-> IF restart THEN Append(b.restarts, Len(b.entries) + 1)
                                 ELSE b.restarts,
         counter |-> IF restart THEN 1 ELSE b.counter + 1,
         last_key |-> key]

----------------------------------------------------------------------------
(* Block::Iter. *)

\* next is where value_ ends.
NewIter(b) == [current |-> Len(b.entries) + 1, restart |-> Len(b.restarts) + 1,
               key |-> <<>>, next |-> 1]
Valid(b, it) == it.current <= Len(b.entries)
Value(b, it) == b.entries[it.current].value

SeekToRestartPoint(b, it, j) ==
    [it EXCEPT !.key = <<>>, !.restart = j, !.next = b.restarts[j]]

\* The end of the block, or an entry that does not fit to the key before.
ParseNextKey(b, it) ==
    IF it.next > Len(b.entries) \/ Len(it.key) < b.entries[it.next].shared
    THEN [it EXCEPT !.current = Len(b.entries) + 1, !.restart = Len(b.restarts) + 1]
    ELSE LET e == b.entries[it.next]
             passed == {j \in it.restart + 1 .. Len(b.restarts) : b.restarts[j] < it.next}
         IN  [current |-> it.next,
              restart |-> GreatestOf({it.restart} \cup passed),
              key |-> SubSeq(it.key, 1, e.shared) \o e.delta,
              next |-> it.next + 1]

\* What is at it, and after it, up to the end.
From(b, it) ==
    LET f[n \in Nat] == IF n = 0 THEN it ELSE ParseNextKey(b, f[n - 1])
    IN  [n \in 1 .. Len(b.entries) + 1 |-> f[n]]

IterNext(b, it) == ParseNextKey(b, it)

\* Parsing goes on from the restart point before until an entry ends where this one began.
IterPrev(b, it) ==
    LET before == {j \in 1 .. it.restart : b.restarts[j] < it.current}
        run == From(b, SeekToRestartPoint(b, it, GreatestOf(before)))
    IN  IF before = {} THEN [it EXCEPT !.current = Len(b.entries) + 1,
                                       !.restart = Len(b.restarts) + 1]
        ELSE run[LeastOf({n \in DOMAIN run :
                             ~Valid(b, run[n]) \/ run[n].next >= it.current})]

\* The binary search: the last restart point with a key before the target, or the first.
LastRestartBefore(b, target) ==
    LET search[l, r \in 1 .. Len(b.restarts)] ==
            IF l >= r THEN l
            ELSE LET mid == (l + r + 1) \div 2
                 IN  IF Before(b.entries[b.restarts[mid]].delta, target)
                     THEN search[mid, r] ELSE search[l, mid - 1]
    IN  search[1, Len(b.restarts)]

IterSeek(b, it, target) ==
    LET run == From(b, SeekToRestartPoint(b, it, LastRestartBefore(b, target)))
    IN  run[LeastOf({n \in DOMAIN run : ~Valid(b, run[n]) \/ ~Before(run[n].key, target)})]

IterFirst(b, it) == ParseNextKey(b, SeekToRestartPoint(b, it, 1))

IterLast(b, it) ==
    LET run == From(b, SeekToRestartPoint(b, it, Len(b.restarts)))
    IN  run[LeastOf({n \in DOMAIN run : ~Valid(b, run[n]) \/ run[n].next > Len(b.entries)})]
=============================================================================
