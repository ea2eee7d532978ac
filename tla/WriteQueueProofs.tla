-------------------------- MODULE WriteQueueProofs --------------------------
(***************************************************************************)
(* Theorems about WriteQueue, for any threads, batch and buffer sizes.     *)
(***************************************************************************)
EXTENDS WriteQueue, SequenceTheorems, FiniteSetTheorems, TLAPS

-----------------------------------------------------------------------------
(* The invariant.                                                          *)

QueueTypes ==
    /\ queue \in Seq(Threads) /\ IsInjective(queue)
    /\ pc \in [Threads -> {"idle", "queued", "slow", "logging", "syncing", "inserting",
                           "imm", "manual", "returned"}]
    /\ status \in [Threads -> {"none", "ok", "error"}]
    /\ members \in Nat /\ members <= Len(queue)
    /\ inserted \in Nat /\ lastSequence \in Nat

FlagTypes ==
    /\ asleep \subseteq Threads
    /\ force \in BOOLEAN /\ delay \in BOOLEAN /\ hasImm \in BOOLEAN
    /\ bgError \in BOOLEAN /\ shuttingDown \in BOOLEAN
    /\ l0 \in 0 .. Stop
    /\ bg \in {"idle", "scheduled", "flush", "merge", "crashed"}
    /\ bgManual \in Compactors \cup {None} /\ manual \in Compactors \cup {None}
    /\ manualDone \subseteq Compactors

StoreTypes ==
    /\ mem \subseteq Entries /\ imm \subseteq Entries /\ tables \subseteq Entries
    /\ log \subseteq Writers /\ oldLog \subseteq Writers /\ synced \subseteq Writers

Writing == {"logging", "syncing", "inserting"}

\* Who is in the queue has no status yet and waits for its turn, and only the
\* first one is further than that.
Lined ==
    /\ \A i \in 1 .. Len(queue) :
          /\ status[queue[i]] = "none"
          /\ pc[queue[i]] \in {"queued", "slow"} \cup Writing
    /\ OneLogger
    /\ \A t \in Threads : pc[t] = "idle" => status[t] = "none"

\* A group is written as long as the first one writes, who is a writer, and one
\* with sync if there is any such in the group.
Grouped ==
    /\ members # 0 => /\ pc[Head(queue)] \in Writing /\ Head(queue) \in Writers
                      /\ \A i \in 2 .. members : queue[i] \in Sync => Head(queue) \in Sync
    /\ \A t \in Threads : pc[t] \in Writing => members # 0
    /\ inserted # 0 => pc[Head(queue)] = "inserting"
    /\ inserted <= BatchSize * Cardinality(Batches)

\* Each batch that was decided took its numbers, at most.
Counted ==
    lastSequence <= BatchSize * Cardinality({w \in Writers : status[w] # "none"})

\* CompactRange goes on after its call of Write, and nobody else does.
Compacting == \A t \in Threads : pc[t] \in {"imm", "manual"} => t \in Compactors

\* There is room at level 0 for the memtable that is to be written out.
Memtables == IF hasImm THEN l0 < Stop ELSE imm = {}

\* What is stored is in the logs, and synced where somebody was promised so.
Logged ==
    /\ LogCovers /\ SyncKept
    /\ \A e \in Stored : e.seq <= lastSequence + inserted

\* What of the group is in the log, and synced.
GroupLogged ==
    /\ members # 0 /\ pc[Head(queue)] \in {"syncing", "inserting"} => Group \subseteq log
    /\ members # 0 /\ pc[Head(queue)] = "inserting" /\ Head(queue) \in Sync
          => Group \subseteq synced

EntriesOf(w) == {e \in Stored : e.of = w}
Numbered(w, S) == {[of |-> w, seq |-> s] : s \in S}

\* The numbers of the i-th place of the group.
Numbers(i) ==
    {lastSequence + k : k \in (Before(i) * BatchSize + 1) .. (Before(i) + 1) * BatchSize}

\* A batch that succeeded is stored whole and with numbers of its own, one that is being
\* written as far as the insertion has got, and others not at all.
Applied ==
    \A w \in Writers : status[w] = "ok" =>
        \E b \in Nat : /\ EntriesOf(w) = Numbered(w, (b + 1) .. (b + BatchSize))
                       /\ b + BatchSize <= lastSequence
InProgress ==
    \A i \in Batches :
        EntriesOf(queue[i]) =
            Numbered(queue[i], {s \in Numbers(i) : s <= lastSequence + inserted})
Refused ==
    \A w \in Writers : status[w] # "ok" /\ w \notin Group => EntriesOf(w) = {}

LineInv == QueueTypes /\ Lined /\ Grouped
DataInv == StoreTypes /\ Counted /\ Logged /\ GroupLogged /\ Applied /\ InProgress /\ Refused
QueueInv == LineInv /\ Compacting /\ FlagTypes /\ Memtables /\ DataInv

-----------------------------------------------------------------------------
(* The queue.                                                              *)

\* What the types of the queue say of its places.
LEMMA QueueFacts ==
    ASSUME QueueTypes
    PROVE  /\ Len(queue) \in Nat
           /\ \A i \in 1 .. Len(queue) : queue[i] \in Threads
           /\ \A i, j \in 1 .. Len(queue) : queue[i] = queue[j] => i = j
           /\ queue # <<>> => Len(queue) > 0
           /\ Len(queue) > 0 => queue # <<>> /\ Head(queue) = queue[1]
<1>1. queue \in Seq(Threads) /\ IsInjective(queue)
  BY DEF QueueTypes
<1>2. Len(queue) \in Nat /\ DOMAIN queue = 1 .. Len(queue)
  BY <1>1, LenProperties
<1>3. \A i \in 1 .. Len(queue) : queue[i] \in Threads
  BY <1>1, ElementOfSeq
<1>4. queue # <<>> => Len(queue) > 0
  BY <1>1, <1>2, EmptySeq
<1>5. Len(queue) > 0 => queue # <<>> /\ Head(queue) = queue[1]
  <2> SUFFICES ASSUME Len(queue) > 0
               PROVE  queue # <<>> /\ Head(queue) = queue[1]
    OBVIOUS
  <2>1. queue # <<>>
    BY <1>1, EmptySeq
  <2> QED
    BY <1>1, <2>1, HeadTailProperties
<1>6. \A i, j \in 1 .. Len(queue) : queue[i] = queue[j] => i = j
  BY <1>1, <1>2 DEF IsInjective
<1> QED
  BY <1>2, <1>3, <1>4, <1>5, <1>6

\* What is left of the queue when the first n are done.
LEMMA Popped ==
    ASSUME QueueTypes, NEW n \in 1 .. Len(queue),
           queue' = SubSeq(queue, n + 1, Len(queue))
    PROVE  /\ queue' \in Seq(Threads) /\ IsInjective(queue')
           /\ Len(queue') = Len(queue) - n
           /\ \A i \in 1 .. Len(queue') : n + i \in 1 .. Len(queue) /\ queue'[i] = queue[n + i]
<1>1. /\ Len(queue) \in Nat /\ \A i \in 1 .. Len(queue) : queue[i] \in Threads
      /\ \A i, j \in 1 .. Len(queue) : queue[i] = queue[j] => i = j
  BY QueueFacts
<1>2. \A i \in (n + 1) .. Len(queue) : queue[i] \in Threads
  BY <1>1
<1>3. n + 1 \in Int /\ Len(queue) \in Int
  BY <1>1
<1>4. /\ queue' \in Seq(Threads)
      /\ Len(queue') = IF n + 1 <= Len(queue) THEN Len(queue) - (n + 1) + 1 ELSE 0
      /\ \A i \in 1 .. Len(queue) - (n + 1) + 1 : queue'[i] = queue[n + 1 + i - 1]
  BY <1>2, <1>3, SubSeqProperties
<1>5. Len(queue') = Len(queue) - n
  BY <1>1, <1>4
<1>6. \A i \in 1 .. Len(queue') : n + i \in 1 .. Len(queue) /\ queue'[i] = queue[n + i]
  <2> TAKE i \in 1 .. Len(queue')
  <2>1. i \in 1 .. Len(queue) - (n + 1) + 1 /\ n + 1 + i - 1 = n + i /\ n + i \in 1 .. Len(queue)
    BY <1>1, <1>5
  <2>2. queue'[i] = queue[n + 1 + i - 1]
    BY <1>4, <2>1
  <2> QED
    BY <2>1, <2>2
<1>7. DOMAIN queue' = 1 .. Len(queue')
  BY <1>4, LenProperties
<1>8. \A i, j \in 1 .. Len(queue') : queue'[i] = queue'[j] => i = j
  BY <1>1, <1>5, <1>6
<1> QED
  BY <1>4, <1>5, <1>6, <1>7, <1>8 DEF IsInjective

\* A thread that is idle comes last.
LEMMA Queued ==
    ASSUME LineInv, NEW t \in Threads, Write(t)
    PROVE  /\ queue' \in Seq(Threads) /\ IsInjective(queue')
           /\ Len(queue') = Len(queue) + 1
           /\ \A i \in 1 .. Len(queue) : queue'[i] = queue[i]
           /\ queue'[Len(queue) + 1] = t
           /\ \A i \in 1 .. Len(queue) : queue[i] # t
<1>1. /\ Len(queue) \in Nat /\ \A i \in 1 .. Len(queue) : queue[i] \in Threads
      /\ \A i, j \in 1 .. Len(queue) : queue[i] = queue[j] => i = j
  BY QueueFacts DEF LineInv
<1>2. queue \in Seq(Threads)
  BY DEF LineInv, QueueTypes
<1>3. queue' = Append(queue, t) /\ pc[t] = "idle"
  BY DEF Write
<1>4. /\ queue' \in Seq(Threads) /\ Len(queue') = Len(queue) + 1
      /\ \A i \in 1 .. Len(queue) : queue'[i] = queue[i]
      /\ queue'[Len(queue) + 1] = t
  BY <1>2, <1>3, AppendProperties
<1>5. \A i \in 1 .. Len(queue) : queue[i] # t
  BY <1>3 DEF LineInv, Lined, Writing
<1>6. DOMAIN queue' = 1 .. Len(queue')
  BY <1>4, LenProperties
<1>7. \A i, j \in 1 .. Len(queue') : queue'[i] = queue'[j] => i = j
  <2> SUFFICES ASSUME NEW i \in 1 .. (Len(queue) + 1), NEW j \in 1 .. (Len(queue) + 1),
                      queue'[i] = queue'[j]
               PROVE  i = j
    BY <1>4
  <2>1. CASE i \in 1 .. Len(queue) /\ j \in 1 .. Len(queue)
    BY <1>1, <1>4, <2>1
  <2>2. CASE i = Len(queue) + 1 \/ j = Len(queue) + 1
    BY <1>1, <1>4, <1>5, <2>2
  <2> QED
    BY <1>1, <2>1, <2>2
<1> QED
  BY <1>4, <1>5, <1>6, <1>7 DEF IsInjective

-----------------------------------------------------------------------------
(* The group.                                                              *)

\* Less times the same is less.
LEMMA Times ==
    ASSUME NEW a \in Nat, NEW b \in Nat, a <= b
    PROVE  /\ a * BatchSize \in Nat /\ a * BatchSize <= b * BatchSize
           /\ a * BatchSize = BatchSize * a
           /\ (a + 1) * BatchSize = a * BatchSize + BatchSize
<1>1. BatchSize \in Nat
  BY WriteQueueAssumption
<1> QED
  BY <1>1

\* Where a number of a group falls.
LEMMA Share ==
    ASSUME NEW a \in Nat, NEW k \in Nat, k \div BatchSize = a
    PROVE  a * BatchSize <= k /\ k < (a + 1) * BatchSize
<1>1. BatchSize \in Nat \ {0}
  BY WriteQueueAssumption
<1> QED
  BY <1>1

\* The places of a group.
LEMMA BatchFacts ==
    ASSUME QueueTypes
    PROVE  /\ IsFiniteSet(Batches) /\ Cardinality(Batches) \in Nat
           /\ \A i \in Batches : /\ i \in 1 .. members /\ i \in 1 .. Len(queue)
                                 /\ queue[i] \in Writers
                                 /\ Before(i) \in Nat /\ Before(i) + 1 <= Cardinality(Batches)
           /\ \A i, j \in Batches : i < j => Before(i) + 1 <= Before(j)
           /\ Cardinality(Batches) <= members
<1>1. members \in Nat /\ members <= Len(queue) /\ Len(queue) \in Nat
  BY QueueFacts DEF QueueTypes
<1>2. IsFiniteSet(1 .. members) /\ Cardinality(1 .. members) = members
  BY <1>1, FS_Interval
<1>3. Batches \in SUBSET (1 .. members)
  BY DEF Batches
<1>4. IsFiniteSet(Batches) /\ Cardinality(Batches) <= members /\ Cardinality(Batches) \in Nat
  BY <1>2, <1>3, FS_Subset, FS_CardinalityType
<1>5. ASSUME NEW i \in Batches
      PROVE  /\ Before(i) \in Nat /\ Before(i) + 1 <= Cardinality(Batches)
             /\ IsFiniteSet({j \in Batches : j < i})
             /\ Cardinality({j \in Batches : j < i} \cup {i}) = Before(i) + 1
  <2> DEFINE S == {j \in Batches : j < i}
  <2>1. S \in SUBSET Batches /\ i \in 1 .. members /\ i \notin S
    BY <1>3
  <2>2. IsFiniteSet(S)
    BY <1>4, <2>1, FS_Subset
  <2>3. Cardinality(S) \in Nat
    BY <2>2, FS_CardinalityType
  <2>4. Cardinality(S \cup {i}) = Cardinality(S) + 1
    BY <2>1, <2>2, FS_AddElement
  <2>5. (S \cup {i}) \in SUBSET Batches
    BY <2>1
  <2>6. Cardinality(S \cup {i}) <= Cardinality(Batches)
    BY <1>4, <2>5, FS_Subset
  <2> QED
    BY <2>2, <2>3, <2>4, <2>6 DEF Before
<1>6. ASSUME NEW i \in Batches, NEW j \in Batches, i < j
      PROVE  Before(i) + 1 <= Before(j)
  <2> DEFINE S == {k \in Batches : k < i} \cup {i}
             T == {k \in Batches : k < j}
  <2>0. \A k \in Batches : k \in Int
    BY <1>1, <1>3
  <2>1. S \in SUBSET T
    <3> SUFFICES ASSUME NEW k \in S
                 PROVE  k \in T
      OBVIOUS
    <3>1. k \in Batches /\ (k < i \/ k = i)
      OBVIOUS
    <3>2. k < j
      BY <1>6, <2>0, <3>1
    <3> QED
      BY <3>1, <3>2
  <2>2. IsFiniteSet(T) /\ Cardinality(T) = Before(j) /\ Cardinality(S) = Before(i) + 1
    BY <1>5 DEF Before
  <2> HIDE DEF S, T
  <2>3. Cardinality(S) <= Cardinality(T)
    BY <2>1, <2>2, FS_Subset
  <2> QED
    BY <2>2, <2>3
<1>7. \A i \in Batches : i \in 1 .. members /\ i \in 1 .. Len(queue) /\ queue[i] \in Writers
  BY <1>1 DEF Batches
<1> QED
  BY <1>4, <1>5, <1>6, <1>7

\* Each place has a writer of its own, which has no status yet.
LEMMA GroupFacts ==
    ASSUME LineInv
    PROVE  /\ IsFiniteSet(Group) /\ Cardinality(Group) = Cardinality(Batches)
           /\ \A w \in Group : w \in Writers /\ status[w] = "none"
<1>1. /\ IsFiniteSet(Batches)
      /\ \A i \in Batches : i \in 1 .. Len(queue) /\ queue[i] \in Writers
  BY BatchFacts DEF LineInv
<1>2. \A i, j \in 1 .. Len(queue) : queue[i] = queue[j] => i = j
  BY QueueFacts DEF LineInv
<1> DEFINE f == [i \in Batches |-> queue[i]]
<1>3. f \in Bijection(Batches, Group)
  <2>1. f \in [Batches -> Group]
    BY DEF Group
  <2>2. \A i, j \in Batches : f[i] = f[j] => i = j
    BY <1>1, <1>2
  <2>3. \A w \in Group : \E i \in Batches : f[i] = w
    BY DEF Group
  <2> QED
    BY <2>1, <2>2, <2>3 DEF Bijection, Injection, Surjection, IsInjective
<1>4. ExistsBijection(Batches, Group)
  BY <1>3 DEF ExistsBijection
<1>5. IsFiniteSet(Group) /\ Cardinality(Group) = Cardinality(Batches)
  BY <1>1, <1>4, FS_Bijection
<1> QED
  BY <1>1, <1>5 DEF Group, LineInv, Lined

-----------------------------------------------------------------------------
(* The queue, step by step.                                                *)

\* The states of a call in the queue, and of one that is not.
In == {"queued", "slow"} \cup Writing
Out == {"imm", "manual", "returned"}

\* The first of the queue.
LEMMA First ==
    ASSUME LineInv, NEW t \in Threads, queue # <<>>, t = Head(queue)
    PROVE  /\ 1 \in 1 .. Len(queue) /\ queue[1] = t
           /\ \A i \in 2 .. Len(queue) : i \in 1 .. Len(queue) /\ queue[i] # t
           /\ status[t] = "none" /\ pc[t] \in In
<1>1. Len(queue) \in Nat /\ Len(queue) > 0 /\ queue[1] = t
  BY QueueFacts DEF LineInv
<1>2. 1 \in 1 .. Len(queue)
  BY <1>1
<1>3. \A i, j \in 1 .. Len(queue) : queue[i] = queue[j] => i = j
  BY QueueFacts DEF LineInv
<1>4. \A i \in 2 .. Len(queue) : i \in 1 .. Len(queue) /\ i # 1
  BY <1>1
<1> QED
  BY <1>1, <1>2, <1>3, <1>4 DEF LineInv, Lined, In

\* Whoever is at work is the first.
LEMMA Working ==
    ASSUME LineInv, NEW t \in Threads, pc[t] \in {"slow"} \cup Writing
    PROVE  queue # <<>> /\ t = Head(queue)
BY DEF LineInv, Lined, OneLogger, Writing

\* Without a group nothing is inserted.
LEMMA Nothing ==
    ASSUME LineInv, members = 0
    PROVE  Batches = {} /\ Group = {} /\ inserted = 0
<1>1. Batches = {} /\ Group = {}
  BY DEF Batches, Group
<1>2. Cardinality(Batches) = 0
  BY <1>1, FS_EmptySet
<1> QED
  BY <1>1, <1>2, WriteQueueAssumption DEF LineInv, Grouped, QueueTypes

\* Nobody is in a group when the first is not writing.
LEMMA NoGroup ==
    ASSUME LineInv, NEW t \in Threads, queue # <<>>, t = Head(queue), pc[t] \notin Writing
    PROVE  members = 0 /\ inserted = 0 /\ Batches = {} /\ Group = {}
<1>1. members = 0
  BY DEF LineInv, Grouped
<1> QED
  BY <1>1, Nothing

\* A group that stays is a group.
LEMMA SameGroup ==
    ASSUME members' = members, \A i \in 1 .. members : queue'[i] = queue[i]
    PROVE  /\ Batches' = Batches /\ Group' = Group
           /\ \A i \in Batches : queue'[i] = queue[i]
           /\ \A i : Before(i)' = Before(i)
<1>1. Batches' = Batches
  BY DEF Batches
<1>2. \A i \in Batches : queue'[i] = queue[i]
  BY DEF Batches
<1>3. Group' = Group
  BY <1>1, <1>2 DEF Group
<1> QED
  BY <1>1, <1>2, <1>3 DEF Before

\* Write puts a thread at the end.
LEMMA WriteLine ==
    ASSUME LineInv, NEW t \in Threads, Write(t)
    PROVE  LineInv'
<1>1. /\ queue' \in Seq(Threads) /\ IsInjective(queue')
      /\ Len(queue') = Len(queue) + 1 /\ Len(queue) \in Nat
      /\ \A i \in 1 .. Len(queue) : queue'[i] = queue[i] /\ queue[i] # t
      /\ queue'[Len(queue) + 1] = t
  BY Queued, QueueFacts DEF LineInv
<1>2. /\ pc[t] = "idle" /\ pc' = [pc EXCEPT ![t] = "queued"]
      /\ UNCHANGED <<status, members, inserted, lastSequence>>
  BY DEF Write
<1>3. /\ pc \in [Threads -> {"idle", "queued", "slow", "logging", "syncing", "inserting",
                             "imm", "manual", "returned"}]
      /\ status \in [Threads -> {"none", "ok", "error"}]
      /\ members \in Nat /\ members <= Len(queue)
      /\ inserted \in Nat /\ lastSequence \in Nat
  BY DEF LineInv, QueueTypes
<1>4. QueueTypes'
  <2>1. pc' \in [Threads -> {"idle", "queued", "slow", "logging", "syncing", "inserting",
                             "imm", "manual", "returned"}]
    BY <1>2, <1>3
  <2>2. members' <= Len(queue')
    BY <1>1, <1>2, <1>3
  <2> QED
    BY <1>1, <1>2, <1>3, <2>1, <2>2 DEF QueueTypes
<1>5. queue # <<>> => Len(queue) > 0 /\ queue' # <<>> /\ Head(queue') = Head(queue)
  <2> SUFFICES ASSUME queue # <<>>
               PROVE  Len(queue) > 0 /\ queue' # <<>> /\ Head(queue') = Head(queue)
    OBVIOUS
  <2>1. Len(queue) > 0 /\ Head(queue) = queue[1]
    BY QueueFacts DEF LineInv
  <2>2. queue' # <<>> /\ Head(queue') = queue'[1]
    <3>1. Len(queue') > 0
      BY <1>1
    <3>2. queue' # <<>>
      BY <1>1, <3>1, EmptySeq
    <3> QED
      BY <1>1, <3>2, HeadTailProperties
  <2> QED
    BY <1>1, <2>1, <2>2
<1>6. \A u \in Threads : u # t => pc'[u] = pc[u]
  BY <1>2, <1>3
<1>7. pc'[t] = "queued"
  BY <1>2, <1>3
<1>8. Lined'
  <2>1. ASSUME NEW i \in 1 .. Len(queue')
        PROVE  status'[queue'[i]] = "none" /\ pc'[queue'[i]] \in {"queued", "slow"} \cup Writing
    <3>1. CASE i \in 1 .. Len(queue)
      <4>1. queue'[i] = queue[i] /\ queue[i] # t /\ queue[i] \in Threads
        BY <1>1, <3>1, QueueFacts DEF LineInv
      <4> QED
        BY <1>2, <1>6, <3>1, <4>1 DEF LineInv, Lined
    <3>2. CASE i = Len(queue) + 1
      BY <1>1, <1>2, <1>7, <3>2 DEF LineInv, Lined
    <3> QED
      BY <1>1, <3>1, <3>2
  <2>2. OneLogger'
    BY <1>5, <1>6, <1>7 DEF LineInv, Lined, OneLogger
  <2>3. \A u \in Threads : pc'[u] = "idle" => status'[u] = "none"
    BY <1>2, <1>6, <1>7 DEF LineInv, Lined
  <2> QED
    BY <2>1, <2>2, <2>3 DEF Lined
<1>9. Grouped'
  <2>1. \A i \in 1 .. members : i \in 1 .. Len(queue)
    BY <1>1, <1>3
  <2>2. \A i \in 2 .. members : i \in 1 .. members
    BY <1>3
  <2>3. Batches' = Batches
    BY <1>1, <1>2, <2>1, SameGroup
  <2>4. members # 0 => queue # <<>>
    BY <1>1, <1>3, EmptySeq DEF LineInv, QueueTypes
  <2>5. queue # <<>> => Head(queue) # t /\ Head(queue) \in Threads
    <3>1. queue # <<>> => 1 \in 1 .. Len(queue) /\ Head(queue) = queue[1]
      BY QueueFacts, <1>1 DEF LineInv
    <3> QED
      BY <1>1, <3>1, QueueFacts DEF LineInv
  <2>6. members # 0 => pc'[Head(queue')] \in Writing /\ Head(queue') \in Writers
    BY <1>5, <1>6, <2>4, <2>5 DEF LineInv, Grouped
  <2>7. members # 0 =>
           \A i \in 2 .. members : queue'[i] \in Sync => Head(queue') \in Sync
    BY <1>1, <1>5, <2>1, <2>2, <2>4 DEF LineInv, Grouped
  <2>8. inserted # 0 => members # 0
    BY Nothing
  <2> QED
    BY <1>2, <1>5, <1>6, <1>7, <2>3, <2>4, <2>5, <2>6, <2>7, <2>8
       DEF LineInv, Grouped, Writing
<1> QED
  BY <1>4, <1>8, <1>9 DEF LineInv

\* A call outside the queue goes on.
LEMMA AsideLine ==
    ASSUME LineInv, NEW t \in Threads, NEW x \in Out,
           pc[t] \in Out \/ status[t] # "none", pc[t] # "idle",
           pc' = [pc EXCEPT ![t] = x],
           UNCHANGED <<queue, status, members, inserted, lastSequence>>
    PROVE  LineInv'
<1>1. pc \in [Threads -> {"idle", "queued", "slow", "logging", "syncing", "inserting",
                          "imm", "manual", "returned"}]
  BY DEF LineInv, QueueTypes
<1>2. \A i \in 1 .. Len(queue) : queue[i] # t /\ queue[i] \in Threads
  BY QueueFacts DEF LineInv, Lined, Out, Writing
<1>3. \A u \in Threads : u # t => pc'[u] = pc[u]
  BY <1>1
<1>4. pc'[t] = x /\ x \notin {"idle", "slow"} \cup Writing
  BY <1>1 DEF Out, Writing
<1>5. queue # <<>> => Head(queue) # t /\ Head(queue) \in Threads
  <2>1. queue # <<>> => 1 \in 1 .. Len(queue) /\ Head(queue) = queue[1]
    BY QueueFacts DEF LineInv
  <2> QED
    BY <1>2, <2>1
<1>6. members # 0 => queue # <<>>
  BY EmptySeq DEF LineInv, QueueTypes
<1>7. QueueTypes'
  <2>1. pc' \in [Threads -> {"idle", "queued", "slow", "logging", "syncing", "inserting",
                             "imm", "manual", "returned"}]
    BY <1>1 DEF Out
  <2> QED
    BY <2>1 DEF LineInv, QueueTypes
<1>8. Lined'
  BY <1>2, <1>3, <1>4 DEF LineInv, Lined, OneLogger, Writing
<1>9. Grouped'
  <2>1. Batches' = Batches
    BY SameGroup
  <2>2. inserted # 0 => members # 0
    BY Nothing
  <2> QED
    BY <1>3, <1>4, <1>5, <1>6, <2>1, <2>2 DEF LineInv, Grouped
<1> QED
  BY <1>7, <1>8, <1>9 DEF LineInv

\* The first of the queue goes on.
LEMMA HeadLine ==
    ASSUME LineInv, NEW t \in Threads, queue # <<>>, t = Head(queue),
           NEW x \in In, pc' = [pc EXCEPT ![t] = x],
           x \in Writing <=> members' # 0,
           x # "inserting" => inserted' = 0,
           members' \in Nat, members' <= Len(queue),
           inserted' \in Nat, inserted' <= BatchSize * Cardinality(Batches'),
           members' # 0 => /\ t \in Writers
                           /\ \A i \in 2 .. members' : queue[i] \in Sync => t \in Sync,
           UNCHANGED <<queue, status, lastSequence>>
    PROVE  LineInv'
<1>1. pc \in [Threads -> {"idle", "queued", "slow", "logging", "syncing", "inserting",
                          "imm", "manual", "returned"}]
  BY DEF LineInv, QueueTypes
<1>2. status[t] = "none" /\ \A i \in 1 .. Len(queue) : queue[i] \in Threads
  BY First, QueueFacts DEF LineInv
<1>3. \A u \in Threads : u # t => pc'[u] = pc[u]
  BY <1>1
<1>4. pc'[t] = x
  BY <1>1
<1>5. QueueTypes'
  <2>1. pc' \in [Threads -> {"idle", "queued", "slow", "logging", "syncing", "inserting",
                             "imm", "manual", "returned"}]
    BY <1>1 DEF In, Writing
  <2> QED
    BY <2>1 DEF LineInv, QueueTypes
<1>6. Lined'
  <2>1. \A i \in 1 .. Len(queue) : pc'[queue[i]] \in In
    BY <1>2, <1>3, <1>4 DEF LineInv, Lined, In
  <2>2. OneLogger'
    BY <1>3 DEF LineInv, Lined, OneLogger
  <2>3. \A u \in Threads : pc'[u] = "idle" => status'[u] = "none"
    BY <1>2, <1>3 DEF LineInv, Lined
  <2> QED
    BY <2>1, <2>2, <2>3 DEF LineInv, Lined, In
<1>7. Grouped'
  <2>1. \A u \in Threads : pc'[u] \in Writing => members' # 0
    <3>1. \A u \in Threads : u # t => pc[u] \notin Writing
      BY Working
    <3> QED
      BY <1>3, <1>4, <3>1
  <2> QED
    BY <1>4, <2>1 DEF Grouped
<1> QED
  BY <1>5, <1>6, <1>7 DEF LineInv

\* The first n are done.
LEMMA FinishLine ==
    ASSUME LineInv, NEW n \in 1 .. Len(queue), NEW s \in {"ok", "error"}, NEW others,
           Finish(n, s, others), lastSequence' \in Nat
    PROVE  LineInv'
<1>1. /\ queue' \in Seq(Threads) /\ IsInjective(queue')
      /\ Len(queue') = Len(queue) - n /\ Len(queue) \in Nat
      /\ \A i \in 1 .. Len(queue') : n + i \in 1 .. Len(queue) /\ queue'[i] = queue[n + i]
  BY Popped, QueueFacts DEF LineInv, Finish
<1>2. /\ pc' = [pc EXCEPT ![Head(queue)] = Returned(Head(queue))]
      /\ status' = [u \in Threads |-> IF \E i \in 1 .. n : queue[i] = u THEN s ELSE status[u]]
      /\ members' = 0 /\ inserted' = 0
  BY DEF Finish
<1>3. /\ pc \in [Threads -> {"idle", "queued", "slow", "logging", "syncing", "inserting",
                             "imm", "manual", "returned"}]
      /\ status \in [Threads -> {"none", "ok", "error"}]
  BY DEF LineInv, QueueTypes
<1>4. queue # <<>> /\ Head(queue) = queue[1] /\ Head(queue) \in Threads
  BY <1>1, QueueFacts DEF LineInv
<1>5. Returned(Head(queue)) \in Out
  BY DEF Returned, Out
<1>6. \A u \in Threads : u # Head(queue) => pc'[u] = pc[u] /\ pc[u] \notin {"slow"} \cup Writing
  BY <1>2, <1>3, Working
<1>7. pc'[Head(queue)] \in Out
  BY <1>2, <1>3, <1>4, <1>5
<1>8. QueueTypes'
  <2>1. pc' \in [Threads -> {"idle", "queued", "slow", "logging", "syncing", "inserting",
                             "imm", "manual", "returned"}]
    BY <1>2, <1>3, <1>4, <1>5 DEF Out
  <2>2. status' \in [Threads -> {"none", "ok", "error"}]
    BY <1>2, <1>3
  <2>3. members' \in Nat /\ members' <= Len(queue') /\ inserted' \in Nat
    BY <1>1, <1>2
  <2> QED
    BY <1>1, <2>1, <2>2, <2>3 DEF QueueTypes
<1>9. Lined'
  <2>1. ASSUME NEW i \in 1 .. Len(queue')
        PROVE  status'[queue'[i]] = "none" /\ pc'[queue'[i]] \in {"queued", "slow"} \cup Writing
    <3>1. n + i \in 1 .. Len(queue) /\ queue'[i] = queue[n + i] /\ queue[n + i] \in Threads
      BY <1>1, QueueFacts DEF LineInv
    <3>2. \A j \in 1 .. n : queue[j] # queue[n + i]
      <4>1. \A j \in 1 .. n : j \in 1 .. Len(queue) /\ j # n + i
        BY <1>1, <3>1
      <4> QED
        BY <3>1, <4>1, QueueFacts DEF LineInv
    <3>3. queue[n + i] # Head(queue)
      BY <1>1, <1>4, <3>2
    <3> QED
      BY <1>2, <1>6, <3>1, <3>2, <3>3 DEF LineInv, Lined
  <2>2. OneLogger'
    BY <1>6, <1>7 DEF OneLogger, Writing, Out
  <2>3. \A u \in Threads : pc'[u] = "idle" => status'[u] = "none"
    <3>1. ASSUME NEW u \in Threads, pc'[u] = "idle"
          PROVE  status'[u] = "none"
      <4>1. pc[u] = "idle" /\ status[u] = "none"
        BY <1>6, <1>7, <3>1 DEF Out, LineInv, Lined
      <4>2. \A i \in 1 .. n : i \in 1 .. Len(queue)
        BY <1>1
      <4>3. \A i \in 1 .. n : queue[i] # u
        BY <4>1, <4>2 DEF LineInv, Lined, Writing
      <4> QED
        BY <1>2, <4>1, <4>3
    <3> QED
      BY <3>1
  <2> QED
    BY <2>1, <2>2, <2>3 DEF Lined
<1>10. Grouped'
  <2>1. \A u \in Threads : pc'[u] \notin Writing
    BY <1>6, <1>7 DEF Out, Writing
  <2>2. Batches' = {} /\ Cardinality(Batches') = 0
    <3>1. Batches' = {}
      BY <1>2 DEF Batches
    <3> QED
      BY <3>1, FS_EmptySet
  <2> QED
    BY <1>2, <2>1, <2>2, WriteQueueAssumption DEF Grouped
<1> QED
  BY <1>8, <1>9, <1>10 DEF LineInv

-----------------------------------------------------------------------------
(* What the steps do to the queue.                                         *)

\* A thread that leads is the first and writes nothing yet.
LEMMA LeadingFirst ==
    ASSUME LineInv, NEW t \in Threads, Leading(t)
    PROVE  /\ queue # <<>> /\ t = Head(queue) /\ 1 \in 1 .. Len(queue)
           /\ members = 0 /\ inserted = 0 /\ Batches = {} /\ Group = {}
<1>1. queue # <<>> /\ t = Head(queue) /\ pc[t] \notin Writing
  BY DEF Leading, Writing
<1> QED
  BY <1>1, First, NoGroup

\* A thread that writes is the first and has a group.
LEMMA WritingFirst ==
    ASSUME LineInv, NEW t \in Threads, pc[t] \in Writing
    PROVE  /\ queue # <<>> /\ t = Head(queue) /\ t \in Writers
           /\ members \in 1 .. Len(queue)
           /\ pc[t] # "inserting" => inserted = 0
<1>1. queue # <<>> /\ t = Head(queue)
  BY Working
<1>2. members # 0
  BY DEF LineInv, Grouped
<1>3. members \in Nat /\ members <= Len(queue) /\ Len(queue) \in Nat
  BY QueueFacts DEF LineInv, QueueTypes
<1>4. members \in 1 .. Len(queue)
  BY <1>2, <1>3
<1> QED
  BY <1>1, <1>2, <1>4 DEF LineInv, Grouped

\* The numbers that the group takes.
LEMMA Sequences ==
    ASSUME LineInv
    PROVE  /\ EndSequence \in Nat /\ lastSequence + inserted <= EndSequence
           /\ EndSequence - lastSequence = BatchSize * Cardinality(Batches)
<1>1. Cardinality(Batches) \in Nat
  BY BatchFacts DEF LineInv
<1>2. BatchSize * Cardinality(Batches) \in Nat
  BY <1>1, WriteQueueAssumption
<1> QED
  BY <1>2 DEF EndSequence, LineInv, Grouped, QueueTypes

\* The steps by which the first one alone is done.
FinishFirst(t) ==
    \/ RoomError(t) \/ RoomFails(t)
    \/ t \in Compactors /\ (RoomThere(t) \/ RoomSwitch(t))

\* They give an error, or are calls of CompactRange; then the memtables may have been switched.
LEMMA FirstDone ==
    ASSUME LineInv, NEW t \in Threads, FinishFirst(t)
    PROVE  /\ Leading(t) /\ lastSequence' = lastSequence
           /\ \/ Finish(1, "error", {}) /\ UNCHANGED <<memory, logs>>
              \/ Finish(1, "ok", {}) /\ t \in Compactors
<1>1. CASE RoomError(t)
  BY <1>1 DEF RoomError, FinishAlone
<1>2. CASE RoomFails(t)
  BY <1>2 DEF RoomFails, FinishAlone
<1>3. CASE t \in Compactors /\ RoomThere(t)
  BY <1>3 DEF RoomThere, GoOn
<1>4. CASE t \in Compactors /\ RoomSwitch(t)
  BY <1>4 DEF RoomSwitch, GoOn
<1> QED
  BY <1>1, <1>2, <1>3, <1>4 DEF FinishFirst

\* The steps by which a group is done.
FinishGroup(t) == AddRecordFails(t) \/ SyncFails(t) \/ WriteDone(t)

\* They take the numbers, and give the whole group one status.
LEMMA GroupDone ==
    ASSUME LineInv, NEW t \in Threads, FinishGroup(t)
    PROVE  /\ pc[t] \in Writing
           /\ lastSequence' = EndSequence
           /\ UNCHANGED <<memory, oldLog, synced>>
           /\ \E others :
                 \/ /\ Finish(members, "error", others) /\ inserted = 0
                    /\ log' \in {log, log \cup Group}
                 \/ /\ Finish(members, "ok", others) /\ pc[t] = "inserting"
                    /\ lastSequence + inserted = EndSequence /\ log' = log
<1>1. CASE AddRecordFails(t)
  <2>1. pc[t] = "logging" /\ inserted = 0
    BY <1>1, WritingFirst DEF AddRecordFails, Writing
  <2> QED
    BY <1>1, <2>1 DEF AddRecordFails, WriteEnds, Writing
<1>2. CASE SyncFails(t)
  <2>1. pc[t] = "syncing" /\ inserted = 0
    BY <1>2, WritingFirst DEF SyncFails, Writing
  <2> QED
    BY <1>2, <2>1 DEF SyncFails, WriteEnds, Writing
<1>3. CASE WriteDone(t)
  <2>1. pc[t] = "inserting" /\ inserted = EndSequence - lastSequence
    BY <1>3 DEF WriteDone
  <2>2. lastSequence + inserted = EndSequence
    BY <2>1, Sequences DEF LineInv, QueueTypes
  <2> QED
    BY <1>3, <2>1, <2>2 DEF WriteDone, WriteEnds, Writing
<1> QED
  BY <1>1, <1>2, <1>3 DEF FinishGroup

\* The steps by which a group is formed.
FormGroup(t) == t \in Writers /\ (RoomThere(t) \/ RoomSwitch(t))

\* They choose how many are written together, and leave the queue as it is.
LEMMA GroupFormed ==
    ASSUME LineInv, NEW t \in Threads, FormGroup(t)
    PROVE  /\ Leading(t) /\ t \in Writers
           /\ members' \in BuildBatchGroup
           /\ pc' = [pc EXCEPT ![t] = "logging"]
           /\ UNCHANGED <<queue, status, inserted, lastSequence>>
<1>1. t \notin Compactors
  BY WriteQueueAssumption DEF FormGroup
<1> QED
  BY <1>1 DEF FormGroup, RoomThere, RoomSwitch, GoOn

\* The steps that leave the queue and its group alone, but for the state of a call.
Beside(t) ==
    \/ WokenDone(t) \/ RoomSlow(t) \/ Slept(t) \/ RoomWait(t)
    \/ AddRecord(t) \/ SyncLog(t) \/ CompactRangeWaits(t) \/ CompactRange(t)

\* These are all.
LEMMA StepCases ==
    ASSUME NEW t \in Threads, Step(t)
    PROVE  FinishFirst(t) \/ FinishGroup(t) \/ FormGroup(t) \/ Beside(t) \/ InsertInto(t)
BY DEF Step, FinishFirst, FinishGroup, FormGroup, Beside, Threads

\* They keep the queue in line.
LEMMA BesideLine ==
    ASSUME LineInv, NEW t \in Threads, Beside(t)
    PROVE  /\ LineInv'
           /\ UNCHANGED <<queue, status, members, inserted, lastSequence>>
           /\ \A u \in Threads : pc[u] = "idle" <=> pc'[u] = "idle"
<1>0. /\ \A x \in {"imm", "manual", "returned"} : x \in Out
      /\ pc \in [Threads -> {"idle", "queued", "slow", "logging", "syncing", "inserting",
                             "imm", "manual", "returned"}]
  BY DEF Out, LineInv, QueueTypes
<1>1. ASSUME UNCHANGED <<queue, pc, status, members, inserted, lastSequence>>
      PROVE  LineInv'
  BY <1>1 DEF LineInv, QueueTypes, Lined, OneLogger, Grouped, Batches
<1>2. CASE WokenDone(t)
  <2>1. /\ Returned(t) \in Out /\ pc[t] = "queued" /\ status[t] # "none"
        /\ pc' = [pc EXCEPT ![t] = Returned(t)]
        /\ UNCHANGED <<queue, status, members, inserted, lastSequence>>
    BY <1>2 DEF WokenDone, Returned, Out, writing
  <2>2. LineInv'
    BY <2>1, AsideLine
  <2> QED
    BY <1>0, <2>1, <2>2 DEF Out
<1>3. CASE CompactRangeWaits(t) \/ CompactRange(t)
  <2>1. /\ UNCHANGED <<queue, status, members, inserted, lastSequence>>
        /\ pc[t] \in Out
        /\ UNCHANGED pc \/ \E x \in Out : pc' = [pc EXCEPT ![t] = x]
    BY <1>3 DEF CompactRangeWaits, CompactRange, writing, Out
  <2>2. CASE UNCHANGED pc
    BY <1>1, <2>1, <2>2
  <2>3. ASSUME NEW x \in Out, pc' = [pc EXCEPT ![t] = x]
        PROVE  LineInv' /\ \A u \in Threads : pc[u] = "idle" <=> pc'[u] = "idle"
    <3>1. pc[t] # "idle" /\ x # "idle"
      BY <2>1 DEF Out
    <3>2. LineInv'
      BY <2>1, <2>3, <3>1, AsideLine
    <3> QED
      BY <1>0, <2>3, <3>1, <3>2
  <2> QED
    BY <2>1, <2>2, <2>3
<1>4. CASE RoomSlow(t) \/ Slept(t)
  <2>1. /\ UNCHANGED <<queue, status, members, inserted, lastSequence>>
        /\ pc[t] \in {"queued", "slow"}
        /\ \E x \in {"queued", "slow"} : pc' = [pc EXCEPT ![t] = x]
    BY <1>4 DEF RoomSlow, Slept, Leading, writing
  <2>2. queue # <<>> /\ t = Head(queue)
    BY <1>4, Working, LeadingFirst DEF RoomSlow, Slept
  <2>3. members = 0 /\ inserted = 0
    BY <2>1, <2>2, NoGroup DEF Writing
  <2>4. PICK x \in {"queued", "slow"} : pc' = [pc EXCEPT ![t] = x]
    BY <2>1
  <2>5. x \in In /\ x \notin Writing /\ x # "inserting"
    BY DEF In, Writing
  <2>6. LineInv'
    <3>1. /\ members' \in Nat /\ members' <= Len(queue) /\ members' = 0
          /\ inserted' \in Nat /\ inserted' = 0
          /\ inserted' <= BatchSize * Cardinality(Batches')
      <4>1. Batches' = Batches
        BY <2>1, SameGroup
      <4> QED
        BY <2>1, <2>3, <4>1 DEF LineInv, QueueTypes, Grouped
    <3> QED
      BY <2>1, <2>2, <2>4, <2>5, <3>1, HeadLine
  <2> QED
    BY <1>0, <2>1, <2>4, <2>6
<1>5. CASE RoomWait(t)
  BY <1>1, <1>5 DEF RoomWait, callVars, writing
<1>6. CASE AddRecord(t) \/ SyncLog(t)
  <2>1. /\ UNCHANGED <<queue, status, members, inserted, lastSequence>>
        /\ pc[t] \in {"logging", "syncing"}
        /\ \E x \in {"syncing", "inserting"} : pc' = [pc EXCEPT ![t] = x]
    BY <1>6 DEF AddRecord, SyncLog, writing
  <2>2. /\ queue # <<>> /\ t = Head(queue) /\ t \in Writers
        /\ members \in 1 .. Len(queue) /\ inserted = 0
    BY <2>1, WritingFirst DEF Writing
  <2>3. PICK x \in {"syncing", "inserting"} : pc' = [pc EXCEPT ![t] = x]
    BY <2>1
  <2>4. x \in In /\ x \in Writing
    BY DEF In, Writing
  <2>5. LineInv'
    <3>1. /\ members' \in Nat /\ members' <= Len(queue) /\ members' # 0
          /\ inserted' \in Nat /\ inserted' = 0
          /\ inserted' <= BatchSize * Cardinality(Batches')
      <4>1. Batches' = Batches
        BY <2>1, SameGroup
      <4> QED
        BY <2>1, <2>2, <4>1 DEF LineInv, QueueTypes, Grouped
    <3>2. \A i \in 2 .. members' : queue[i] \in Sync => t \in Sync
      BY <2>1, <2>2, <3>1 DEF LineInv, Grouped
    <3> QED
      BY <2>1, <2>2, <2>3, <2>4, <3>1, <3>2, HeadLine
  <2> QED
    BY <1>0, <2>1, <2>3, <2>5
<1> QED
  BY <1>1, <1>2, <1>3, <1>4, <1>5, <1>6 DEF Beside, RoomWait, callVars, writing

\* A writer is done when its write is.
LEMMA CompactingStep ==
    ASSUME LineInv, Compacting, NEW t \in Threads, Write(t) \/ Step(t)
    PROVE  Compacting'
<1>1. pc \in [Threads -> {"idle", "queued", "slow", "logging", "syncing", "inserting",
                          "imm", "manual", "returned"}]
  BY DEF LineInv, QueueTypes
<1>2. ASSUME NEW u \in Threads, NEW x, pc' = [pc EXCEPT ![u] = x],
             x \in {"imm", "manual"} => u \in Compactors
      PROVE  Compacting'
  BY <1>1, <1>2 DEF Compacting
<1>3. CASE Write(t)
  BY <1>2, <1>3 DEF Write
<1>4. ASSUME NEW n, NEW s, NEW others, Finish(n, s, others), t = Head(queue)
      PROVE  Compacting'
  <2>1. pc' = [pc EXCEPT ![t] = Returned(t)]
    BY <1>4 DEF Finish
  <2> QED
    BY <1>2, <2>1 DEF Returned
<1>5. CASE FinishFirst(t)
  BY <1>4, <1>5, FirstDone DEF Leading
<1>6. CASE FinishGroup(t)
  BY <1>4, <1>6, GroupDone, WritingFirst
<1>7. CASE FormGroup(t)
  <2>1. pc' = [pc EXCEPT ![t] = "logging"]
    BY <1>7, GroupFormed
  <2> QED
    BY <1>2, <2>1
<1>8. CASE Beside(t)
  <2>1. CASE WokenDone(t)
    <3>1. pc' = [pc EXCEPT ![t] = Returned(t)]
      BY <2>1 DEF WokenDone
    <3> QED
      BY <1>2, <3>1 DEF Returned
  <2>2. CASE RoomWait(t)
    BY <2>2 DEF RoomWait, callVars, Compacting
  <2>3. CASE RoomSlow(t) \/ Slept(t) \/ AddRecord(t) \/ SyncLog(t)
    <3>1. \E x : x \notin {"imm", "manual"} /\ pc' = [pc EXCEPT ![t] = x]
      BY <2>3 DEF RoomSlow, Slept, AddRecord, SyncLog
    <3> QED
      BY <1>2, <3>1
  <2>4. CASE CompactRangeWaits(t) \/ CompactRange(t)
    <3>1. /\ t \in Compactors
          /\ pc' = pc \/ \E x : pc' = [pc EXCEPT ![t] = x]
      BY <2>4 DEF CompactRangeWaits, CompactRange, Compacting
    <3> QED
      BY <1>2, <3>1 DEF Compacting
  <2> QED
    BY <1>8, <2>1, <2>2, <2>3, <2>4 DEF Beside
<1>9. CASE InsertInto(t)
  BY <1>9 DEF InsertInto, callVars, Compacting
<1> QED
  BY <1>3, <1>5, <1>6, <1>7, <1>8, <1>9, StepCases

\* Every step of a thread.
LEMMA LineStep ==
    ASSUME LineInv, NEW t \in Threads, Step(t)
    PROVE  LineInv'
<1>1. CASE FinishFirst(t)
  <2>1. /\ 1 \in 1 .. Len(queue) /\ lastSequence' \in Nat
        /\ \E s \in {"ok", "error"} : Finish(1, s, {})
    BY <1>1, FirstDone, LeadingFirst DEF LineInv, QueueTypes
  <2> QED
    BY <2>1, FinishLine
<1>2. CASE FinishGroup(t)
  <2>1. /\ members \in 1 .. Len(queue) /\ lastSequence' \in Nat
        /\ \E s \in {"ok", "error"} : \E others : Finish(members, s, others)
    BY <1>2, GroupDone, WritingFirst, Sequences
  <2> QED
    BY <2>1, FinishLine
<1>3. CASE FormGroup(t)
  <2>1. /\ queue # <<>> /\ t = Head(queue) /\ t \in Writers /\ inserted = 0
        /\ members' \in BuildBatchGroup
        /\ pc' = [pc EXCEPT ![t] = "logging"]
        /\ UNCHANGED <<queue, status, inserted, lastSequence>>
    BY <1>3, GroupFormed, LeadingFirst
  <2>2. /\ members' \in 1 .. Len(queue)
        /\ \A i \in 2 .. members' : queue[i] \in Sync => t \in Sync
    BY <2>1 DEF BuildBatchGroup
  <2>3. /\ members' \in Nat /\ members' <= Len(queue) /\ members' # 0
        /\ inserted' \in Nat /\ inserted' = 0
    BY <2>1, <2>2, QueueFacts DEF LineInv
  <2>4. 0 <= BatchSize * Cardinality(Batches')
    <3>1. Batches' \in SUBSET (1 .. members')
      BY DEF Batches
    <3>2. IsFiniteSet(1 .. members')
      BY <2>3, FS_Interval
    <3>3. Cardinality(Batches') \in Nat
      BY <3>1, <3>2, FS_Subset, FS_CardinalityType
    <3> QED
      BY <3>3, WriteQueueAssumption
  <2>5. "logging" \in In /\ "logging" \in Writing
    BY DEF In, Writing
  <2> QED
    BY <2>1, <2>2, <2>3, <2>4, <2>5, HeadLine
<1>4. CASE Beside(t)
  BY <1>4, BesideLine
<1>5. CASE InsertInto(t)
  <2>1. /\ pc[t] = "inserting" /\ inserted < EndSequence - lastSequence
        /\ inserted' = inserted + 1
        /\ UNCHANGED <<queue, pc, status, members, lastSequence>>
    BY <1>5 DEF InsertInto, callVars
  <2>2. /\ queue # <<>> /\ t = Head(queue) /\ t \in Writers
        /\ members \in 1 .. Len(queue)
    BY <2>1, WritingFirst DEF Writing
  <2>3. Batches' = Batches
    BY <2>1, SameGroup
  <2>4. inserted' \in Nat /\ inserted' <= BatchSize * Cardinality(Batches)
    BY <2>1, Sequences DEF LineInv, QueueTypes, EndSequence
  <2>5. QueueTypes' /\ Lined'
    BY <2>1, <2>4 DEF LineInv, QueueTypes, Lined, OneLogger
  <2>6. Grouped'
    BY <2>1, <2>2, <2>3, <2>4 DEF LineInv, Grouped
  <2> QED
    BY <2>5, <2>6 DEF LineInv
<1> QED
  BY <1>1, <1>2, <1>3, <1>4, <1>5, StepCases

-----------------------------------------------------------------------------
(* The flags, the background thread and level 0.                           *)

\* What MakeRoomForWrite begins with.
LEMMA LeadsTypes ==
    ASSUME NEW q, Leads(q)
    PROVE  force' \in BOOLEAN /\ delay' \in BOOLEAN
<1>1. CASE q = <<>>
  BY <1>1 DEF Leads
<1>2. CASE q # <<>>
  <2>1. force' = (Head(q) \in Compactors)
    BY <1>2 DEF Leads
  <2>2. delay' = (Head(q) \in Writers)
    BY <1>2 DEF Leads
  <2> QED
    BY <2>1, <2>2
<1> QED
  BY <1>1, <1>2

\* What Finish does to the flags.
LEMMA FinishTypes ==
    ASSUME FlagTypes, NEW n, NEW s, NEW others, Finish(n, s, others)
    PROVE  force' \in BOOLEAN /\ delay' \in BOOLEAN /\ asleep' \subseteq Threads
<1>1. force' \in BOOLEAN /\ delay' \in BOOLEAN
  BY LeadsTypes DEF Finish
<1>2. asleep' \subseteq asleep
  BY DEF Finish
<1> QED
  BY <1>1, <1>2 DEF FlagTypes

\* What MaybeScheduleCompaction leaves the background thread in.
LEMMA ScheduledTypes ==
    ASSUME NEW now \in {"idle", "scheduled", "flush", "merge", "crashed"},
           NEW a, NEW b, NEW n, NEW e
    PROVE  Scheduled(now, a, b, n, e) \in {"idle", "scheduled", "flush", "merge", "crashed"}
BY DEF Scheduled

\* The flags of a call.
LEMMA CallFlags ==
    ASSUME FlagTypes, LineInv, NEW t \in Threads, Write(t) \/ Step(t)
    PROVE  asleep' \subseteq Threads /\ force' \in BOOLEAN /\ delay' \in BOOLEAN
<1>0. asleep \subseteq Threads /\ force \in BOOLEAN /\ delay \in BOOLEAN
  BY DEF FlagTypes
<1>1. CASE Write(t)
  <2>1. CASE queue = <<>>
    BY <1>0, <1>1, <2>1, LeadsTypes DEF Write
  <2>2. CASE queue # <<>>
    <3>1. asleep' = asleep \cup {t} /\ force' = force /\ delay' = delay
      BY <1>1, <2>2 DEF Write
    <3> QED
      BY <1>0, <3>1
  <2> QED
    BY <2>1, <2>2
<1>2. CASE FinishFirst(t)
  BY <1>2, FirstDone, FinishTypes
<1>3. CASE FinishGroup(t)
  BY <1>3, GroupDone, FinishTypes
<1>4. CASE FormGroup(t)
  <2>1. t \notin Compactors
    BY <1>4, WriteQueueAssumption DEF FormGroup
  <2>2. asleep' = asleep /\ force' = FALSE /\ delay' = delay
    BY <1>4, <2>1 DEF FormGroup, RoomThere, RoomSwitch, GoOn
  <2> QED
    BY <1>0, <2>2
<1>5. CASE Beside(t)
  <2>1. CASE RoomSlow(t)
    BY <1>0, <2>1 DEF RoomSlow
  <2>2. CASE WokenDone(t) \/ Slept(t) \/ AddRecord(t) \/ SyncLog(t)
    BY <1>0, <2>2 DEF WokenDone, Slept, AddRecord, SyncLog, writing
  <2>3. CASE RoomWait(t) \/ CompactRangeWaits(t) \/ CompactRange(t)
    <3>1. asleep' \in {asleep, asleep \cup {t}} /\ force' = force /\ delay' = delay
      BY <2>3 DEF RoomWait, CompactRangeWaits, CompactRange, writing
    <3> QED
      BY <1>0, <3>1
  <2> QED
    BY <1>5, <2>1, <2>2, <2>3 DEF Beside
<1>6. CASE InsertInto(t)
  BY <1>0, <1>6 DEF InsertInto
<1> QED
  BY <1>1, <1>2, <1>3, <1>4, <1>5, <1>6, StepCases

\* What a call does to the background thread.
LEMMA CallBackground ==
    ASSUME FlagTypes, LineInv, Compacting, NEW t \in Threads, Write(t) \/ Step(t)
    PROVE  /\ bgError' \in BOOLEAN /\ UNCHANGED <<shuttingDown, bgManual, manualDone>>
           /\ bg' \in {"idle", "scheduled", "flush", "merge", "crashed"}
           /\ manual' \in Compactors \cup {None}
<1>0. /\ bgError \in BOOLEAN /\ manual \in Compactors \cup {None}
      /\ bg \in {"idle", "scheduled", "flush", "merge", "crashed"}
  BY DEF FlagTypes
<1>1. ASSUME UNCHANGED bgVars
      PROVE  /\ UNCHANGED <<bgError, shuttingDown, bgManual, manualDone, bg, manual>>
  BY <1>1 DEF bgVars
<1>2. CASE Write(t)
  BY <1>0, <1>1, <1>2 DEF Write
<1>3. CASE WokenDone(t) \/ RoomError(t) \/ RoomSlow(t) \/ Slept(t) \/ RoomThere(t)
           \/ RoomWait(t) \/ RoomFails(t) \/ AddRecord(t) \/ SyncLog(t) \/ InsertInto(t)
           \/ CompactRangeWaits(t)
  <2>1. UNCHANGED bgVars
    BY <1>3 DEF WokenDone, RoomError, RoomSlow, Slept, RoomThere, RoomWait, RoomFails,
       AddRecord, SyncLog, InsertInto, CompactRangeWaits, FinishAlone
  <2> QED
    BY <1>0, <1>1, <2>1
<1>4. CASE RoomSwitch(t)
  <2>1. /\ bg' = Scheduled(bg, TRUE, manual # None, l0, FALSE)
        /\ UNCHANGED <<bgError, shuttingDown, bgManual, manualDone, manual>>
    BY <1>4 DEF RoomSwitch
  <2> QED
    BY <1>0, <2>1, ScheduledTypes
<1>5. CASE AddRecordFails(t) \/ SyncFails(t) \/ WriteDone(t)
  <2>1. PICK e \in BOOLEAN : \E s : WriteEnds(s, e)
    BY <1>5 DEF AddRecordFails, SyncFails, WriteDone
  <2>2. /\ bgError' = (bgError \/ e)
        /\ UNCHANGED <<bg, shuttingDown, bgManual, manualDone, manual>>
    BY <2>1 DEF WriteEnds
  <2> QED
    BY <1>0, <2>2
<1>6. CASE CompactRange(t)
  <2>1. UNCHANGED <<bgError, shuttingDown, bgManual, manualDone>>
    BY <1>6 DEF CompactRange
  <2>2. t \in Compactors
    BY <1>6 DEF CompactRange, Compacting
  <2>3. bg' \in {"idle", "scheduled", "flush", "merge", "crashed"}
    <3>1. bg' = bg \/ bg' = Scheduled(bg, hasImm, TRUE, l0, FALSE)
      BY <1>6 DEF CompactRange
    <3> QED
      BY <1>0, <3>1, ScheduledTypes
  <2>4. manual' \in {manual, t, None}
    BY <1>6 DEF CompactRange
  <2> QED
    BY <1>0, <2>1, <2>2, <2>3, <2>4
<1> QED
  BY <1>2, <1>3, <1>4, <1>5, <1>6 DEF Step

\* What a call does to level 0 and the old memtable: the switch of memtables alone makes
\* an old one.
LEMMA CallMemtables ==
    ASSUME FlagTypes, Memtables, LineInv, NEW t \in Threads, Write(t) \/ Step(t)
    PROVE  Memtables' /\ hasImm' \in BOOLEAN /\ l0' = l0
<1>0. hasImm \in BOOLEAN
  BY DEF FlagTypes
<1>1. ASSUME UNCHANGED memory
      PROVE  Memtables' /\ hasImm' \in BOOLEAN /\ l0' = l0
  BY <1>0, <1>1 DEF memory, Memtables
<1>2. CASE Write(t)
  BY <1>1, <1>2 DEF Write
<1>3. CASE WokenDone(t) \/ RoomError(t) \/ RoomSlow(t) \/ Slept(t) \/ RoomThere(t)
           \/ RoomWait(t) \/ RoomFails(t) \/ AddRecord(t) \/ SyncLog(t)
           \/ CompactRangeWaits(t) \/ CompactRange(t)
  BY <1>1, <1>3 DEF WokenDone, RoomError, RoomSlow, Slept, RoomThere, RoomWait, RoomFails,
     AddRecord, SyncLog, CompactRangeWaits, CompactRange, FinishAlone
<1>4. CASE AddRecordFails(t) \/ SyncFails(t) \/ WriteDone(t)
  BY <1>1, <1>4, GroupDone DEF FinishGroup
<1>5. CASE InsertInto(t)
  BY <1>0, <1>5 DEF InsertInto, Memtables
<1>6. CASE RoomSwitch(t)
  BY <1>6 DEF RoomSwitch, Memtables
<1> QED
  BY <1>2, <1>3, <1>4, <1>5, <1>6 DEF Step

\* What the end of a background call does.
LEMMA CallEndsTypes ==
    ASSUME FlagTypes, NEW a, NEW b, NEW n, NEW e, CallEnds(a, b, n, e)
    PROVE  /\ bg' \in {"idle", "scheduled", "flush", "merge", "crashed"}
           /\ asleep' \subseteq Threads
<1>1. bg' \in {"idle", "scheduled", "flush", "merge", "crashed"}
  BY ScheduledTypes DEF CallEnds
<1>2. asleep' \subseteq asleep
  BY DEF CallEnds
<1> QED
  BY <1>1, <1>2 DEF FlagTypes

\* The background thread keeps the flags, and takes a memtable only to level 0.
LEMMA BackgroundFlags ==
    ASSUME FlagTypes, Memtables, Background
    PROVE  FlagTypes' /\ Memtables'
<1>0. /\ asleep \subseteq Threads
      /\ l0 \in 0 .. Stop /\ Stop \in Nat /\ manualDone \subseteq Compactors
      /\ manual \in Compactors \cup {None} /\ bgManual \in Compactors \cup {None}
      /\ bg \in {"idle", "scheduled", "flush", "merge", "crashed"}
      /\ hasImm \in BOOLEAN /\ bgError \in BOOLEAN
      /\ force \in BOOLEAN /\ delay \in BOOLEAN /\ shuttingDown \in BOOLEAN
  BY WriteQueueAssumption DEF FlagTypes
<1>1. ASSUME UNCHANGED <<force, delay, shuttingDown>>,
             hasImm' \in BOOLEAN, bgError' \in BOOLEAN, l0' \in 0 .. Stop,
             bg' \in {"idle", "scheduled", "flush", "merge", "crashed"},
             asleep' \subseteq Threads, bgManual' \in Compactors \cup {None},
             manual' \in Compactors \cup {None}, manualDone' \subseteq Compactors
      PROVE  FlagTypes'
  BY <1>0, <1>1 DEF FlagTypes
<1>2. CASE BackgroundCall
  <2>1. /\ UNCHANGED <<force, delay, shuttingDown, hasImm, bgError, l0, imm>>
        /\ bgManual' \in {bgManual, manual} /\ manual' \in {manual, None}
        /\ manualDone' \in {manualDone, manualDone \cup ({manual} \ {None})}
    BY <1>2 DEF BackgroundCall, writing, memory
  <2>2. /\ bg' \in {"idle", "scheduled", "flush", "merge", "crashed"}
        /\ asleep' \subseteq Threads
    BY <1>0, <1>2, CallEndsTypes DEF BackgroundCall
  <2>3. manualDone' \subseteq Compactors
    BY <1>0, <2>1
  <2> QED
    BY <1>0, <1>1, <2>1, <2>2, <2>3 DEF Memtables
<1>3. CASE CompactMemTable
  <2>1. /\ UNCHANGED <<force, delay, shuttingDown, bgError, bgManual, manual, manualDone>>
        /\ hasImm /\ hasImm' = FALSE /\ imm' = {} /\ l0' \in {l0, l0 + 1}
    BY <1>3 DEF CompactMemTable, writing
  <2>2. /\ bg' \in {"idle", "scheduled", "flush", "merge", "crashed"}
        /\ asleep' \subseteq Threads
    BY <1>0, <1>3, CallEndsTypes DEF CompactMemTable
  <2>3. l0' \in 0 .. Stop
    BY <1>0, <2>1 DEF Memtables
  <2> QED
    BY <1>0, <1>1, <2>1, <2>2, <2>3 DEF Memtables
<1>4. CASE CompactMemTableFails
  <2>1. /\ UNCHANGED <<force, delay, shuttingDown, bgManual, manual, manualDone, hasImm, l0, imm>>
        /\ bgError' = TRUE /\ bg' \in {"idle", bg}
        /\ asleep' \subseteq asleep
    BY <1>4 DEF CompactMemTableFails, writing, memory
  <2> QED
    BY <1>0, <1>1, <2>1 DEF Memtables
<1>5. ASSUME NEW fails \in BOOLEAN, NEW files \in 0 .. l0, MergeEnds(fails, files)
      PROVE  FlagTypes' /\ Memtables'
  <2>1. /\ UNCHANGED <<force, delay, shuttingDown, hasImm, imm>>
        /\ l0' = files /\ bgManual' = None /\ manual' \in {manual, None}
        /\ manualDone' \in {manualDone, manualDone \cup ({manual} \ {None})}
    BY <1>5 DEF MergeEnds, writing
  <2>2. bgError' \in BOOLEAN
    <3>1. bgError' = (bgError \/ fails)
      BY <1>5 DEF MergeEnds
    <3> QED
      BY <3>1
  <2>3. /\ bg' \in {"idle", "scheduled", "flush", "merge", "crashed"}
        /\ asleep' \subseteq Threads
    BY <1>0, <1>5, CallEndsTypes DEF MergeEnds
  <2>4. l0' \in 0 .. Stop /\ l0' <= l0
    BY <1>0, <2>1
  <2>5. Memtables'
    BY <1>0, <2>1, <2>4 DEF Memtables
  <2>6. manualDone' \subseteq Compactors
    BY <1>0, <2>1
  <2> QED
    BY <1>0, <1>1, <2>1, <2>2, <2>3, <2>4, <2>5, <2>6
<1>6. CASE Merge
  <2>1. \E files \in 0 .. l0 : MergeEnds(FALSE, files)
    BY <1>6 DEF Merge
  <2> QED
    BY <1>5, <2>1
<1>7. CASE MergeFails
  <2>1. MergeEnds(TRUE, l0)
    BY <1>7 DEF MergeFails
  <2>2. l0 \in 0 .. l0
    <3>1. l0 \in 0 .. Stop /\ Stop \in Nat
      BY <1>0
    <3> QED
      BY <3>1
  <2> QED
    BY <1>5, <2>1, <2>2
<1> QED
  BY <1>2, <1>3, <1>4, <1>6, <1>7 DEF Background

-----------------------------------------------------------------------------
(* The entries.                                                            *)

\* What is stored for a writer stays when what is stored does.
LEMMA SameEntries ==
    ASSUME Stored' = Stored
    PROVE  \A w : EntriesOf(w)' = EntriesOf(w)
BY DEF EntriesOf

\* The batches that have got a status.
Decided == {w \in Writers : status[w] # "none"}

\* They are finitely many, and a batch has entries.
LEMMA DecidedFacts ==
    /\ IsFiniteSet(Writers) /\ IsFiniteSet(Decided) /\ Cardinality(Decided) \in Nat
    /\ BatchSize \in Nat \ {0}
<1>1. IsFiniteSet(Writers) /\ BatchSize \in Nat \ {0}
  BY WriteQueueAssumption
<1>2. Decided \in SUBSET Writers
  BY DEF Decided
<1> QED
  BY <1>1, <1>2, FS_Subset, FS_CardinalityType

\* They are counted as before when there are more of them.
LEMMA MoreDecided ==
    ASSUME Counted, lastSequence' = lastSequence, lastSequence \in Nat,
           \A w \in Writers : status[w] # "none" => status'[w] # "none"
    PROVE  Counted'
<1> DEFINE D == Decided
           E == {w \in Writers : status'[w] # "none"}
<1>1. IsFiniteSet(Writers) /\ BatchSize \in Nat /\ Cardinality(D) \in Nat
  BY DecidedFacts
<1>2. D \in SUBSET E /\ E \in SUBSET Writers
  BY DEF Decided
<1>3. lastSequence <= BatchSize * Cardinality(D)
  BY DEF Counted, Decided
<1>4. Counted' <=> lastSequence <= BatchSize * Cardinality(E)
  BY DEF Counted
<1> HIDE DEF D, E
<1>5. IsFiniteSet(E)
  BY <1>1, <1>2, FS_Subset
<1>6. Cardinality(D) <= Cardinality(E) /\ Cardinality(E) \in Nat
  BY <1>2, <1>5, FS_Subset, FS_CardinalityType
<1>7. /\ Cardinality(D) * BatchSize <= Cardinality(E) * BatchSize
      /\ Cardinality(D) * BatchSize = BatchSize * Cardinality(D)
      /\ Cardinality(E) * BatchSize = BatchSize * Cardinality(E)
  BY <1>1, <1>6, Times
<1> QED
  BY <1>1, <1>3, <1>4, <1>6, <1>7

\* The numbers of a group do not go beyond those of all batches.
LEMMA GroupCounted ==
    ASSUME LineInv, Counted
    PROVE  /\ EndSequence <= BatchSize * Cardinality(Decided \cup Group)
           /\ EndSequence <= BatchSize * Cardinality(Writers)
<1> DEFINE D == Decided
           G == Group
<1>1. /\ IsFiniteSet(D) /\ Cardinality(D) \in Nat /\ IsFiniteSet(Writers)
      /\ BatchSize \in Nat
  BY DecidedFacts
<1>2. /\ IsFiniteSet(G) /\ Cardinality(G) = Cardinality(Batches)
      /\ Cardinality(G) \in Nat
  BY GroupFacts, FS_CardinalityType
<1>3. D \cap G = {} /\ D \cup G \in SUBSET Writers
  BY GroupFacts DEF Decided
<1>4. EndSequence = lastSequence + BatchSize * Cardinality(G)
  BY <1>2 DEF EndSequence
<1>5. lastSequence <= BatchSize * Cardinality(D) /\ lastSequence \in Nat
  BY DEF Counted, Decided, LineInv, QueueTypes
<1> HIDE DEF D, G
<1>6. /\ IsFiniteSet(D \cup G)
      /\ Cardinality(D \cup G) = Cardinality(D) + Cardinality(G) - Cardinality(D \cap G)
  BY <1>1, <1>2, FS_Union
<1>7. Cardinality(D \cap G) = 0
  BY <1>3, FS_EmptySet
<1>8. Cardinality(D \cup G) = Cardinality(D) + Cardinality(G)
  BY <1>1, <1>2, <1>6, <1>7
<1>9. Cardinality(D \cup G) <= Cardinality(Writers) /\ Cardinality(Writers) \in Nat
  BY <1>1, <1>3, FS_Subset, FS_CardinalityType
<1>10. BatchSize * (Cardinality(D) + Cardinality(G))
         = BatchSize * Cardinality(D) + BatchSize * Cardinality(G)
  BY <1>1, <1>2
<1>11. EndSequence <= BatchSize * Cardinality(D \cup G)
  <2>1. BatchSize * Cardinality(D) \in Nat /\ BatchSize * Cardinality(G) \in Nat
    BY <1>1, <1>2
  <2> QED
    BY <1>4, <1>5, <1>8, <1>10, <2>1
<1>12. BatchSize * Cardinality(D \cup G) <= BatchSize * Cardinality(Writers)
  <2>1. Cardinality(D \cup G) \in Nat
    BY <1>1, <1>2, <1>8
  <2> QED
    BY <1>1, <1>9, <2>1, Times
<1>13. EndSequence <= BatchSize * Cardinality(Writers)
  <2>1. /\ BatchSize * Cardinality(D \cup G) \in Nat
        /\ BatchSize * Cardinality(Writers) \in Nat /\ EndSequence \in Nat
    BY <1>1, <1>2, <1>8, <1>9, Sequences
  <2> QED
    BY <1>11, <1>12, <2>1
<1> QED
  BY <1>11, <1>13 DEF D, G

\* A step that stores nothing and keeps the group, whoever comes to the queue and however
\* far the logs get.
LEMMA SameData ==
    ASSUME LineInv, DataInv,
           UNCHANGED <<mem, imm, tables, oldLog, status, members, inserted, lastSequence>>,
           \A i \in 1 .. members : queue'[i] = queue[i],
           log \subseteq log', log' \subseteq Writers,
           synced \subseteq synced', synced' \subseteq Writers,
           GroupLogged'
    PROVE  DataInv'
<1>1. /\ Batches' = Batches /\ Group' = Group
      /\ \A i \in Batches : queue'[i] = queue[i]
      /\ \A i : Before(i)' = Before(i)
  BY SameGroup
<1>2. Stored' = Stored
  BY DEF Stored
<1>3. \A w : EntriesOf(w)' = EntriesOf(w)
  BY <1>2, SameEntries
<1>4. StoreTypes' /\ Counted'
  BY DEF DataInv, StoreTypes, Counted
<1>5. LogCovers'
  BY DEF DataInv, Logged, LogCovers
<1>6. SyncKept'
  BY DEF DataInv, Logged, SyncKept
<1>7. Logged'
  BY <1>2, <1>5, <1>6 DEF DataInv, Logged
<1>8. Applied' /\ Refused'
  BY <1>1, <1>3 DEF DataInv, Applied, Refused
<1>9. \A i \in Batches : Numbers(i)' = Numbers(i)
  BY <1>1 DEF Numbers
<1>10. InProgress'
  BY <1>1, <1>3, <1>9 DEF DataInv, InProgress
<1> QED
  BY <1>4, <1>7, <1>8, <1>10 DEF DataInv

\* A new memtable, or none: what is stored stays, and so do the logs that go with it.
LEMMA MemoryStep ==
    ASSUME DataInv, Memtables, NEW t \in Threads, FinishFirst(t) \/ FormGroup(t)
    PROVE  /\ StoreTypes' /\ LogCovers' /\ Stored' = Stored
           /\ tables' = tables /\ synced' = synced
<1>1. ASSUME UNCHANGED <<memory, logs>>
      PROVE  /\ StoreTypes' /\ LogCovers' /\ Stored' = Stored
             /\ tables' = tables /\ synced' = synced
  BY <1>1 DEF memory, logs, DataInv, StoreTypes, Logged, LogCovers, Stored
<1>2. CASE RoomError(t) \/ RoomFails(t) \/ RoomThere(t)
  BY <1>1, <1>2 DEF RoomError, RoomFails, RoomThere, FinishAlone
<1>3. CASE RoomSwitch(t)
  <2>1. /\ imm' = mem /\ mem' = {} /\ oldLog' = log /\ log' = {} /\ imm = {}
        /\ UNCHANGED <<tables, synced>>
    BY <1>3 DEF RoomSwitch, Memtables
  <2>2. StoreTypes' /\ Stored' = Stored
    BY <2>1 DEF DataInv, StoreTypes, Stored
  <2>3. LogCovers'
    BY <2>1 DEF DataInv, Logged, LogCovers
  <2> QED
    BY <2>1, <2>2, <2>3
<1> QED
  BY <1>2, <1>3 DEF FinishFirst, FormGroup

\* The first one alone is done: no batch is stored for it.
LEMMA FirstDoneData ==
    ASSUME LineInv, DataInv, Memtables, NEW t \in Threads, FinishFirst(t)
    PROVE  DataInv'
<1>1. /\ StoreTypes' /\ LogCovers' /\ Stored' = Stored
      /\ tables' = tables /\ synced' = synced
  BY MemoryStep
<1>2. /\ t = Head(queue) /\ 1 \in 1 .. Len(queue) /\ queue[1] = t /\ status[t] = "none"
      /\ inserted = 0 /\ Group = {} /\ lastSequence' = lastSequence
  BY FirstDone, LeadingFirst, First
<1>3. PICK s \in {"ok", "error"} : /\ Finish(1, s, {})
                                   /\ s = "ok" => t \in Compactors
  BY FirstDone
<1>4. /\ status' = [u \in Threads |-> IF u = t THEN s ELSE status[u]]
      /\ members' = 0 /\ inserted' = 0
  <2>1. \A u : (\E i \in 1 .. 1 : queue[i] = u) <=> u = t
    BY <1>2
  <2> QED
    BY <1>3, <2>1 DEF Finish
<1>5. \A w \in Writers : /\ status[w] # "none" => status'[w] = status[w]
                         /\ status'[w] = "ok" <=> status[w] = "ok"
  <2>1. \A w \in Writers : w \in Threads /\ w \notin Compactors
    BY WriteQueueAssumption DEF Threads
  <2> QED
    BY <1>2, <1>3, <1>4, <2>1
<1>6. Batches' = {} /\ Group' = {}
  BY <1>4 DEF Batches, Group
<1>7. Counted'
  <2>1. lastSequence \in Nat
    BY DEF LineInv, QueueTypes
  <2>2. \A w \in Writers : status[w] # "none" => status'[w] # "none"
    BY <1>5
  <2> QED
    BY <1>2, <2>1, <2>2, MoreDecided DEF DataInv
<1>8. SyncKept'
  <2>1. \A w \in Sync : w \in Writers
    BY WriteQueueAssumption
  <2> QED
    BY <1>1, <1>5, <2>1 DEF DataInv, Logged, SyncKept
<1>9. Logged' /\ GroupLogged'
  BY <1>1, <1>2, <1>4, <1>8 DEF DataInv, Logged, GroupLogged
<1>10. \A w : EntriesOf(w)' = EntriesOf(w)
  BY <1>1, SameEntries
<1>11. Applied' /\ Refused'
  BY <1>2, <1>5, <1>10 DEF DataInv, Applied, Refused
<1>12. InProgress'
  BY <1>6 DEF InProgress
<1> QED
  BY <1>1, <1>7, <1>9, <1>11, <1>12 DEF DataInv

\* The numbers of a group are new.
LEMMA NewNumbers ==
    ASSUME LineInv, NEW i \in Batches
    PROVE  /\ \A n \in Numbers(i) : n \in Nat /\ lastSequence < n /\ n <= EndSequence
           /\ Numbers(i) = (lastSequence + Before(i) * BatchSize + 1)
                              .. (lastSequence + Before(i) * BatchSize + BatchSize)
           /\ lastSequence + Before(i) * BatchSize \in Nat
           /\ lastSequence + Before(i) * BatchSize + BatchSize <= EndSequence
<1> DEFINE b == Before(i)
           c == Cardinality(Batches)
<1>1. b \in Nat /\ b + 1 <= c /\ c \in Nat /\ lastSequence \in Nat /\ BatchSize \in Nat
  BY BatchFacts, WriteQueueAssumption DEF LineInv, QueueTypes
<1>2. EndSequence = lastSequence + BatchSize * c
  BY DEF EndSequence
<1>3. Numbers(i) = {lastSequence + k : k \in (b * BatchSize + 1) .. (b + 1) * BatchSize}
  BY DEF Numbers
<1> HIDE DEF b, c
<1>4. /\ b * BatchSize \in Nat /\ (b + 1) * BatchSize = b * BatchSize + BatchSize
  BY <1>1, Times
<1>5. (b + 1) * BatchSize <= c * BatchSize /\ c * BatchSize = BatchSize * c
  BY <1>1, Times
<1>6. BatchSize * c \in Nat
  BY <1>1
<1> DEFINE p == b * BatchSize
           q == BatchSize * c
<1>7. /\ p \in Nat /\ q \in Nat /\ p + BatchSize <= q
  BY <1>1, <1>4, <1>5, <1>6
<1>8. Numbers(i) = {lastSequence + k : k \in (p + 1) .. (p + BatchSize)}
  BY <1>3, <1>4
<1>9. EndSequence = lastSequence + q
  BY <1>2
<1> HIDE DEF p, q
<1>10. Numbers(i) = (lastSequence + p + 1) .. (lastSequence + p + BatchSize)
  <2>1. ASSUME NEW n \in (lastSequence + p + 1) .. (lastSequence + p + BatchSize)
        PROVE  n \in Numbers(i)
    <3>1. /\ n - lastSequence \in (p + 1) .. (p + BatchSize)
          /\ n = lastSequence + (n - lastSequence)
      BY <1>1, <1>7, <2>1
    <3> QED
      BY <1>8, <3>1
  <2>2. ASSUME NEW n \in Numbers(i)
        PROVE  n \in (lastSequence + p + 1) .. (lastSequence + p + BatchSize)
    <3>1. PICK k \in (p + 1) .. (p + BatchSize) : n = lastSequence + k
      BY <1>8, <2>2
    <3> QED
      BY <1>1, <1>7, <3>1
  <2> QED
    BY <2>1, <2>2
<1>11. \A n \in Numbers(i) : n \in Nat /\ lastSequence < n /\ n <= EndSequence
  BY <1>1, <1>7, <1>9, <1>10
<1>12. lastSequence + p \in Nat /\ lastSequence + p + BatchSize <= EndSequence
  BY <1>1, <1>7, <1>9
<1> QED
  BY <1>10, <1>11, <1>12 DEF p, b

\* A group has stored nothing before its first insertion.
LEMMA NothingStored ==
    ASSUME LineInv, DataInv, inserted = 0, NEW w \in Group
    PROVE  EntriesOf(w) = {}
<1>1. PICK i \in Batches : w = queue[i]
  BY DEF Group
<1>2. \A n \in Numbers(i) : ~(n <= lastSequence + inserted)
  <2>1. lastSequence \in Nat
    BY DEF LineInv, QueueTypes
  <2> QED
    BY <2>1, NewNumbers
<1>3. EntriesOf(w) = Numbered(w, {n \in Numbers(i) : n <= lastSequence + inserted})
  BY <1>1 DEF DataInv, InProgress
<1> QED
  BY <1>2, <1>3 DEF Numbered

\* A group is formed of writers for which nothing is stored.
LEMMA GroupFormedData ==
    ASSUME LineInv, DataInv, Memtables, NEW t \in Threads, FormGroup(t)
    PROVE  DataInv'
<1>1. /\ StoreTypes' /\ LogCovers' /\ Stored' = Stored
      /\ tables' = tables /\ synced' = synced
  BY MemoryStep
<1>2. /\ t = Head(queue) /\ t \in Writers
      /\ inserted = 0 /\ Group = {}
      /\ pc' = [pc EXCEPT ![t] = "logging"]
      /\ UNCHANGED <<queue, status, inserted, lastSequence>>
  BY GroupFormed, LeadingFirst
<1>3. pc'[t] = "logging"
  BY <1>2 DEF LineInv, QueueTypes
<1>4. Counted'
  BY <1>2 DEF DataInv, Counted
<1>5. SyncKept'
  BY <1>1, <1>2 DEF DataInv, Logged, SyncKept
<1>6. Logged' /\ GroupLogged'
  BY <1>1, <1>2, <1>3, <1>5 DEF DataInv, Logged, GroupLogged
<1>7. \A w : EntriesOf(w)' = EntriesOf(w)
  BY <1>1, SameEntries
<1>8. Applied' /\ Refused'
  BY <1>2, <1>7 DEF DataInv, Applied, Refused
<1>9. \A w \in Writers : status[w] = "none" => EntriesOf(w) = {}
  BY <1>2 DEF DataInv, Refused
<1>10. InProgress'
  <2>1. ASSUME NEW i \in Batches'
        PROVE  /\ EntriesOf(queue[i]) = {}
               /\ \A n \in Numbers(i)' : ~(n <= lastSequence + inserted)
    <3>1. /\ members' \in 1 .. Len(queue) /\ i \in 1 .. members'
          /\ queue[i] \in Writers
      BY <1>2, GroupFormed DEF Batches, BuildBatchGroup
    <3>2. status[queue[i]] = "none"
      <4>1. i \in 1 .. Len(queue)
        BY <3>1, QueueFacts DEF LineInv
      <4> QED
        BY <4>1 DEF LineInv, Lined
    <3>3. \A n \in Numbers(i)' : n \in Int /\ n > lastSequence
      <4>1. Before(i)' \in Nat
        <5> DEFINE S == {j \in Batches' : j < i}
        <5>1. S \in SUBSET (1 .. members')
          BY DEF Batches
        <5>2. IsFiniteSet(1 .. members')
          BY <3>1, FS_Interval
        <5> HIDE DEF S
        <5>3. Cardinality(S) \in Nat
          BY <5>1, <5>2, FS_Subset, FS_CardinalityType
        <5> QED
          BY <5>3 DEF S, Before
      <4>2. Before(i)' * BatchSize \in Nat
        BY <4>1, Times
      <4>3. lastSequence \in Nat /\ (Before(i)' + 1) * BatchSize \in Int
        BY <4>1, WriteQueueAssumption DEF LineInv, QueueTypes
      <4> QED
        BY <1>2, <4>2, <4>3 DEF Numbers
    <3> QED
      <4>1. lastSequence \in Nat /\ \A n \in Numbers(i)' : n \in Int
        BY <3>3 DEF LineInv, QueueTypes
      <4> QED
        BY <1>2, <1>9, <3>1, <3>2, <3>3, <4>1
  <2> QED
    BY <1>2, <1>7, <2>1 DEF InProgress, Numbered
<1> QED
  BY <1>1, <1>4, <1>6, <1>8, <1>10 DEF DataInv

\* What is stored are entries of writers with numbers.
LEMMA StoredTypes ==
    ASSUME StoreTypes, NEW e \in Stored
    PROVE  e \in Entries /\ e.of \in Writers /\ e.seq \in Nat
<1>1. e \in Entries
  BY DEF StoreTypes, Stored
<1>2. \A n \in 1 .. BatchSize * Cardinality(Writers) : n \in Nat
  <2>1. Cardinality(Writers) \in Nat /\ BatchSize \in Nat
    BY DecidedFacts, FS_CardinalityType
  <2>2. BatchSize * Cardinality(Writers) \in Nat
    BY <2>1
  <2> QED
    BY <2>2
<1> QED
  BY <1>1, <1>2 DEF Entries

\* A group is done: its batches succeed with all they had to store, or fail with nothing.
LEMMA GroupDoneData ==
    ASSUME LineInv, DataInv, NEW t \in Threads, FinishGroup(t)
    PROVE  DataInv'
<1>1. /\ pc[t] \in Writing /\ queue # <<>> /\ t = Head(queue) /\ t \in Writers
      /\ members \in 1 .. Len(queue) /\ lastSequence' = EndSequence
      /\ UNCHANGED <<mem, imm, tables, oldLog, synced>>
  BY GroupDone, WritingFirst DEF memory
<1>2. PICK s \in {"ok", "error"} :
         /\ \E others : Finish(members, s, others)
         /\ \/ s = "error" /\ inserted = 0 /\ log' \in {log, log \cup Group}
            \/ /\ s = "ok" /\ pc[t] = "inserting" /\ lastSequence + inserted = EndSequence
               /\ log' = log
  BY GroupDone
<1>3. /\ status' = [u \in Threads |-> IF \E i \in 1 .. members : queue[i] = u THEN s
                                      ELSE status[u]]
      /\ members' = 0 /\ inserted' = 0
  BY <1>2 DEF Finish
<1>4. \A w \in Writers : status'[w] = IF w \in Group THEN s ELSE status[w]
  <2>1. ASSUME NEW w \in Writers
        PROVE  (\E i \in 1 .. members : queue[i] = w) <=> w \in Group
    BY DEF Group, Batches
  <2>2. \A w \in Writers : w \in Threads
    BY DEF Threads
  <2> QED
    BY <1>3, <2>1, <2>2
<1>5. \A w \in Group : w \in Writers /\ status[w] = "none"
  BY GroupFacts
<1>6. Batches' = {} /\ Group' = {}
  BY <1>3 DEF Batches, Group
<1>7. Stored' = Stored /\ \A w : EntriesOf(w)' = EntriesOf(w)
  BY <1>1, SameEntries DEF Stored
<1>8. /\ EndSequence \in Nat /\ lastSequence \in Nat /\ inserted \in Nat
      /\ lastSequence + inserted <= EndSequence /\ lastSequence <= EndSequence
  BY Sequences DEF LineInv, QueueTypes
<1>9. StoreTypes' /\ log \subseteq log'
  BY <1>1, <1>2, <1>5 DEF DataInv, StoreTypes
<1>10. Counted'
  <2>1. {w \in Writers : status'[w] # "none"} = Decided \cup Group
    BY <1>4, <1>5 DEF Decided
  <2>2. EndSequence <= BatchSize * Cardinality(Decided \cup Group)
    BY GroupCounted DEF DataInv
  <2> QED
    BY <1>1, <2>1, <2>2 DEF Counted
<1>11. LogCovers'
  BY <1>1, <1>9 DEF DataInv, Logged, LogCovers
<1>12. SyncKept'
  <2>1. ASSUME NEW w \in Sync, status'[w] = "ok"
        PROVE  w \in synced \/ \E e \in tables : e.of = w
    <3>1. w \in Writers
      BY WriteQueueAssumption
    <3>2. CASE w \in Group
      <4>1. pc[t] = "inserting"
        BY <1>2, <1>4, <2>1, <3>1, <3>2
      <4>2. t \in Sync
        <5>1. PICK i \in 1 .. members : queue[i] = w
          BY <3>2 DEF Group, Batches
        <5>2. i = 1 \/ i \in 2 .. members
          BY <1>1
        <5>3. queue[1] = t
          BY <1>1, First
        <5> QED
          BY <1>1, <5>1, <5>2, <5>3 DEF LineInv, Grouped
      <4>3. Group \subseteq synced
        BY <1>1, <4>1, <4>2 DEF DataInv, GroupLogged
      <4> QED
        BY <3>2, <4>3
    <3>3. CASE w \notin Group
      BY <1>4, <2>1, <3>1, <3>3 DEF DataInv, Logged, SyncKept
    <3> QED
      BY <3>2, <3>3
  <2> QED
    BY <1>1, <2>1 DEF SyncKept
<1>13. Logged' /\ GroupLogged'
  <2>1. \A e \in Stored : e.seq <= lastSequence' + inserted'
    <3>1. \A e \in Stored : e.seq <= lastSequence + inserted /\ e.seq \in Nat
      BY StoredTypes DEF DataInv, Logged
    <3> QED
      BY <1>1, <1>3, <1>8, <3>1
  <2> QED
    BY <1>3, <1>7, <1>11, <1>12, <2>1 DEF Logged, GroupLogged
<1>14. Applied'
  <2>1. ASSUME NEW w \in Writers, status'[w] = "ok"
        PROVE  \E b \in Nat : /\ EntriesOf(w) = Numbered(w, (b + 1) .. (b + BatchSize))
                              /\ b + BatchSize <= lastSequence'
    <3>1. CASE w \in Group
      <4>1. lastSequence + inserted = EndSequence
        BY <1>2, <1>4, <2>1, <3>1
      <4>2. PICK i \in Batches : w = queue[i]
        BY <3>1 DEF Group
      <4>3. {n \in Numbers(i) : n <= lastSequence + inserted} = Numbers(i)
        BY <4>1, NewNumbers
      <4>4. EntriesOf(w) = Numbered(w, Numbers(i))
        BY <4>2, <4>3 DEF DataInv, InProgress
      <4> DEFINE b == lastSequence + Before(i) * BatchSize
      <4>5. /\ Numbers(i) = (b + 1) .. (b + BatchSize)
            /\ b \in Nat /\ b + BatchSize <= EndSequence
        BY NewNumbers
      <4> HIDE DEF b
      <4> QED
        BY <1>1, <4>4, <4>5
    <3>2. CASE w \notin Group
      <4>1. status[w] = "ok"
        BY <1>4, <2>1, <3>2
      <4>2. PICK b \in Nat : /\ EntriesOf(w) = Numbered(w, (b + 1) .. (b + BatchSize))
                             /\ b + BatchSize <= lastSequence
        BY <4>1 DEF DataInv, Applied
      <4>3. b + BatchSize <= EndSequence
        BY <1>8, <4>2, DecidedFacts
      <4> QED
        BY <1>1, <4>2, <4>3
    <3> QED
      BY <3>1, <3>2
  <2> QED
    BY <1>7, <2>1 DEF Applied
<1>15. Refused'
  <2>1. ASSUME NEW w \in Writers, status'[w] # "ok"
        PROVE  EntriesOf(w) = {}
    <3>1. CASE w \in Group
      <4>1. inserted = 0
        BY <1>2, <1>4, <2>1, <3>1
      <4> QED
        BY <3>1, <4>1, NothingStored
    <3>2. CASE w \notin Group
      BY <1>4, <2>1, <3>2 DEF DataInv, Refused
    <3> QED
      BY <3>1, <3>2
  <2> QED
    BY <1>7, <2>1 DEF Refused
<1>16. InProgress'
  BY <1>6 DEF InProgress
<1> QED
  BY <1>9, <1>10, <1>13, <1>14, <1>15, <1>16 DEF DataInv

\* The next entry of the group has the next number, in the place of its batch.
LEMMA InsertData ==
    ASSUME LineInv, DataInv, NEW t \in Threads, InsertInto(t)
    PROVE  DataInv'
<1> DEFINE m == lastSequence + inserted + 1
<1>1. /\ pc[t] = "inserting" /\ inserted < EndSequence - lastSequence
      /\ inserted' = inserted + 1
      /\ UNCHANGED <<queue, pc, status, members, lastSequence, imm, tables, log, oldLog, synced>>
  BY DEF InsertInto, callVars, logs
<1>2. PICK i \in Batches : /\ inserted \div BatchSize = Before(i)
                           /\ mem' = mem \cup {[of |-> queue[i], seq |-> m]}
  BY DEF InsertInto
<1>3. /\ lastSequence \in Nat /\ inserted \in Nat /\ EndSequence \in Nat
      /\ m \in Nat /\ m <= EndSequence /\ lastSequence < m
      /\ m = lastSequence + inserted'
  BY <1>1, Sequences DEF LineInv, QueueTypes
<1> DEFINE new == [of |-> queue[i], seq |-> m]
<1>4. queue[i] \in Group /\ queue[i] \in Writers /\ status[queue[i]] = "none"
  BY GroupFacts DEF Group
<1>5. /\ queue # <<>> /\ t = Head(queue) /\ members # 0
  BY <1>1, WritingFirst DEF Writing
<1>6. queue[i] \in log
  BY <1>1, <1>4, <1>5 DEF DataInv, GroupLogged
<1>7. /\ Batches' = Batches /\ Group' = Group /\ \A j : Before(j)' = Before(j)
  BY <1>1, SameGroup
<1>8. \A j \in Batches : Numbers(j)' = Numbers(j)
  BY <1>1, <1>7 DEF Numbers
<1>9. Stored' = Stored \cup {new}
  BY <1>1, <1>2 DEF Stored
<1>10. new.of = queue[i] /\ new.seq = m
  OBVIOUS
<1>11. \A w : w # queue[i] => EntriesOf(w)' = EntriesOf(w)
  BY <1>9, <1>10 DEF EntriesOf
<1>12. EntriesOf(queue[i])' = EntriesOf(queue[i]) \cup {new}
  BY <1>1, <1>9, <1>10 DEF EntriesOf
<1>13. StoreTypes'
  <2>1. m \in 1 .. BatchSize * Cardinality(Writers)
    <3>1. EndSequence <= BatchSize * Cardinality(Writers)
      BY GroupCounted DEF DataInv
    <3>2. BatchSize * Cardinality(Writers) \in Nat
      BY DecidedFacts, FS_CardinalityType
    <3> QED
      BY <1>3, <3>1, <3>2
  <2>2. new \in Entries
    BY <1>4, <2>1 DEF Entries
  <2> QED
    BY <1>1, <1>2, <2>2 DEF DataInv, StoreTypes
<1>14. Counted'
  BY <1>1 DEF DataInv, Counted
<1>15. \A e \in Stored : e.seq \in Nat /\ e.seq < m
  BY <1>3, StoredTypes DEF DataInv, Logged
<1>16. LogCovers'
  <2>1. \A e \in mem' : e \in mem \/ e = new
    BY <1>2
  <2>2. \A e \in mem' : e.of \in log
    BY <1>6, <1>10, <2>1 DEF DataInv, Logged, LogCovers
  <2>3. \A e \in mem' : \A o \in imm \cup tables : o.seq < e.seq
    BY <1>10, <1>15, <2>1 DEF DataInv, Logged, LogCovers, Stored
  <2> QED
    BY <1>1, <2>2, <2>3 DEF DataInv, Logged, LogCovers
<1>17. SyncKept'
  BY <1>1 DEF DataInv, Logged, SyncKept
<1>18. \A e \in Stored' : e.seq <= lastSequence' + inserted'
  <2>1. \A e \in Stored' : e.seq \in Nat /\ e.seq <= m
    BY <1>3, <1>9, <1>10, <1>15
  <2> QED
    BY <1>1, <1>3, <2>1
<1>19. Logged' /\ GroupLogged'
  BY <1>1, <1>7, <1>16, <1>17, <1>18 DEF DataInv, Logged, GroupLogged
<1>20. Applied'
  <2>1. \A w \in Writers : status[w] = "ok" => w # queue[i]
    BY <1>4
  <2> QED
    BY <1>1, <1>11, <2>1 DEF DataInv, Applied
<1>21. Refused'
  BY <1>1, <1>4, <1>7, <1>11 DEF DataInv, Refused
<1>22. m \in Numbers(i)
  <2>1. Before(i) \in Nat
    BY BatchFacts DEF LineInv
  <2>2. Before(i) * BatchSize <= inserted /\ inserted < (Before(i) + 1) * BatchSize
    BY <1>2, <1>3, <2>1, Share
  <2>3. /\ Before(i) * BatchSize \in Nat
        /\ (Before(i) + 1) * BatchSize = Before(i) * BatchSize + BatchSize
        /\ BatchSize \in Nat
    BY <2>1, Times, DecidedFacts
  <2>4. inserted + 1 \in (Before(i) * BatchSize + 1) .. (Before(i) + 1) * BatchSize
    BY <1>3, <2>2, <2>3
  <2>5. m = lastSequence + (inserted + 1)
    BY <1>3
  <2> QED
    BY <2>4, <2>5 DEF Numbers
<1>23. ASSUME NEW j \in Batches, j # i
       PROVE  m \notin Numbers(j)
  <2> DEFINE a == Before(i) * BatchSize
             b == Before(j) * BatchSize
  <2>1. /\ Numbers(i) = (lastSequence + a + 1) .. (lastSequence + a + BatchSize)
        /\ Numbers(j) = (lastSequence + b + 1) .. (lastSequence + b + BatchSize)
    BY NewNumbers
  <2>2. /\ Before(i) \in Nat /\ Before(j) \in Nat
        /\ Before(i) + 1 <= Before(j) \/ Before(j) + 1 <= Before(i)
    <3>1. i \in 1 .. members /\ j \in 1 .. members
      BY BatchFacts DEF LineInv
    <3>2. i < j \/ j < i
      BY <1>23, <3>1
    <3> QED
      BY <3>2, BatchFacts DEF LineInv
  <2>3. a \in Nat /\ b \in Nat /\ BatchSize \in Nat
    BY <2>2, Times, DecidedFacts
  <2>4. a + BatchSize <= b \/ b + BatchSize <= a
    <3>1. CASE Before(i) + 1 <= Before(j)
      <4>1. (Before(i) + 1) * BatchSize <= Before(j) * BatchSize
        BY <2>2, <3>1, Times
      <4>2. (Before(i) + 1) * BatchSize = Before(i) * BatchSize + BatchSize
        BY <2>2, Times
      <4> QED
        BY <4>1, <4>2
    <3>2. CASE Before(j) + 1 <= Before(i)
      <4>1. (Before(j) + 1) * BatchSize <= Before(i) * BatchSize
        BY <2>2, <3>2, Times
      <4>2. (Before(j) + 1) * BatchSize = Before(j) * BatchSize + BatchSize
        BY <2>2, Times
      <4> QED
        BY <4>1, <4>2
    <3> QED
      BY <2>2, <3>1, <3>2
  <2> HIDE DEF a, b, m
  <2> QED
    BY <1>3, <1>22, <2>1, <2>3, <2>4
<1>24. InProgress'
  <2>1. ASSUME NEW j \in Batches
        PROVE  EntriesOf(queue[j])' =
                  Numbered(queue[j], {n \in Numbers(j) : n <= lastSequence + inserted'})
    <3>1. EntriesOf(queue[j]) =
             Numbered(queue[j], {n \in Numbers(j) : n <= lastSequence + inserted})
      BY DEF DataInv, InProgress
    <3>2. \A n \in Numbers(j) : n \in Nat
      BY NewNumbers
    <3>3. CASE j = i
      <4>1. {n \in Numbers(j) : n <= lastSequence + inserted'}
              = {n \in Numbers(j) : n <= lastSequence + inserted} \cup {m}
        BY <1>1, <1>3, <1>22, <3>2, <3>3
      <4>2. EntriesOf(queue[j])' = EntriesOf(queue[j]) \cup {[of |-> queue[j], seq |-> m]}
        BY <1>12, <3>3
      <4> HIDE DEF m
      <4> QED
        BY <3>1, <4>1, <4>2 DEF Numbered
    <3>4. CASE j # i
      <4>1. m \notin Numbers(j)
        BY <1>23, <3>4
      <4>2. {n \in Numbers(j) : n <= lastSequence + inserted'}
              = {n \in Numbers(j) : n <= lastSequence + inserted}
        BY <1>1, <1>3, <3>2, <4>1
      <4>3. queue[j] # queue[i]
        <5>1. i \in 1 .. Len(queue) /\ j \in 1 .. Len(queue)
          BY BatchFacts DEF LineInv
        <5> QED
          BY <3>4, <5>1, QueueFacts DEF LineInv
      <4> QED
        BY <1>1, <1>11, <3>1, <4>2, <4>3
    <3> QED
      BY <3>3, <3>4
  <2> QED
    BY <1>1, <1>7, <1>8, <2>1 DEF InProgress
<1> QED
  BY <1>13, <1>14, <1>19, <1>20, <1>21, <1>24 DEF DataInv

\* Other calls come and go while a group is written.
LEMMA QuietData ==
    ASSUME LineInv, DataInv,
           UNCHANGED <<mem, imm, tables, oldLog, log, synced,
                       status, members, inserted, lastSequence>>,
           \A i \in 1 .. Len(queue) : queue'[i] = queue[i],
           members # 0 => Head(queue') = Head(queue) /\ pc'[Head(queue)] = pc[Head(queue)]
    PROVE  DataInv'
<1>1. \A i \in 1 .. members : queue'[i] = queue[i]
  BY QueueFacts DEF LineInv, QueueTypes
<1>2. Group' = Group
  BY <1>1, SameGroup
<1>3. GroupLogged'
  BY <1>2 DEF DataInv, GroupLogged
<1>4. log \subseteq Writers /\ synced \subseteq Writers
  BY DEF DataInv, StoreTypes
<1> QED
  BY <1>1, <1>3, <1>4, SameData

\* A thread comes to the queue.
LEMMA WriteData ==
    ASSUME LineInv, DataInv, NEW t \in Threads, Write(t)
    PROVE  DataInv'
<1>1. /\ pc[t] = "idle" /\ pc' = [pc EXCEPT ![t] = "queued"]
      /\ UNCHANGED <<mem, imm, tables, oldLog, log, synced, status, members, inserted,
                     lastSequence>>
  BY DEF Write, memory, logs
<1>2. /\ queue' \in Seq(Threads) /\ Len(queue') = Len(queue) + 1
      /\ \A i \in 1 .. Len(queue) : queue'[i] = queue[i] /\ queue[i] # t
  BY Queued
<1>3. members # 0 => Head(queue') = Head(queue) /\ pc'[Head(queue)] = pc[Head(queue)]
  <2> SUFFICES ASSUME members # 0
               PROVE  Head(queue') = Head(queue) /\ pc'[Head(queue)] = pc[Head(queue)]
    OBVIOUS
  <2>1. Len(queue) \in Nat /\ Len(queue) > 0
    BY QueueFacts DEF LineInv, QueueTypes
  <2>2. Head(queue) = queue[1] /\ 1 \in 1 .. Len(queue)
    BY <2>1, QueueFacts DEF LineInv
  <2>3. queue' # <<>>
    BY <1>2, <2>1, EmptySeq
  <2>4. Head(queue') = queue'[1]
    BY <1>2, <2>3, HeadTailProperties
  <2> QED
    BY <1>1, <1>2, <2>2, <2>4 DEF LineInv, QueueTypes
<1> QED
  BY <1>1, <1>2, <1>3, QuietData

\* A call beside the group, or the record or the sync of the group itself.
LEMMA BesideData ==
    ASSUME LineInv, DataInv, NEW t \in Threads, Beside(t)
    PROVE  DataInv'
<1>1. UNCHANGED <<queue, status, members, inserted, lastSequence>>
  BY BesideLine
<1>2. pc \in [Threads -> {"idle", "queued", "slow", "logging", "syncing", "inserting",
                          "imm", "manual", "returned"}]
  BY DEF LineInv, QueueTypes
<1>3. ASSUME UNCHANGED <<memory, logs>>, pc[t] \notin Writing,
             pc' = pc \/ \E x : pc' = [pc EXCEPT ![t] = x]
      PROVE  DataInv'
  <2>1. \A u \in Threads : u # t => pc'[u] = pc[u]
    BY <1>2, <1>3
  <2>2. members # 0 => Head(queue) # t /\ Head(queue) \in Threads
    <3>1. members # 0 => Head(queue) # t /\ Head(queue) \in Writers
      BY <1>3 DEF LineInv, Grouped
    <3> QED
      BY <3>1 DEF Threads
  <2>3. UNCHANGED <<mem, imm, tables, oldLog, log, synced>>
    BY <1>3 DEF memory, logs
  <2> QED
    BY <1>1, <2>1, <2>2, <2>3, QuietData
<1>4. CASE WokenDone(t)
  BY <1>3, <1>4 DEF WokenDone, Writing
<1>5. CASE RoomSlow(t) \/ Slept(t)
  BY <1>3, <1>5 DEF RoomSlow, Slept, Leading, Writing
<1>6. CASE RoomWait(t)
  BY <1>3, <1>6 DEF RoomWait, callVars, Leading, Writing
<1>7. CASE CompactRangeWaits(t) \/ CompactRange(t)
  BY <1>3, <1>7 DEF CompactRangeWaits, CompactRange, Writing
<1>8. CASE AddRecord(t) \/ SyncLog(t)
  <2>1. /\ UNCHANGED <<mem, imm, tables, oldLog>>
        /\ pc[t] \in Writing
    BY <1>8 DEF AddRecord, SyncLog, memory, Writing
  <2>2. queue # <<>> /\ t = Head(queue) /\ members # 0
    BY <2>1, WritingFirst
  <2>3. Group \subseteq Writers /\ Group' = Group
    BY <1>1, GroupFacts, SameGroup
  <2>4. log \subseteq Writers /\ synced \subseteq Writers
    BY DEF DataInv, StoreTypes
  <2>5. CASE AddRecord(t)
    <3>1. /\ log' = log \cup Group /\ synced' = synced
          /\ pc'[t] = IF t \in Sync THEN "syncing" ELSE "inserting"
      BY <1>2, <2>5 DEF AddRecord
    <3>2. GroupLogged'
      BY <1>1, <2>2, <2>3, <3>1 DEF GroupLogged
    <3> QED
      BY <1>1, <2>1, <2>3, <2>4, <3>1, <3>2, SameData
  <2>6. CASE SyncLog(t)
    <3>1. /\ log' = log /\ synced' = synced \cup log
          /\ pc[t] = "syncing" /\ pc'[t] = "inserting"
      BY <1>2, <2>6 DEF SyncLog
    <3>2. Group \subseteq log
      BY <2>2, <3>1 DEF DataInv, GroupLogged
    <3>3. GroupLogged'
      BY <1>1, <2>2, <2>3, <3>1, <3>2 DEF GroupLogged
    <3> QED
      BY <1>1, <2>1, <2>4, <3>1, <3>3, SameData
  <2> QED
    BY <1>8, <2>5, <2>6
<1> QED
  BY <1>4, <1>5, <1>6, <1>7, <1>8 DEF Beside

\* A memtable becomes a table: everything is stored as before.
LEMMA CompactMemTableData ==
    ASSUME LineInv, DataInv, CompactMemTable
    PROVE  DataInv'
<1>1. /\ tables' = tables \cup imm /\ imm' = {} /\ mem' = mem /\ oldLog' = {}
      /\ UNCHANGED <<queue, pc, status, members, inserted, lastSequence, log, synced>>
  BY DEF CompactMemTable, callVars, writing
<1>2. Stored' = Stored
  BY <1>1 DEF Stored
<1>3. \A w : EntriesOf(w)' = EntriesOf(w)
  BY <1>2, SameEntries
<1>4. /\ Batches' = Batches /\ Group' = Group /\ \A i : Before(i)' = Before(i)
  BY <1>1, SameGroup
<1>5. StoreTypes' /\ Counted'
  BY <1>1 DEF DataInv, StoreTypes, Counted
<1>6. LogCovers' /\ SyncKept'
  BY <1>1 DEF DataInv, Logged, LogCovers, SyncKept
<1>7. Logged' /\ GroupLogged'
  BY <1>1, <1>2, <1>4, <1>6 DEF DataInv, Logged, GroupLogged
<1>8. Applied' /\ Refused'
  BY <1>1, <1>3, <1>4 DEF DataInv, Applied, Refused
<1>9. \A i \in Batches : Numbers(i)' = Numbers(i)
  BY <1>1, <1>4 DEF Numbers
<1>10. InProgress'
  BY <1>1, <1>3, <1>4, <1>9 DEF DataInv, InProgress
<1> QED
  BY <1>5, <1>7, <1>8, <1>10 DEF DataInv

\* What the background thread leaves alone.
LEMMA BackgroundData ==
    ASSUME LineInv, DataInv, Background
    PROVE  /\ DataInv'
           /\ UNCHANGED <<queue, pc, status, members, inserted, lastSequence>>
<1>1. CASE CompactMemTable
  BY <1>1, CompactMemTableData DEF CompactMemTable, callVars, writing
<1>2. CASE BackgroundCall \/ CompactMemTableFails \/ Merge \/ MergeFails
  <2>1. /\ UNCHANGED <<queue, pc, status, members, inserted, lastSequence>>
        /\ UNCHANGED <<mem, imm, tables, oldLog, log, synced>>
    BY <1>2 DEF BackgroundCall, CompactMemTableFails, Merge, MergeFails, MergeEnds,
                callVars, writing, memory, logs
  <2> QED
    BY <2>1, QuietData
<1> QED
  BY <1>1, <1>2 DEF Background

-----------------------------------------------------------------------------
(* The invariant holds.                                                    *)

\* Every step keeps the invariant, whoever it is by.
LEMMA QueueInvariant == Spec => []QueueInv
<1>1. Init => QueueInv
  <2> SUFFICES ASSUME Init
               PROVE  QueueInv
    OBVIOUS
  <2>1. /\ queue = <<>> /\ members = 0 /\ inserted = 0 /\ lastSequence = 0
        /\ pc = [t \in Threads |-> "idle"] /\ status = [t \in Threads |-> "none"]
        /\ mem = {} /\ imm = {} /\ tables = {} /\ log = {} /\ oldLog = {} /\ synced = {}
    BY DEF Init
  <2>2. <<>> \in Seq(Threads) /\ Len(<<>>) = 0 /\ IsInjective(<<>>)
    BY EmptySeq, LenProperties DEF IsInjective
  <2>3. Batches = {} /\ Group = {} /\ Cardinality(Batches) = 0
    <3>1. Batches = {} /\ Group = {}
      BY <2>1 DEF Batches, Group
    <3> QED
      BY <3>1, FS_EmptySet
  <2>4. QueueTypes
    BY <2>1, <2>2 DEF QueueTypes
  <2>5. Lined
    BY <2>1, <2>2 DEF Lined, OneLogger
  <2>6. Grouped
    BY <2>1, <2>3, DecidedFacts DEF Grouped, Writing
  <2>7. Compacting
    BY <2>1 DEF Compacting
  <2>8. FlagTypes /\ Memtables
    <3>1. Stop \in Nat
      BY WriteQueueAssumption
    <3>2. /\ asleep = {} /\ l0 = 0 /\ bg = "idle"
          /\ bgManual = None /\ manual = None /\ manualDone = {}
      BY DEF Init
    <3>3. /\ force \in BOOLEAN /\ delay \in BOOLEAN
          /\ bgError \in BOOLEAN /\ shuttingDown \in BOOLEAN
      BY DEF Init
    <3>4. hasImm \in BOOLEAN /\ Memtables
      BY DEF Init, Memtables
    <3>5. l0 \in 0 .. Stop
      BY <3>1, <3>2
    <3> QED
      BY <3>2, <3>3, <3>4, <3>5 DEF FlagTypes
  <2>9. StoreTypes
    BY <2>1 DEF StoreTypes
  <2>10. Counted
    <3>1. BatchSize * Cardinality(Decided) \in Nat
      BY DecidedFacts
    <3> QED
      BY <2>1, <3>1 DEF Counted, Decided
  <2>11. \A w : EntriesOf(w) = {}
    BY <2>1 DEF EntriesOf, Stored
  <2>12. Logged /\ GroupLogged
    BY <2>1, WriteQueueAssumption DEF Logged, LogCovers, SyncKept, Stored, GroupLogged, Threads
  <2>13. Applied /\ Refused /\ InProgress
    BY <2>1, <2>3, <2>11 DEF Applied, Refused, InProgress, Threads
  <2> QED
    BY <2>4, <2>5, <2>6, <2>7, <2>8, <2>9, <2>10, <2>12, <2>13 DEF QueueInv, LineInv, DataInv
<1>2. QueueInv /\ [Next]_vars => QueueInv'
  <2> SUFFICES ASSUME QueueInv, [Next]_vars
               PROVE  QueueInv'
    OBVIOUS
  <2> USE DEF QueueInv
  <2>1. ASSUME UNCHANGED <<callVars, writing>>
        PROVE  LineInv' /\ Compacting'
    BY <2>1 DEF callVars, writing, LineInv, QueueTypes, Lined, OneLogger, Grouped, Batches,
                Compacting
  <2>2. CASE UNCHANGED vars
    <3>1. LineInv' /\ Compacting'
      BY <2>1, <2>2 DEF vars
    <3>2. FlagTypes' /\ Memtables'
      BY <2>2 DEF vars, callVars, writing, memory, bgVars, FlagTypes, Memtables
    <3>3. DataInv'
      BY <2>2, QuietData DEF vars, callVars, writing, memory, logs
    <3> QED
      BY <3>1, <3>2, <3>3
  <2>3. ASSUME NEW t \in Threads, Write(t) \/ Step(t)
        PROVE  QueueInv'
    <3>1. LineInv' /\ Compacting'
      BY <2>3, WriteLine, LineStep, CompactingStep
    <3>2. FlagTypes'
      <4>1. /\ asleep' \subseteq Threads /\ force' \in BOOLEAN /\ delay' \in BOOLEAN
        BY <2>3, CallFlags
      <4>2. /\ bgError' \in BOOLEAN /\ UNCHANGED <<shuttingDown, bgManual, manualDone>>
            /\ bg' \in {"idle", "scheduled", "flush", "merge", "crashed"}
            /\ manual' \in Compactors \cup {None}
        BY <2>3, CallBackground
      <4>3. hasImm' \in BOOLEAN /\ l0' = l0
        BY <2>3, CallMemtables
      <4>4. shuttingDown' \in BOOLEAN
        BY <4>2 DEF FlagTypes
      <4> QED
        BY <4>1, <4>2, <4>3, <4>4 DEF FlagTypes
    <3>3. Memtables'
      BY <2>3, CallMemtables
    <3>4. DataInv'
      <4>1. CASE Write(t)
        BY <4>1, WriteData
      <4>2. CASE FinishFirst(t)
        BY <4>2, FirstDoneData
      <4>3. CASE FinishGroup(t)
        BY <4>3, GroupDoneData
      <4>4. CASE FormGroup(t)
        BY <4>4, GroupFormedData
      <4>5. CASE Beside(t)
        BY <4>5, BesideData
      <4>6. CASE InsertInto(t)
        BY <4>6, InsertData
      <4> QED
        BY <2>3, <4>1, <4>2, <4>3, <4>4, <4>5, <4>6, StepCases
    <3> QED
      BY <3>1, <3>2, <3>3, <3>4
  <2>4. CASE Background
    <3>1. /\ DataInv' /\ FlagTypes' /\ Memtables'
          /\ UNCHANGED <<queue, pc, status, members, inserted, lastSequence>>
      BY <2>4, BackgroundData, BackgroundFlags
    <3>2. LineInv' /\ Compacting'
      BY <3>1 DEF LineInv, QueueTypes, Lined, OneLogger, Grouped, Batches, Compacting
    <3> QED
      BY <3>1, <3>2
  <2>5. CASE Close
    <3>1. LineInv' /\ Compacting'
      BY <2>1, <2>5 DEF Close
    <3>2. FlagTypes' /\ Memtables'
      <4>1. /\ UNCHANGED <<asleep, force, delay, hasImm, imm, l0, bg, bgError, bgManual,
                           manual, manualDone>>
            /\ shuttingDown' = TRUE
        BY <2>5 DEF Close, writing, memory
      <4> QED
        BY <4>1 DEF FlagTypes, Memtables
    <3>3. DataInv'
      BY <2>5, QuietData DEF Close, callVars, writing, memory, logs
    <3> QED
      BY <3>1, <3>2, <3>3
  <2> QED
    BY <2>2, <2>3, <2>4, <2>5 DEF Next
<1> QED
  BY <1>1, <1>2, PTL DEF Spec

-----------------------------------------------------------------------------
(* What the invariant says to a reader.                                    *)

\* As many entries as numbers.
LEMMA NumberedMany ==
    ASSUME NEW w, NEW b \in Nat
    PROVE  /\ IsFiniteSet(Numbered(w, (b + 1) .. (b + BatchSize)))
           /\ Cardinality(Numbered(w, (b + 1) .. (b + BatchSize))) = BatchSize
<1> DEFINE S == (b + 1) .. (b + BatchSize)
           T == Numbered(w, S)
           f == [s \in S |-> [of |-> w, seq |-> s]]
<1>1. BatchSize \in Nat
  BY WriteQueueAssumption
<1>2. IsFiniteSet(S) /\ Cardinality(S) = BatchSize
  <2>1. b + 1 \in Int /\ b + BatchSize \in Int
    BY <1>1
  <2>2. IF b + 1 > b + BatchSize THEN BatchSize = 0
        ELSE (b + BatchSize) - (b + 1) + 1 = BatchSize
    BY <1>1
  <2> QED
    BY <1>1, <2>1, <2>2, FS_Interval
<1>3. f \in Bijection(S, T)
  <2>1. f \in [S -> T]
    BY DEF Numbered
  <2>2. \A r, s \in S : f[r] = f[s] => r = s
    OBVIOUS
  <2>3. \A e \in T : \E s \in S : f[s] = e
    BY DEF Numbered
  <2> QED
    BY <2>1, <2>2, <2>3 DEF Bijection, Injection, Surjection, IsInjective
<1>4. ExistsBijection(S, T)
  BY <1>3 DEF ExistsBijection
<1> HIDE DEF S
<1>5. IsFiniteSet(T) /\ Cardinality(T) = BatchSize
  BY <1>2, <1>4, FS_Bijection
<1> QED
  BY <1>5 DEF S

\* A reader sees the whole of a batch that succeeded.
LEMMA SeesOk ==
    ASSUME QueueInv, NEW w \in Writers, status[w] = "ok"
    PROVE  /\ Cardinality({o \in Visible : o.of = w}) = BatchSize
           /\ \E e \in Visible : e.of = w
<1>1. PICK b \in Nat : /\ EntriesOf(w) = Numbered(w, (b + 1) .. (b + BatchSize))
                       /\ b + BatchSize <= lastSequence
  BY DEF QueueInv, DataInv, Applied
<1>2. BatchSize \in Nat \ {0} /\ lastSequence \in Nat
  BY WriteQueueAssumption DEF QueueInv, LineInv, QueueTypes
<1>3. \A e \in EntriesOf(w) : e.seq <= lastSequence
  <2> TAKE e \in EntriesOf(w)
  <2>1. PICK s \in (b + 1) .. (b + BatchSize) : e = [of |-> w, seq |-> s]
    BY <1>1 DEF Numbered
  <2> QED
    BY <1>1, <1>2, <2>1
<1>4. {o \in Visible : o.of = w} = EntriesOf(w)
  BY <1>3 DEF Visible, EntriesOf
<1>5. [of |-> w, seq |-> b + 1] \in EntriesOf(w)
  <2>1. b + 1 \in (b + 1) .. (b + BatchSize)
    BY <1>2
  <2> QED
    BY <1>1, <2>1 DEF Numbered
<1> QED
  BY <1>1, <1>4, <1>5, NumberedMany

\* And nothing of any other.
LEMMA SeesNoOther ==
    ASSUME QueueInv, NEW w \in Writers, status[w] # "ok"
    PROVE  \A e \in Visible : e.of # w
<1> SUFFICES ASSUME NEW e \in Visible, e.of = w
             PROVE  FALSE
  OBVIOUS
<1>1. e \in EntriesOf(w) /\ e.seq <= lastSequence
  BY DEF Visible, EntriesOf
<1>2. w \in Group
  BY <1>1 DEF QueueInv, DataInv, Refused
<1>3. PICK i \in Batches : w = queue[i]
  BY <1>2 DEF Group
<1>4. PICK s \in Numbers(i) : e = [of |-> w, seq |-> s]
  BY <1>1, <1>3 DEF QueueInv, DataInv, InProgress, Numbered
<1>5. s \in Nat /\ lastSequence < s /\ lastSequence \in Nat
  BY <1>4, NewNumbers DEF QueueInv, LineInv, QueueTypes
<1> QED
  BY <1>1, <1>4, <1>5

\* What is seen is what succeeded.
LEMMA SeenOk ==
    ASSUME QueueInv
    PROVE  Seen = {w \in Writers : status[w] = "ok"}
BY SeesOk, SeesNoOther DEF Seen

\* So whoever reads sees whole batches.
LEMMA BatchesWhole ==
    ASSUME QueueInv
    PROVE  WholeBatches
<1> SUFFICES ASSUME NEW e \in Visible
             PROVE  Cardinality({o \in Visible : o.of = e.of}) = BatchSize
  BY DEF WholeBatches
<1>1. e \in Entries
  BY DEF Visible, Stored, QueueInv, DataInv, StoreTypes
<1>2. e.of \in Writers
  BY <1>1 DEF Entries
<1> QED
  BY <1>2, SeesOk, SeesNoOther

\* The invariant gives the types, with the bounds on the counters.
LEMMA TypesHold ==
    ASSUME QueueInv
    PROVE  TypeOK
<1> USE DEF QueueInv
<1>1. /\ members \in Nat /\ inserted \in Nat /\ lastSequence \in Nat /\ BatchSize \in Nat
      /\ Len(queue) \in Nat /\ members <= Len(queue)
  BY QueueFacts, WriteQueueAssumption DEF LineInv, QueueTypes
<1>2. inserted <= BatchSize * members /\ BatchSize * members \in Nat
  <2> DEFINE c == Cardinality(Batches)
  <2>1. c \in Nat /\ c <= members
    BY BatchFacts DEF LineInv
  <2>2. inserted <= BatchSize * c
    BY DEF LineInv, Grouped
  <2> HIDE DEF c
  <2>3. /\ c * BatchSize <= members * BatchSize /\ c * BatchSize = BatchSize * c
        /\ c * BatchSize \in Nat
    BY <1>1, <2>1, Times
  <2>4. members * BatchSize \in Nat /\ members * BatchSize = BatchSize * members
    BY <1>1, Times
  <2> QED
    BY <1>1, <2>2, <2>3, <2>4
<1>3. lastSequence <= BatchSize * Cardinality(Writers) /\ BatchSize * Cardinality(Writers) \in Nat
  <2>1. EndSequence <= BatchSize * Cardinality(Writers)
    BY GroupCounted DEF DataInv
  <2>2. EndSequence \in Nat /\ lastSequence + inserted <= EndSequence
    BY Sequences
  <2>3. Cardinality(Writers) \in Nat
    BY WriteQueueAssumption, FS_CardinalityType
  <2>4. Cardinality(Writers) * BatchSize \in Nat
        /\ Cardinality(Writers) * BatchSize = BatchSize * Cardinality(Writers)
    BY <2>3, Times
  <2> QED
    BY <1>1, <2>1, <2>2, <2>4
<1>4. members \in 0 .. Len(queue) /\ inserted \in 0 .. BatchSize * members
  BY <1>1, <1>2
<1>5. lastSequence \in 0 .. BatchSize * Cardinality(Writers)
  BY <1>1, <1>3
<1>6. {force, delay, hasImm, bgError, shuttingDown} \subseteq BOOLEAN
  BY DEF FlagTypes
<1>7. mem \cup imm \cup tables \subseteq Entries /\ log \cup oldLog \cup synced \subseteq Writers
  BY DEF DataInv, StoreTypes
<1>8. /\ queue \in Seq(Threads) /\ IsInjective(queue)
      /\ pc \in [Threads -> {"idle", "queued", "slow", "logging", "syncing", "inserting",
                             "imm", "manual", "returned"}]
      /\ status \in [Threads -> {"none", "ok", "error"}]
  BY DEF LineInv, QueueTypes
<1>9. /\ asleep \subseteq Threads /\ l0 \in 0 .. Stop
      /\ bg \in {"idle", "scheduled", "flush", "merge", "crashed"}
      /\ {bgManual, manual} \subseteq Compactors \cup {None} /\ manualDone \subseteq Compactors
  BY DEF FlagTypes
<1> QED
  BY <1>4, <1>5, <1>6, <1>7, <1>8, <1>9 DEF TypeOK

\* The queue, the logs and the memtables stay as writers, readers and a recovery rely on
\* them, however calls, background work and failures interleave: one thread logs, a reader
\* sees whole batches, memory can be rebuilt from the logs, and a sync that was promised
\* was made.
THEOREM QueueStaysTrue == Spec => []QueueTrue
<1>1. ASSUME QueueInv
      PROVE  QueueTrue
  <2>1. TypeOK /\ WholeBatches
    BY <1>1, TypesHold, BatchesWhole
  <2>2. OneLogger /\ LogCovers /\ SyncKept
    BY <1>1 DEF QueueInv, LineInv, Lined, DataInv, Logged
  <2> QED
    BY <2>1, <2>2 DEF QueueTrue
<1> QED
  BY <1>1, QueueInvariant, PTL

-----------------------------------------------------------------------------
(* Write is atomic.                                                        *)

\* What the callers see of the queue: AtomicWrites' outcome.
Outcome == [w \in Writers |-> IF pc[w] = "idle" THEN "none"
                              ELSE IF status[w] = "none" THEN "called" ELSE status[w]]

SeenIsOk == Seen = {w \in Writers : status[w] = "ok"}

\* A step that no caller notices.
LEMMA Unnoticed ==
    ASSUME SeenIsOk, SeenIsOk', status' = status,
           \A w \in Writers : pc[w] = "idle" <=> pc'[w] = "idle"
    PROVE  UNCHANGED <<Seen, Outcome>>
BY DEF SeenIsOk, Outcome

\* A writer comes.
LEMMA Called ==
    ASSUME QueueInv, SeenIsOk, SeenIsOk', NEW t \in Threads, Write(t)
    PROVE  \/ t \in Writers /\ Writes!Call(t)
           \/ UNCHANGED <<Seen, Outcome>>
<1>1. /\ pc[t] = "idle" /\ pc' = [pc EXCEPT ![t] = "queued"] /\ status' = status
  BY DEF Write
<1>2. DOMAIN pc = Threads /\ Writers \subseteq Threads /\ status[t] = "none"
  BY <1>1 DEF QueueInv, LineInv, QueueTypes, Lined, Threads
<1>3. Seen' = Seen
  BY <1>1 DEF SeenIsOk
<1>4. CASE t \in Writers
  <2>1. Outcome[t] = "none"
    BY <1>1, <1>4 DEF Outcome
  <2>2. Outcome' = [Outcome EXCEPT ![t] = "called"]
    BY <1>1, <1>2, <1>4 DEF Outcome
  <2> QED
    BY <1>3, <1>4, <2>1, <2>2 DEF Writes!Call, Outcome
<1>5. CASE t \notin Writers
  <2>1. \A w \in Writers : pc[w] = "idle" <=> pc'[w] = "idle"
    BY <1>1, <1>2, <1>5
  <2> QED
    BY <1>1, <2>1, Unnoticed
<1> QED
  BY <1>4, <1>5

\* The first n get their status together.
LEMMA Decides ==
    ASSUME QueueInv, SeenIsOk, SeenIsOk',
           NEW n \in 1 .. Len(queue), NEW s \in {"ok", "error"}, NEW others,
           Finish(n, s, others)
    PROVE  \E S \in SUBSET Writers : Writes!Decide(S, s)
<1> DEFINE S == {w \in Writers : \E i \in 1 .. n : queue[i] = w}
           h == Head(queue)
<1>1. /\ Len(queue) \in Nat /\ \A i \in 1 .. Len(queue) : queue[i] \in Threads
      /\ Len(queue) > 0 /\ h = queue[1]
  BY QueueFacts DEF QueueInv, LineInv
<1>2. /\ DOMAIN pc = Threads /\ Writers \subseteq Threads
      /\ \A u \in Threads : status[u] \in {"none", "ok", "error"}
  BY DEF QueueInv, LineInv, QueueTypes, Threads
<1>3. /\ status' = [u \in Threads |-> IF \E i \in 1 .. n : queue[i] = u THEN s ELSE status[u]]
      /\ pc' = [pc EXCEPT ![h] = Returned(h)]
  BY DEF Finish
<1>4. \A i \in 1 .. Len(queue) : status[queue[i]] = "none" /\ pc[queue[i]] # "idle"
  BY DEF QueueInv, LineInv, Lined, Writing
<1>5. \A w \in Writers : pc[w] = "idle" <=> pc'[w] = "idle"
  <2>1. pc[h] # "idle" /\ Returned(h) # "idle"
    BY <1>1, <1>4 DEF Returned
  <2> QED
    BY <1>2, <1>3, <2>1
<1>6. \A w \in S : w \in Writers /\ status[w] = "none" /\ pc[w] # "idle" /\ status'[w] = s
  <2> TAKE w \in S
  <2>1. PICK i \in 1 .. n : queue[i] = w
    OBVIOUS
  <2>2. i \in 1 .. Len(queue)
    BY <1>1
  <2> QED
    BY <1>2, <1>3, <1>4, <2>1, <2>2
<1>7. \A w \in Writers \ S : status'[w] = status[w]
  BY <1>2, <1>3
<1> HIDE DEF S, h
<1>8. \A b \in S : Outcome[b] = "called"
  BY <1>6 DEF Outcome
<1>9. Outcome' = [b \in Writers |-> IF b \in S THEN s ELSE Outcome[b]]
  BY <1>5, <1>6, <1>7 DEF Outcome
<1>10. Seen' = IF s = "ok" THEN Seen \cup S ELSE Seen
  BY <1>6, <1>7 DEF SeenIsOk
<1>11. S \subseteq Writers
  BY DEF S
<1> QED
  BY <1>8, <1>9, <1>10, <1>11 DEF Writes!Decide, Outcome

\* Every step of a call is a step of AtomicWrites, or none.
LEMMA StepRefines ==
    ASSUME QueueInv, SeenIsOk, SeenIsOk', NEW t \in Threads, Step(t)
    PROVE  \/ \E S \in SUBSET Writers, result \in {"ok", "error"} : Writes!Decide(S, result)
           \/ UNCHANGED <<Seen, Outcome>>
<1>0. LineInv /\ DOMAIN pc = Threads /\ Writers \subseteq Threads
  BY DEF QueueInv, LineInv, QueueTypes, Threads
<1>1. CASE FinishFirst(t)
  <2>1. Leading(t) /\ \E s \in {"ok", "error"} : Finish(1, s, {})
    BY <1>0, <1>1, FirstDone
  <2>2. 1 \in 1 .. Len(queue)
    BY <1>0, <2>1, LeadingFirst
  <2> QED
    BY <2>1, <2>2, Decides
<1>2. CASE FinishGroup(t)
  <2>1. pc[t] \in Writing /\ \E s \in {"ok", "error"} : \E others : Finish(members, s, others)
    BY <1>0, <1>2, GroupDone
  <2>2. members \in 1 .. Len(queue)
    BY <1>0, <2>1, WritingFirst
  <2> QED
    BY <2>1, <2>2, Decides
<1>3. CASE FormGroup(t)
  <2>1. pc[t] = "queued" /\ pc' = [pc EXCEPT ![t] = "logging"] /\ status' = status
    BY <1>0, <1>3, GroupFormed DEF Leading
  <2>2. \A w \in Writers : pc[w] = "idle" <=> pc'[w] = "idle"
    BY <1>0, <2>1
  <2> QED
    BY <2>1, <2>2, Unnoticed
<1>4. CASE Beside(t)
  <2>1. status' = status /\ \A w \in Writers : pc[w] = "idle" <=> pc'[w] = "idle"
    BY <1>0, <1>4, BesideLine
  <2> QED
    BY <2>1, Unnoticed
<1>5. CASE InsertInto(t)
  <2>1. status' = status /\ pc' = pc
    BY <1>5 DEF InsertInto, callVars
  <2> QED
    BY <2>1, Unnoticed
<1> QED
  BY <1>1, <1>2, <1>3, <1>4, <1>5, StepCases

\* So is every step of the system.
LEMMA NextRefines ==
    ASSUME QueueInv, SeenIsOk, SeenIsOk', [Next]_vars
    PROVE  [Writes!Next]_(Writes!vars)
<1>1. UNCHANGED <<Seen, Outcome>> => UNCHANGED Writes!vars
  BY DEF Writes!vars, Outcome
<1>2. ASSUME UNCHANGED <<pc, status>>
      PROVE  UNCHANGED <<Seen, Outcome>>
  BY <1>2, Unnoticed
<1>3. CASE UNCHANGED vars
  BY <1>1, <1>2, <1>3 DEF vars, callVars
<1>4. CASE Background
  BY <1>1, <1>2, <1>4, BackgroundData DEF QueueInv
<1>5. CASE Close
  BY <1>1, <1>2, <1>5 DEF Close, callVars
<1>6. ASSUME NEW t \in Threads, Write(t)
      PROVE  [Writes!Next]_(Writes!vars)
  BY <1>1, <1>6, Called DEF Writes!Next
<1>7. ASSUME NEW t \in Threads, Step(t)
      PROVE  [Writes!Next]_(Writes!vars)
  BY <1>1, <1>7, StepRefines DEF Writes!Next
<1> QED
  BY <1>3, <1>4, <1>5, <1>6, <1>7 DEF Next

\* Write is atomic for its callers, whichever thread writes for which and whatever fails:
\* a batch that succeeded is seen whole between the call and the return, one that failed is
\* never seen.
THEOREM WritesAreAtomic == Spec => ImplementsAtomicWrites
<1>1. Init => Writes!Init
  <2> SUFFICES ASSUME Init
               PROVE  Writes!Init
    OBVIOUS
  <2>1. /\ pc = [t \in Threads |-> "idle"] /\ mem = {} /\ imm = {} /\ tables = {}
        /\ Writers \subseteq Threads
    BY DEF Init, Threads
  <2>2. Seen = {}
    BY <2>1 DEF Seen, Visible, Stored
  <2> QED
    BY <2>1, <2>2 DEF Writes!Init
<1>2. QueueInv => SeenIsOk
  BY SeenOk DEF SeenIsOk
<1>3. QueueInv /\ SeenIsOk /\ SeenIsOk' /\ [Next]_vars => [Writes!Next]_(Writes!vars)
  BY NextRefines
<1> QED
  BY <1>1, <1>2, <1>3, QueueInvariant, PTL DEF Spec, ImplementsAtomicWrites, Writes!Spec
=============================================================================
