---------------------------- MODULE ReadsProofs ----------------------------
(***************************************************************************)
(* Theorems about Reads and TableCache.  The iterator, for any keys,       *)
(* children and sequence numbers, is where its snapshot has it; for every  *)
(* number of keys, of levels and of readers the lists of the memtable stay *)
(* sorted, a reader never follows a link that was not stored, and it never *)
(* misses what was in the list before it began; and for any threads,       *)
(* tables, charges and capacity the cache of open tables is true to what   *)
(* threads asked for and hold, and evicts what the loops of the code evict *)
(* one by one.                                                             *)
(***************************************************************************)
EXTENDS Reads, TableCache, SequenceTheorems, FiniteSetTheorems, WellFoundedInduction, TLAPS

-----------------------------------------------------------------------------
(* Numbers.                                                                *)

(* A set of naturals has a least element.                                  *)
LEMMA LeastThere ==
    ASSUME NEW S, S \subseteq Nat, S # {}
    PROVE  Min(S) \in S /\ \A y \in S : Min(S) <= y
<1> DEFINE Less == {p \in Nat \X Nat : p[1] < p[2]}
<1>1. Less = OpToRel(<, Nat)
  BY Zenon DEF OpToRel
<1>2. IsWellFoundedOn(Less, Nat)
  BY <1>1, NatLessThanWellFounded, Zenon
<1>3. \A x, y \in Nat : x < y => <<x, y>> \in Less
  OBVIOUS
<1> HIDE DEF Less
<1>4. PICK x \in S : \A y \in S : ~ (<<y, x>> \in Less)
  BY <1>2, WFMin, Zenon
<1>5. \A y \in S : y \in Nat
  OBVIOUS
<1>6. \A y \in S : ~ (y < x)
  BY <1>3, <1>4, <1>5
<1>7. \A y \in S : x <= y
  BY <1>5, <1>6
<1>8. QED
  BY <1>7 DEF Min

(* The elements of a finite set of naturals are bounded.                   *)
LEMMA FiniteBounded ==
    ASSUME NEW S, S \subseteq Nat, IsFiniteSet(S)
    PROVE  \E b \in Nat : \A y \in S : y <= b
<1>0. PICK n \in Nat : \E f \in [1 .. n -> S] : \A y \in S : \E i \in 1 .. n : f[i] = y
  BY FS_NatSurjection DEF Surjection, ExistsSurjection
<1>1. PICK f \in [1 .. n -> S] : \A y \in S : \E i \in 1 .. n : f[i] = y
  BY <1>0
<1>2. \A i \in 1 .. n : f[i] \in Nat
  OBVIOUS
<1> DEFINE T == {m \in 0 .. n : \A b \in Nat : \E i \in 1 .. m : f[i] > b}
<1>3. ASSUME T # {}
      PROVE  FALSE
  <2>1. T \subseteq Nat
    OBVIOUS
  <2>2. PICK m \in T : \A k \in T : m <= k
    BY <1>3, <2>1, LeastThere
  <2>3. m \in 0 .. n /\ \A b \in Nat : \E i \in 1 .. m : f[i] > b
    OBVIOUS
  <2>4. m # 0
    BY <2>3
  <2>5. m - 1 \in 0 .. n
    BY <2>3, <2>4
  <2>5a. m - 1 \notin T
    <3>1. T \subseteq Nat /\ ~ (m <= m - 1)
      BY <2>1, <2>3
    <3> HIDE DEF T
    <3>2. QED
      BY <2>2, <3>1
  <2>6. PICK b \in Nat : \A i \in 1 .. m - 1 : ~ (f[i] > b)
    BY <2>5, <2>5a
  <2>7. f[m] \in Nat
    BY <1>2, <2>3, <2>4
  <2>8. PICK c \in Nat : b <= c /\ f[m] <= c
    BY <2>7
  <2>9. PICK i \in 1 .. m : f[i] > c
    BY <2>3
  <2>10. i = m \/ i \in 1 .. m - 1
    BY <2>3
  <2>11. f[i] \in Nat
    BY <1>2, <2>3
  <2>12. QED
    BY <2>6, <2>7, <2>8, <2>9, <2>10, <2>11
<1>4. n \notin T
  BY <1>3
<1>5. PICK b \in Nat : \A i \in 1 .. n : ~ (f[i] > b)
  BY <1>4
<1>6. \A i \in 1 .. n : f[i] <= b
  BY <1>2, <1>5
<1>7. QED
  BY <1>1, <1>6

(* A finite set of naturals has a greatest element.                        *)
LEMMA GreatestThere ==
    ASSUME NEW S, S \subseteq Nat, IsFiniteSet(S), S # {}
    PROVE  Max(S) \in S /\ \A y \in S : Max(S) >= y
<1>1. PICK b \in Nat : \A y \in S : y <= b
  BY FiniteBounded
<1> DEFINE D == {d \in Nat : b - d \in S}
<1>2. D \subseteq Nat
  OBVIOUS
<1>3. D # {}
  <2>1. PICK y \in S : TRUE
    OBVIOUS
  <2>2. b - y \in D
    BY <1>1, <2>1
  <2>3. QED
    BY <2>2
<1>4. PICK d \in D : \A k \in D : d <= k
  BY <1>2, <1>3, LeastThere
<1>5. b - d \in S
  BY <1>4
<1>6. \A y \in S : b - y \in D
  BY <1>1
<1>7. \A y \in S : b - d >= y
  BY <1>1, <1>4, <1>6
<1>8. QED
  BY <1>5, <1>7 DEF Max

-----------------------------------------------------------------------------
(* Internal keys.                                                          *)

(* A number is one multiple and one rest.                                  *)
LEMMA Multiples ==
    ASSUME NEW w \in Nat, NEW q \in Nat, NEW d \in Nat,
           NEW r \in 0 .. w - 1, NEW t \in 0 .. w - 1,
           w * q + r <= w * d + t
    PROVE  q <= d /\ (q = d => r <= t)
<1>1. ASSUME d < q
      PROVE  FALSE
  <2>1. PICK n \in Nat : q = d + 1 + n
    <3>1. q - d - 1 \in Nat /\ q = d + 1 + (q - d - 1)
      BY <1>1
    <3>2. QED
      BY <3>1
  <2>2. w * (d + 1 + n) = w * d + w + w * n
    OBVIOUS
  <2>3. w * n \in Nat /\ w * d \in Nat
    OBVIOUS
  <2>4. w * q = w * d + w + w * n
    BY <2>1, <2>2
  <2> DEFINE x == w * d
             y == w * n
  <2> HIDE DEF x, y
  <2>5. x \in Nat /\ y \in Nat /\ x + w + y + r <= x + t
    BY <2>3, <2>4 DEF x, y
  <2>6. QED
    BY <2>5
<1>2. ASSUME q = d
      PROVE  r <= t
  <2> DEFINE x == w * d
  <2>1. x \in Nat
    OBVIOUS
  <2>2. x + r <= x + t
    BY <1>2
  <2> HIDE DEF x
  <2>3. QED
    BY <2>1, <2>2
<1>3. QED
  BY <1>1, <1>2

(* An internal key is made of its user key and sequence number.            *)
LEMMA EntryParts ==
    ASSUME CursorAssumption, NEW k \in Nat, NEW s \in 0 .. MaxSequence
    PROVE  Entry(k, s) \in Nat /\ UserKey(Entry(k, s)) = k /\ SequenceOf(Entry(k, s)) = s
<1> DEFINE w == MaxSequence + 1
           r == MaxSequence - s
<1>1. w \in Nat \ {0} /\ r \in 0 .. w - 1
  BY DEF CursorAssumption
<1>2. Entry(k, s) = k * w + r
  BY DEF Entry
<1> HIDE DEF w, r
<1> DEFINE e == k * w + r
           q == e \div w
           t == e % w
<1>3. w * k \in Nat /\ w * k = k * w
  BY <1>1
<1>4. e \in Nat
  BY <1>1, <1>3
<1>5. q \in Nat /\ t \in 0 .. w - 1 /\ e = w * q + t
  <2> HIDE DEF e
  <2> QED BY <1>1, <1>4
<1>6. w * k + r = w * q + t
  BY <1>3, <1>5
<1> HIDE DEF e, q, t
<1>7. w * k + r \in Nat
  BY <1>1, <1>3
<1>8. w * k + r <= w * q + t /\ w * q + t <= w * k + r
  BY <1>6, <1>7
<1>9. k <= q /\ (k = q => r <= t) /\ q <= k /\ (q = k => t <= r)
  BY <1>1, <1>5, <1>8, Multiples
<1>10. k = q /\ r = t
  BY <1>1, <1>5, <1>9
<1>11. e \div w = k /\ e % w = r
  BY <1>10 DEF q, t
<1>12. QED
  BY <1>1, <1>2, <1>4, <1>11 DEF e, w, r, UserKey, SequenceOf, CursorAssumption

(* Internal keys are ordered by user key, and the newest comes first.      *)
LEMMA KeyOrder ==
    ASSUME CursorAssumption, NEW e \in Nat, NEW o \in Nat, e <= o
    PROVE  /\ UserKey(e) \in Nat /\ UserKey(o) \in Nat /\ UserKey(e) <= UserKey(o)
           /\ SequenceOf(e) \in 0 .. MaxSequence
           /\ UserKey(e) = UserKey(o) => SequenceOf(o) <= SequenceOf(e)
<1> DEFINE w == MaxSequence + 1
<1>1. w \in Nat \ {0} /\ MaxSequence \in Nat
  BY DEF CursorAssumption
<1> HIDE DEF w
<1>2. e \div w \in Nat /\ o \div w \in Nat /\ e % w \in 0 .. w - 1 /\ o % w \in 0 .. w - 1
  BY <1>1
<1>3. e = w * (e \div w) + (e % w) /\ o = w * (o \div w) + (o % w)
  BY <1>1
<1>4. w * (e \div w) + (e % w) <= w * (o \div w) + (o % w)
  BY <1>3
<1>5. e \div w <= o \div w /\ (e \div w = o \div w => e % w <= o % w)
  BY <1>1, <1>2, <1>4, Multiples
<1>6. QED
  BY <1>1, <1>2, <1>5 DEF w, UserKey, SequenceOf
-----------------------------------------------------------------------------
(* The inductive invariant.  c stands for child, m for merge.              *)

All(c) == UNION {c[i] : i \in Children}

\* What the snapshot of the iterator can see; no writer adds to it.
Seen(e) == SequenceOf(e) <= Sequence

\* What the children hold: no more than sequence numbers were given out.
Kept(c) ==
    /\ c \in [Children -> SUBSET Nat]
    /\ IsFiniteSet(All(c)) /\ Sequence <= Cardinality(All(c))
    /\ \A e \in All(c) : UserKey(e) \in UserKeys

\* Every child is at an entry of its own, or not valid.
Stands(c, m) ==
    /\ m.pos \in [Children -> Nat] /\ m.current \in Children \cup {0}
    /\ \A i \in Children : m.pos[i] # 0 => m.pos[i] \in c[i]
    /\ m.current # 0 => m.pos[m.current] # 0

\* The current child is the first, and no child has left out an entry past it that can
\* be seen; it may have left out what was written since.
Rising(c, m) ==
    \A i \in Children :
        /\ m.pos[i] # 0 => At(m) <= m.pos[i]
        /\ \A y \in c[i] : Seen(y) /\ At(m) < y => m.pos[i] # 0 /\ m.pos[i] <= y

\* The same backwards, as far as the keys before limit.
FallingBefore(c, m, limit) ==
    \A i \in Children :
        /\ m.pos[i] # 0 => m.pos[i] <= At(m)
        /\ \A y \in c[i] : Seen(y) /\ UserKey(y) < limit => m.pos[i] # 0 /\ y <= m.pos[i]
Falling(c, m) ==
    \A i \in Children :
        /\ m.pos[i] # 0 => m.pos[i] <= At(m)
        /\ \A y \in c[i] : Seen(y) /\ y < At(m) => m.pos[i] # 0 /\ y <= m.pos[i]

\* An entry was taken for its key's newest, and the MergingIterator is just before it.
Taken(c, m) ==
    /\ value \in All(c) /\ Seen(value) /\ value \notin deleted /\ saved = UserKey(value)
    /\ m.current # 0 => At(m) <= value
    /\ \A o \in All(c) : Seen(o) /\ o < value => m.current # 0 /\ o <= At(m)

FlagTypes ==
    /\ {forward, valid, skipping, found} \subseteq BOOLEAN
    /\ pc \in {"idle", "next", "turn", "prev"}

Data ==
    /\ Kept(child) /\ deleted \subseteq All(child) /\ Stands(child, merge)
    /\ saved \in UserKeys \cup {0} /\ value \in All(child) \cup {0}

\* Forwards: what was passed has an earlier key or one that is skipped, and of what is
\* ahead the first that is not skipped is where the call should end.
NextInv ==
    pc = "next" =>
        /\ forward /\ merge.forward /\ merge.current # 0 /\ Rising(child, merge)
        /\ \A o \in All(child) : Seen(o) /\ o < At(merge) =>
              UserKey(o) < UserKey(At(merge)) \/ (skipping /\ UserKey(At(merge)) <= saved)
        /\ skipping => \A o \in All(child) : Seen(o) /\ At(merge) <= o => saved <= UserKey(o)
        /\ expected = Least({e \in View : At(merge) <= e /\ (skipping => saved < UserKey(e))})

\* Turning: the MergingIterator has not come past the key yet.
TurnInv ==
    pc = "turn" =>
        /\ forward /\ ~found /\ merge.current # 0 /\ saved <= UserKey(At(merge))
        /\ ~merge.forward => FallingBefore(child, merge, saved)
        /\ expected = Greatest({e \in View : UserKey(e) < saved})

\* Backwards: what the call should end at is still ahead, or is the entry taken.
PrevInv ==
    pc = "prev" =>
        /\ ~forward /\ ~merge.forward /\ (merge.current # 0 => Falling(child, merge))
        /\ found => Taken(child, merge)
        /\ expected = Greatest({e \in View : \/ merge.current # 0 /\ e <= At(merge)
                                             \/ found /\ e = value})

\* At rest: where the iterator is, and that what it rests on can be left either way.
IdleInv ==
    pc = "idle" =>
        /\ ~valid => expected = 0
        /\ valid /\ forward =>
              /\ merge.forward /\ merge.current # 0 /\ Rising(child, merge)
              /\ expected = At(merge)
        /\ valid /\ ~forward =>
              /\ ~merge.forward /\ Taken(child, merge) /\ expected = value
              /\ merge.current # 0 =>
                    Falling(child, merge) /\ UserKey(At(merge)) < saved

Inv == FlagTypes /\ Data /\ NextInv /\ TurnInv /\ PrevInv /\ IdleInv

-----------------------------------------------------------------------------
(* The MergingIterator.                                                    *)

(* The first of a set of entries, if there is one.                         *)
LEMMA LeastOf ==
    ASSUME NEW S, S \subseteq Nat \ {0}
    PROVE  /\ Least(S) \in Nat /\ (Least(S) # 0 => Least(S) \in S)
           /\ \A y \in S : Least(S) # 0 /\ Least(S) <= y
<1>1. CASE S = {}
  BY <1>1 DEF Least
<1>2. CASE S # {}
  <2>1. S \subseteq Nat /\ Least(S) = Min(S)
    BY <1>2 DEF Least
  <2>2. Min(S) \in S /\ \A y \in S : Min(S) <= y
    BY <1>2, <2>1, LeastThere
  <2>3. QED
    BY <2>1, <2>2
<1>3. QED
  BY <1>1, <1>2

(* The last of them.                                                       *)
LEMMA GreatestOf ==
    ASSUME NEW S, S \subseteq Nat \ {0}, IsFiniteSet(S)
    PROVE  /\ Greatest(S) \in Nat /\ (Greatest(S) # 0 => Greatest(S) \in S)
           /\ \A y \in S : Greatest(S) # 0 /\ y <= Greatest(S)
<1>1. CASE S = {}
  BY <1>1 DEF Greatest
<1>2. CASE S # {}
  <2>1. S \subseteq Nat /\ Greatest(S) = Max(S)
    BY <1>2 DEF Greatest
  <2>2. Max(S) \in S /\ \A y \in S : Max(S) >= y
    BY <1>2, <2>1, GreatestThere
  <2>3. QED
    BY <2>1, <2>2
<1>3. QED
  BY <1>1, <1>2

(* Entries are numbers that are not 0, and there are finitely many.        *)
LEMMA KeptFacts ==
    ASSUME CursorAssumption, NEW c, Kept(c)
    PROVE  /\ All(c) \subseteq Nat \ {0}
           /\ \A i \in Children : c[i] \subseteq All(c) /\ c[i] \subseteq Nat \ {0}
           /\ \A S \in SUBSET All(c) : IsFiniteSet(S)
           /\ \A e \in All(c) : UserKey(e) \in Nat \ {0} /\ UserKey(e) \in UserKeys
           /\ 0 \notin Children
<1>1. \A i \in Children : c[i] \subseteq All(c)
  BY DEF All
<1>2. \A e \in All(c) : e \in Nat
  BY DEF All, Kept
<1>3. \A e \in All(c) : UserKey(e) \in Nat \ {0} /\ UserKey(e) \in UserKeys
  BY DEF Kept, CursorAssumption
<1>4. UserKey(0) = 0
  <2>1. MaxSequence \in Nat
    BY DEF CursorAssumption
  <2>2. 0 * (MaxSequence + 1) + (MaxSequence - MaxSequence) = 0
    BY <2>1
  <2>3. UserKey(Entry(0, MaxSequence)) = 0 /\ Entry(0, MaxSequence) = 0
    BY <2>1, <2>2, EntryParts DEF Entry
  <2>4. QED
    BY <2>3
<1>5. 0 \notin All(c)
  BY <1>3, <1>4
<1>6. ASSUME NEW S \in SUBSET All(c)
      PROVE  IsFiniteSet(S)
  BY FS_Subset DEF Kept
<1>7. QED
  BY <1>1, <1>2, <1>3, <1>5, <1>6 DEF CursorAssumption

(* The first of the positions is found.                                    *)
LEMMA AheadFacts ==
    ASSUME CursorAssumption, NEW c, Kept(c), NEW p \in [Children -> Nat],
           \A i \in Children : p[i] # 0 => p[i] \in c[i]
    PROVE  /\ Stands(c, Ahead(p)) /\ Ahead(p).forward /\ Ahead(p).pos = p
           /\ Ahead(p).current = 0 => \A i \in Children : p[i] = 0
           /\ Ahead(p).current # 0 =>
                 /\ At(Ahead(p)) \in All(c)
                 /\ \A i \in Children : p[i] # 0 => At(Ahead(p)) <= p[i]
<1> DEFINE on == {i \in Children : p[i] # 0}
           m == Ahead(p)
<1>1. m.pos = p /\ m.current = FindSmallest(p) /\ m.forward /\ At(m) = p[m.current]
  BY DEF Ahead, At
<1>2. 0 \notin Children /\ \A i \in Children : c[i] \subseteq All(c)
  BY KeptFacts
<1>3. CASE on = {}
  <2>1. m.current = 0 /\ \A i \in Children : p[i] = 0
    BY <1>1, <1>3 DEF FindSmallest
  <2>2. QED
    BY <1>1, <2>1 DEF Stands
<1>4. CASE on # {}
  <2> DEFINE S == {p[i] : i \in on}
  <2>1. S \subseteq Nat /\ S # {}
    BY <1>4
  <2>2. Min(S) \in S /\ \A y \in S : Min(S) <= y
    <3> HIDE DEF S
    <3> QED BY <2>1, LeastThere
  <2>3. PICK i \in on : \A j \in on : p[i] <= p[j]
    BY <2>2
  <2>4. FindSmallest(p) = CHOOSE k \in on : \A j \in on : p[k] <= p[j]
    BY <1>4 DEF FindSmallest
  <2>5. m.current \in on /\ \A j \in on : p[m.current] <= p[j]
    BY <1>1, <2>3, <2>4
  <2>6. m.current \in Children /\ m.current # 0 /\ p[m.current] # 0
    BY <1>2, <2>5
  <2>7. At(m) \in All(c) /\ \A j \in Children : p[j] # 0 => At(m) <= p[j]
    BY <1>1, <1>2, <2>5, <2>6
  <2>8. Stands(c, m)
    BY <1>1, <2>6 DEF Stands
  <2>9. QED
    BY <1>1, <2>6, <2>7, <2>8
<1>5. QED
  BY <1>3, <1>4

(* And the last of them.                                                   *)
LEMMA BehindFacts ==
    ASSUME CursorAssumption, NEW c, Kept(c), NEW p \in [Children -> Nat],
           \A i \in Children : p[i] # 0 => p[i] \in c[i]
    PROVE  /\ Stands(c, Behind(p)) /\ ~Behind(p).forward /\ Behind(p).pos = p
           /\ Behind(p).current = 0 => \A i \in Children : p[i] = 0
           /\ Behind(p).current # 0 =>
                 /\ At(Behind(p)) \in All(c)
                 /\ \A i \in Children : p[i] # 0 => p[i] <= At(Behind(p))
<1> DEFINE on == {i \in Children : p[i] # 0}
           m == Behind(p)
<1>1. m.pos = p /\ m.current = FindLargest(p) /\ ~m.forward /\ At(m) = p[m.current]
  BY DEF Behind, At
<1>2. 0 \notin Children /\ \A i \in Children : c[i] \subseteq All(c)
  BY KeptFacts
<1>3. CASE on = {}
  <2>1. m.current = 0 /\ \A i \in Children : p[i] = 0
    BY <1>1, <1>3 DEF FindLargest
  <2>2. QED
    BY <1>1, <2>1 DEF Stands
<1>4. CASE on # {}
  <2> DEFINE S == {p[i] : i \in on}
  <2>1. S \subseteq Nat /\ S # {} /\ S \in SUBSET All(c)
    BY <1>2, <1>4
  <2>2. Max(S) \in S /\ \A y \in S : Max(S) >= y
    <3> HIDE DEF S
    <3>1. IsFiniteSet(S)
      BY <2>1, KeptFacts
    <3> QED BY <2>1, <3>1, GreatestThere
  <2>3. PICK i \in on : \A j \in on : p[i] >= p[j]
    BY <2>2
  <2>4. FindLargest(p) = CHOOSE k \in on : \A j \in on : p[k] >= p[j]
    BY <1>4 DEF FindLargest
  <2>5. m.current \in on /\ \A j \in on : p[m.current] >= p[j]
    BY <1>1, <2>3, <2>4
  <2>6. m.current \in Children /\ m.current # 0 /\ p[m.current] # 0
    BY <1>2, <2>5
  <2>7. At(m) \in All(c) /\ \A j \in Children : p[j] # 0 => p[j] <= At(m)
    BY <1>1, <1>2, <2>5, <2>6
  <2>8. Stands(c, m)
    BY <1>1, <2>6 DEF Stands
  <2>9. QED
    BY <1>1, <2>6, <2>7, <2>8
<1>5. QED
  BY <1>3, <1>4

(* Sent to the first entries from e on, it leaves out none.                *)
LEMMA SeekFacts ==
    ASSUME CursorAssumption, Kept(child), NEW e \in Nat
    PROVE  /\ Stands(child, SeekAll(e)) /\ SeekAll(e).forward
           /\ SeekAll(e).current = 0 => \A y \in All(child) : y < e
           /\ SeekAll(e).current # 0 =>
                 /\ Rising(child, SeekAll(e)) /\ At(SeekAll(e)) \in All(child)
                 /\ e <= At(SeekAll(e))
                 /\ \A y \in All(child) : e <= y => At(SeekAll(e)) <= y
<1> DEFINE p == AllFrom(e)
           m == SeekAll(e)
<1>1. m = Ahead(p)
  BY DEF SeekAll
<1>2. ASSUME NEW i \in Children
      PROVE  /\ p[i] \in Nat /\ (p[i] # 0 => p[i] \in child[i] /\ e <= p[i])
             /\ \A y \in child[i] : e <= y => p[i] # 0 /\ p[i] <= y
  <2> DEFINE S == {x \in child[i] : x >= e}
  <2>1. child[i] \subseteq Nat \ {0}
    BY KeptFacts
  <2>2. p[i] = Least(S) /\ S \subseteq Nat \ {0}
    BY <2>1 DEF AllFrom
  <2>3. /\ Least(S) \in Nat /\ (Least(S) # 0 => Least(S) \in S)
        /\ \A y \in S : Least(S) # 0 /\ Least(S) <= y
    <3> HIDE DEF S
    <3> QED BY <2>2, LeastOf
  <2>4. QED
    BY <2>1, <2>2, <2>3
<1>3. p \in [Children -> Nat]
  BY <1>2 DEF AllFrom
<1> HIDE DEF p
<1>4. /\ Stands(child, m) /\ m.forward /\ m.pos = p
      /\ m.current = 0 => \A i \in Children : p[i] = 0
      /\ m.current # 0 => /\ At(m) \in All(child)
                          /\ \A i \in Children : p[i] # 0 => At(m) <= p[i]
  BY <1>1, <1>2, <1>3, AheadFacts
<1> HIDE DEF m
<1>5. \A y \in All(child) : y \in Nat /\ \E i \in Children : y \in child[i]
  BY KeptFacts DEF All
<1>6. ASSUME m.current = 0
      PROVE  \A y \in All(child) : y < e
  BY <1>2, <1>4, <1>5, <1>6
<1>7. ASSUME m.current # 0
      PROVE  /\ Rising(child, m) /\ e <= At(m)
             /\ \A y \in All(child) : e <= y => At(m) <= y
  <2>1. At(m) \in Nat /\ At(m) \in All(child) /\ At(m) = p[m.current] /\ m.current \in Children
    BY <1>4, <1>5, <1>7 DEF At, Stands
  <2>2. e <= At(m)
    BY <1>2, <1>4, <1>7, <2>1 DEF Stands
  <2>3. \A i \in Children : \A y \in child[i] : y \in Nat
    BY <1>5 DEF All
  <2>4. ASSUME NEW i \in Children, NEW y \in child[i], e <= y
        PROVE  p[i] # 0 /\ p[i] <= y /\ At(m) <= y
    BY <1>2, <1>4, <1>7, <2>1, <2>3, <2>4
  <2>5. Rising(child, m)
    BY <1>4, <1>7, <2>1, <2>2, <2>3, <2>4 DEF Rising
  <2>6. QED
    BY <1>5, <2>2, <2>4, <2>5
<1>8. QED
  BY <1>4, <1>6, <1>7 DEF m

(* Sent to the first of all, it leaves out none.                           *)
LEMMA FirstFacts ==
    ASSUME CursorAssumption, Kept(child)
    PROVE  /\ Stands(child, FirstOfAll) /\ FirstOfAll.forward
           /\ FirstOfAll.current = 0 => All(child) = {}
           /\ FirstOfAll.current # 0 =>
                 /\ Rising(child, FirstOfAll) /\ At(FirstOfAll) \in All(child)
                 /\ \A y \in All(child) : At(FirstOfAll) <= y
<1>1. \A i \in Children : child[i] \subseteq Nat
  BY KeptFacts
<1>2. \A i \in Children : {x \in child[i] : x >= 0} = child[i]
  BY <1>1
<1>3. AllFrom(0) = [i \in Children |-> Least(child[i])]
  BY <1>2 DEF AllFrom
<1>4. FirstOfAll = SeekAll(0)
  BY <1>3 DEF FirstOfAll, SeekAll
<1>5. \A y \in All(child) : y \in Nat
  BY KeptFacts
<1>6. QED
  BY <1>4, <1>5, SeekFacts

(* Sent to the last of all, it leaves out none.                            *)
LEMMA LastFacts ==
    ASSUME CursorAssumption, Kept(child)
    PROVE  /\ Stands(child, LastOfAll) /\ ~LastOfAll.forward
           /\ LastOfAll.current = 0 => All(child) = {}
           /\ LastOfAll.current # 0 =>
                 /\ Falling(child, LastOfAll) /\ At(LastOfAll) \in All(child)
                 /\ \A y \in All(child) : y <= At(LastOfAll)
<1> DEFINE p == [i \in Children |-> Greatest(child[i])]
           m == LastOfAll
<1>1. m = Behind(p)
  BY DEF LastOfAll
<1>2. ASSUME NEW i \in Children
      PROVE  /\ p[i] \in Nat /\ (p[i] # 0 => p[i] \in child[i])
             /\ \A y \in child[i] : p[i] # 0 /\ y <= p[i]
  <2>1. child[i] \subseteq Nat \ {0} /\ IsFiniteSet(child[i])
    BY KeptFacts
  <2>2. QED
    BY <2>1, GreatestOf
<1>3. p \in [Children -> Nat]
  BY <1>2
<1> HIDE DEF p
<1>4. /\ Stands(child, m) /\ ~m.forward /\ m.pos = p
      /\ m.current = 0 => \A i \in Children : p[i] = 0
      /\ m.current # 0 => /\ At(m) \in All(child)
                          /\ \A i \in Children : p[i] # 0 => p[i] <= At(m)
  BY <1>1, <1>2, <1>3, BehindFacts
<1> HIDE DEF m
<1>5. \A y \in All(child) : y \in Nat /\ \E i \in Children : y \in child[i]
  BY KeptFacts DEF All
<1>6. ASSUME m.current = 0
      PROVE  All(child) = {}
  BY <1>2, <1>4, <1>5, <1>6
<1>7. ASSUME m.current # 0
      PROVE  Falling(child, m) /\ \A y \in All(child) : y <= At(m)
  <2>1. Falling(child, m)
    BY <1>2, <1>4, <1>7 DEF Falling
  <2>2. At(m) \in Nat
    BY <1>4, <1>5, <1>7
  <2>3. QED
    BY <1>2, <1>4, <1>5, <1>7, <2>1, <2>2
<1>8. QED
  BY <1>4, <1>6, <1>7 DEF m

(* Next: to the entry after the one it is at.                              *)
LEMMA NextOfFacts ==
    ASSUME CursorAssumption, Kept(child), NEW m, Stands(child, m), m.current # 0,
           m.forward => Rising(child, m)
    PROVE  /\ Stands(child, NextOf(m)) /\ NextOf(m).forward
           /\ NextOf(m).current = 0 => \A y \in All(child) : Seen(y) => y <= At(m)
           /\ NextOf(m).current # 0 =>
                 /\ Rising(child, NextOf(m)) /\ At(NextOf(m)) \in All(child)
                 /\ At(m) <= At(NextOf(m)) /\ (~m.forward => At(m) < At(NextOf(m)))
                 /\ \A y \in All(child) : Seen(y) /\ At(m) < y => At(NextOf(m)) <= y
<1> DEFINE x == At(m)
           after(i) == Least({y \in child[i] : y > x})
           q == IF m.forward THEN m.pos ELSE [i \in Children |-> after(i)]
           p == [q EXCEPT ![m.current] = after(m.current)]
           n == NextOf(m)
<1>1. n = Ahead(p)
  BY DEF NextOf
<1>2. /\ m.current \in Children /\ m.pos \in [Children -> Nat] /\ x \in child[m.current]
      /\ x = m.pos[m.current] /\ x \in Nat
  BY DEF Stands, At
<1>3. ASSUME NEW i \in Children
      PROVE  /\ after(i) \in Nat /\ (after(i) # 0 => after(i) \in child[i] /\ x < after(i))
             /\ \A y \in child[i] : x < y => after(i) # 0 /\ after(i) <= y
  <2> DEFINE S == {y \in child[i] : y > x}
  <2>1. child[i] \subseteq Nat \ {0}
    BY KeptFacts
  <2>2. S \subseteq Nat \ {0}
    BY <2>1
  <2>3. /\ Least(S) \in Nat /\ (Least(S) # 0 => Least(S) \in S)
        /\ \A y \in S : Least(S) # 0 /\ Least(S) <= y
    <3> HIDE DEF S
    <3> QED BY <2>2, LeastOf
  <2>4. Least(S) # 0 => Least(S) \in child[i] /\ Least(S) > x
    BY <2>3
  <2>5. \A y \in child[i] : x < y => y \in S
    BY <1>2, <2>1
  <2>6. after(i) = Least(S)
    OBVIOUS
  <2> HIDE DEF S, after
  <2>7. QED
    BY <1>2, <2>1, <2>3, <2>4, <2>5, <2>6
<1>4. ASSUME NEW i \in Children
      PROVE  p[i] = IF i = m.current \/ ~m.forward THEN after(i) ELSE m.pos[i]
  BY <1>2
<1>5. p \in [Children -> Nat]
  BY <1>2, <1>3
<1> HIDE DEF p, after
<1>6. ASSUME NEW i \in Children
      PROVE  /\ p[i] # 0 => p[i] \in child[i] /\ x <= p[i]
             /\ p[i] # 0 /\ ~m.forward => x < p[i]
             /\ \A y \in child[i] : Seen(y) /\ x < y => p[i] # 0 /\ p[i] <= y
  <2>1. CASE i = m.current \/ ~m.forward
    <3>1. p[i] = after(i)
      BY <1>4, <2>1
    <3>2. after(i) \in Nat
      BY <1>3
    <3>3. QED
      BY <1>2, <1>3, <3>1, <3>2
  <2>2. CASE i # m.current /\ m.forward
    <3>1. p[i] = m.pos[i]
      BY <1>4, <2>2
    <3>2. QED
      BY <2>2, <3>1 DEF Rising, Stands
  <2>3. QED
    BY <2>1, <2>2
<1>7. /\ Stands(child, n) /\ n.forward /\ n.pos = p
      /\ n.current = 0 => \A i \in Children : p[i] = 0
      /\ n.current # 0 => /\ At(n) \in All(child)
                          /\ \A i \in Children : p[i] # 0 => At(n) <= p[i]
  BY <1>1, <1>5, <1>6, AheadFacts
<1> HIDE DEF n
<1>8. \A y \in All(child) : y \in Nat /\ \E i \in Children : y \in child[i]
  BY KeptFacts DEF All
<1>9. ASSUME n.current = 0
      PROVE  \A y \in All(child) : Seen(y) => y <= x
  BY <1>2, <1>6, <1>7, <1>8, <1>9
<1>10. ASSUME n.current # 0
       PROVE  /\ Rising(child, n) /\ x <= At(n) /\ (~m.forward => x < At(n))
              /\ \A y \in All(child) : Seen(y) /\ x < y => At(n) <= y
  <2>1. At(n) \in Nat /\ At(n) \in All(child) /\ At(n) = p[n.current] /\ n.current \in Children
    BY <1>7, <1>8, <1>10 DEF At, Stands
  <2>2. x <= At(n) /\ (~m.forward => x < At(n))
    BY <1>6, <1>7, <1>10, <2>1 DEF Stands
  <2>3. \A i \in Children : \A y \in child[i] : y \in Nat
    BY <1>8 DEF All
  <2>4. ASSUME NEW i \in Children, NEW y \in child[i], Seen(y), x < y
        PROVE  p[i] # 0 /\ p[i] <= y /\ At(n) <= y
    <3>1. p[i] # 0 /\ p[i] <= y /\ p[i] \in Nat /\ y \in Nat
      BY <1>5, <1>6, <2>3, <2>4
    <3>2. At(n) <= p[i]
      BY <1>7, <1>10, <3>1
    <3>3. QED
      BY <2>1, <3>1, <3>2
  <2>5. Rising(child, n)
    <3>1. ASSUME NEW i \in Children, NEW y \in child[i], Seen(y), At(n) < y
          PROVE  p[i] # 0 /\ p[i] <= y
      <4>1. x < y
        BY <1>2, <2>1, <2>2, <2>3, <3>1
      <4>2. QED
        BY <2>4, <3>1, <4>1
    <3>2. QED
      BY <1>7, <1>10, <3>1 DEF Rising
  <2>6. QED
    BY <1>8, <2>2, <2>4, <2>5
<1>11. QED
  BY <1>7, <1>9, <1>10 DEF n

(* Prev: where the children go from x, the entry it is at.  Of the entries *)
(* of S before x none is left out.                                         *)
LEMMA PrevPositions ==
    ASSUME CursorAssumption, Kept(child), NEW m, Stands(child, m), m.current # 0, NEW S,
           ~m.forward => \A i \in Children :
               /\ m.pos[i] # 0 => m.pos[i] <= At(m)
               /\ \A y \in child[i] : y \in S /\ y < At(m) => m.pos[i] # 0 /\ y <= m.pos[i]
    PROVE  /\ PrevOf(m) = Behind(PrevOf(m).pos)
           /\ PrevOf(m).pos \in [Children -> Nat]
           /\ \A i \in Children :
                 /\ PrevOf(m).pos[i] # 0 =>
                       PrevOf(m).pos[i] \in child[i] /\ PrevOf(m).pos[i] <= At(m)
                 /\ \A y \in child[i] : y \in S /\ y < At(m) =>
                       PrevOf(m).pos[i] # 0 /\ y <= PrevOf(m).pos[i]
<1> DEFINE x == At(m)
           before(i) == Greatest({y \in child[i] : y < x})
           q == IF ~m.forward THEN m.pos ELSE [i \in Children |-> before(i)]
           p == [q EXCEPT ![m.current] = before(m.current)]
           n == PrevOf(m)
<1>1. n = Behind(p) /\ n.pos = p
  BY DEF PrevOf, Behind
<1>2. /\ m.current \in Children /\ m.pos \in [Children -> Nat] /\ x \in child[m.current]
      /\ x = m.pos[m.current] /\ x \in Nat
  BY DEF Stands, At
<1>3. ASSUME NEW i \in Children
      PROVE  /\ before(i) \in Nat /\ (before(i) # 0 => before(i) \in child[i] /\ before(i) <= x)
             /\ \A y \in child[i] : y < x => before(i) # 0 /\ y <= before(i)
  <2> DEFINE T == {y \in child[i] : y < x}
  <2>1. child[i] \subseteq Nat \ {0} /\ T \in SUBSET All(child)
    BY KeptFacts
  <2>2. T \subseteq Nat \ {0} /\ IsFiniteSet(T)
    BY <2>1, KeptFacts
  <2>3. /\ Greatest(T) \in Nat /\ (Greatest(T) # 0 => Greatest(T) \in T)
        /\ \A y \in T : Greatest(T) # 0 /\ y <= Greatest(T)
    <3> HIDE DEF T
    <3> QED BY <2>2, GreatestOf
  <2>4. Greatest(T) # 0 => Greatest(T) \in child[i] /\ Greatest(T) < x
    BY <2>3
  <2>5. \A y \in child[i] : y < x => y \in T
    BY <1>2, <2>1
  <2>6. before(i) = Greatest(T)
    OBVIOUS
  <2> HIDE DEF T, before
  <2>7. QED
    BY <1>2, <2>1, <2>3, <2>4, <2>5, <2>6
<1>4. ASSUME NEW i \in Children
      PROVE  p[i] = IF i = m.current \/ m.forward THEN before(i) ELSE m.pos[i]
  BY <1>2
<1>5. p \in [Children -> Nat]
  BY <1>2, <1>3
<1> HIDE DEF p, before
<1>6. ASSUME NEW i \in Children
      PROVE  /\ p[i] # 0 => p[i] \in child[i] /\ p[i] <= x
             /\ \A y \in child[i] : y \in S /\ y < x => p[i] # 0 /\ y <= p[i]
  <2>1. CASE i = m.current \/ m.forward
    BY <1>3, <1>4, <2>1
  <2>2. CASE i # m.current /\ ~m.forward
    <3>1. p[i] = m.pos[i]
      BY <1>4, <2>2
    <3>2. QED
      BY <2>2, <3>1 DEF Stands
  <2>3. QED
    BY <2>1, <2>2
<1> HIDE DEF n
<1>7. QED
  BY <1>1, <1>5, <1>6 DEF n

(* Prev: to the entry before it.                                           *)
LEMMA PrevOfFacts ==
    ASSUME CursorAssumption, Kept(child), NEW m, Stands(child, m), m.current # 0, NEW S,
           ~m.forward => \A i \in Children :
               /\ m.pos[i] # 0 => m.pos[i] <= At(m)
               /\ \A y \in child[i] : y \in S /\ y < At(m) => m.pos[i] # 0 /\ y <= m.pos[i]
    PROVE  /\ Stands(child, PrevOf(m)) /\ ~PrevOf(m).forward
           /\ PrevOf(m).current = 0 => \A y \in All(child) : y \in S => At(m) <= y
           /\ PrevOf(m).current # 0 =>
                 /\ At(PrevOf(m)) \in All(child) /\ At(PrevOf(m)) <= At(m)
                 /\ \A y \in All(child) : y \in S /\ y < At(m) => y <= At(PrevOf(m))
                 /\ \A i \in Children :
                       /\ PrevOf(m).pos[i] # 0 => PrevOf(m).pos[i] <= At(PrevOf(m))
                       /\ \A y \in child[i] : y \in S /\ y < At(m) =>
                             PrevOf(m).pos[i] # 0 /\ y <= PrevOf(m).pos[i]
<1> DEFINE x == At(m)
           n == PrevOf(m)
           p == n.pos
<1>1. /\ n = Behind(p) /\ p \in [Children -> Nat]
      /\ \A i \in Children :
            /\ p[i] # 0 => p[i] \in child[i] /\ p[i] <= x
            /\ \A y \in child[i] : y \in S /\ y < x => p[i] # 0 /\ y <= p[i]
  BY PrevPositions, Zenon
<1>2. x \in Nat
  BY DEF Stands, At
<1> HIDE DEF n, p, x
<1>3. \A i \in Children : p[i] # 0 => p[i] \in child[i]
  BY <1>1
<1>4. /\ Stands(child, n) /\ ~n.forward /\ n.pos = p
      /\ n.current = 0 => \A i \in Children : p[i] = 0
      /\ n.current # 0 => /\ At(n) \in All(child)
                          /\ \A i \in Children : p[i] # 0 => p[i] <= At(n)
  BY <1>1, <1>3, BehindFacts
<1>5. \A y \in All(child) : y \in Nat /\ \E i \in Children : y \in child[i]
  BY KeptFacts DEF All
<1>6. ASSUME n.current = 0
      PROVE  \A y \in All(child) : y \in S => x <= y
  BY <1>1, <1>2, <1>4, <1>5, <1>6
<1>7. ASSUME n.current # 0
      PROVE  /\ At(n) <= x
             /\ \A y \in All(child) : y \in S /\ y < x => y <= At(n)
  <2>1. At(n) \in Nat /\ At(n) \in All(child) /\ At(n) = p[n.current] /\ n.current \in Children
    BY <1>4, <1>5, <1>7 DEF At, Stands
  <2>2. At(n) <= x
    BY <1>1, <1>4, <1>7, <2>1 DEF Stands
  <2>3. ASSUME NEW y \in All(child), y \in S, y < x
        PROVE  y <= At(n)
    <3>1. PICK i \in Children : y \in child[i]
      BY <1>5
    <3>2. p[i] # 0 /\ y <= p[i]
      BY <1>1, <2>3, <3>1
    <3>3. p[i] <= At(n) /\ p[i] \in Nat /\ y \in Nat
      BY <1>1, <1>4, <1>5, <1>7, <3>2
    <3>4. QED
      BY <2>1, <3>2, <3>3
  <2>4. QED
    BY <2>2, <2>3
<1>8. QED
  BY <1>1, <1>4, <1>6, <1>7 DEF n, p, x

-----------------------------------------------------------------------------
(* What the iterator should show.                                          *)

(* The order of what the children hold.                                    *)
LEMMA HeldOrder ==
    ASSUME CursorAssumption, NEW c, Kept(c)
    PROVE  /\ \A e \in All(c) : e \in Nat \ {0} /\ UserKey(e) \in Nat \ {0}
           /\ \A e, o \in All(c) : e <= o => UserKey(e) <= UserKey(o)
           /\ \A e, o \in All(c) : UserKey(e) < UserKey(o) => e < o
<1>1. \A e \in All(c) : e \in Nat \ {0} /\ UserKey(e) \in Nat \ {0}
  BY KeptFacts
<1>2. \A e, o \in All(c) : e <= o => UserKey(e) <= UserKey(o)
  BY <1>1, KeyOrder
<1>3. QED
  BY <1>1, <1>2

(* The view is what the snapshot can see and nothing newer hides.          *)
LEMMA ViewFacts ==
    ASSUME CursorAssumption, Kept(child)
    PROVE  /\ View \subseteq All(child) /\ View \subseteq Nat \ {0}
           /\ \A e \in View : e \notin deleted /\ Seen(e)
           /\ \A e \in View, o \in All(child) : UserKey(o) = UserKey(e) /\ o < e => ~Seen(o)
           /\ \A e \in All(child) :
                 /\ e \notin deleted /\ Seen(e)
                 /\ \A o \in All(child) : UserKey(o) = UserKey(e) /\ o < e => ~Seen(o)
                 => e \in View
           /\ IsFiniteSet(View)
<1>1. Entries = All(child)
  BY DEF Entries, All
<1>2. \A o \in All(child) : o \in Nat
  BY KeptFacts
<1>3. \A o \in All(child) : SequenceOf(o) \in Nat
  BY <1>2, KeyOrder
<1>4. \A o \in All(child) : (SequenceOf(o) > Sequence) <=> ~Seen(o)
  BY <1>3 DEF Seen, CursorAssumption
<1>5. \A e : e \in View <=>
          /\ e \in All(child) /\ e \notin deleted /\ Seen(e)
          /\ \A o \in All(child) : UserKey(o) = UserKey(e) /\ o < e => ~Seen(o)
  BY <1>1, <1>4 DEF View, Seen
<1>6. View \in SUBSET All(child)
  BY <1>5
<1>7. QED
  BY <1>2, <1>5, <1>6, KeptFacts

(* A writer adds nothing the snapshot can see.                             *)
Written ==
    /\ Kept(child') /\ deleted' \subseteq All(child')
    /\ \A i \in Children : /\ child[i] \subseteq child'[i]
                           /\ \A y \in child'[i] : Seen(y) => y \in child[i]
    /\ \A e : Seen(e) => (e \in deleted' <=> e \in deleted)

(* What is held stays so, and the view is the same.                        *)
LEMMA ViewStays ==
    ASSUME CursorAssumption, Kept(child), Written
    PROVE  /\ View' = View /\ All(child) \subseteq All(child')
           /\ \A y \in All(child') : Seen(y) => y \in All(child)
<1>1. All(child) \subseteq All(child') /\ \A y \in All(child') : Seen(y) => y \in All(child)
  BY DEF Written, All
<1>2. Entries = All(child) /\ Entries' = All(child')
  BY DEF Entries, All
<1>3. \A o \in All(child') : o \in Nat
  BY KeptFacts DEF Written
<1>4. \A o \in All(child') : SequenceOf(o) \in Nat
  BY <1>3, KeyOrder
<1>5. \A o \in All(child') : (SequenceOf(o) > Sequence) <=> ~Seen(o)
  BY <1>4 DEF Seen, CursorAssumption
<1>6. \A e : e \in View' <=>
          /\ e \in All(child') /\ e \notin deleted' /\ Seen(e)
          /\ \A o \in All(child') : UserKey(o) = UserKey(e) /\ o < e => ~Seen(o)
  BY <1>2, <1>5 DEF View, Seen
<1>7. \A e : e \in View <=>
          /\ e \in All(child) /\ e \notin deleted /\ Seen(e)
          /\ \A o \in All(child) : UserKey(o) = UserKey(e) /\ o < e => ~Seen(o)
  BY <1>1, <1>2, <1>5 DEF View, Seen
<1>8. \A e : e \in View' <=> e \in View
  BY <1>1, <1>6, <1>7 DEF Written
<1>9. QED
  BY <1>1, <1>8

(* A call that writes nothing.                                             *)
LEMMA UnwrittenStays ==
    ASSUME Kept(child), deleted \subseteq All(child), Unwritten
    PROVE  Written /\ View' = View /\ child' = child /\ deleted' = deleted
<1>1. child' = child /\ deleted' = deleted
  BY DEF Unwritten
<1>2. View' = View
  BY <1>1 DEF View, Entries
<1>3. QED
  BY <1>1, <1>2 DEF Written

(* A write has the next sequence number, which the snapshot is before.     *)
LEMMA AddedFacts ==
    ASSUME CursorAssumption, Kept(child), deleted \subseteq All(child), NEW k \in UserKeys, Added(k)
    PROVE  /\ Written /\ child'[1] # {}
           /\ \A i \in Children : i # 1 => child'[i] = child[i]
<1> DEFINE s == Cardinality(Entries) + 1
           e == Entry(k, s)
<1>1. Entries = All(child)
  BY DEF Entries, All
<1>2. Cardinality(Entries) \in Nat /\ Sequence <= Cardinality(Entries) /\ Sequence \in Nat
  BY <1>1, FS_CardinalityType DEF Kept, CursorAssumption
<1>3. s <= MaxSequence /\ child' = [child EXCEPT ![1] = @ \cup {e}]
      /\ deleted' \in {deleted, deleted \cup {e}}
  BY DEF Added
<1>4. s \in 0 .. MaxSequence /\ k \in Nat /\ s > Sequence
  BY <1>2, <1>3 DEF CursorAssumption
<1> HIDE DEF s
<1>5. e \in Nat /\ UserKey(e) = k /\ SequenceOf(e) = s
  BY <1>4, EntryParts
<1>6. ~Seen(e)
  BY <1>2, <1>4, <1>5 DEF Seen
<1> HIDE DEF e
<1>7. 1 \in Children /\ child \in [Children -> SUBSET Nat]
  BY DEF CursorAssumption, Kept
<1>8. /\ child' \in [Children -> SUBSET Nat] /\ child'[1] = child[1] \cup {e}
      /\ \A i \in Children : i # 1 => child'[i] = child[i]
  BY <1>3, <1>5, <1>7
<1>9. All(child') = All(child) \cup {e}
  BY <1>7, <1>8 DEF All
<1>10. IsFiniteSet(All(child')) /\ Cardinality(All(child)) <= Cardinality(All(child'))
  <2>1. IsFiniteSet(All(child'))
    BY <1>9, FS_AddElement DEF Kept
  <2>2. All(child) \subseteq All(child')
    BY <1>9
  <2>3. QED
    BY <2>1, <2>2, FS_Subset
<1>11. Sequence <= Cardinality(All(child'))
  BY <1>1, <1>2, <1>10, FS_CardinalityType
<1>12. Kept(child')
  BY <1>5, <1>8, <1>9, <1>10, <1>11 DEF Kept
<1>13. deleted' \subseteq All(child') /\ \A d : Seen(d) => (d \in deleted' <=> d \in deleted)
  BY <1>3, <1>6, <1>9
<1>14. \A i \in Children : /\ child[i] \subseteq child'[i]
                           /\ \A y \in child'[i] : Seen(y) => y \in child[i]
  BY <1>6, <1>8
<1>15. QED
  BY <1>8, <1>12, <1>13, <1>14 DEF Written

-----------------------------------------------------------------------------
(* The iterator.                                                           *)

(* The flags stay flags, and the loops are the three there are.            *)
LEMMA FlagStep ==
    ASSUME FlagTypes, [Next]_vars
    PROVE  FlagTypes'
<1>1. CASE UNCHANGED vars
  BY <1>1 DEF FlagTypes, vars
<1>3. ASSUME NEW k \in UserKeys, Seek(k)
      PROVE  FlagTypes'
  BY <1>3 DEF FlagTypes, Seek, LookAhead, Exhausted
<1>4. CASE SeekToFirst
  BY <1>4 DEF FlagTypes, SeekToFirst, LookAhead, Exhausted
<1>5. CASE NextKey
  BY <1>5 DEF FlagTypes, NextKey, LookAhead, Exhausted
<1>6. CASE FindNextUserEntry
  BY <1>6 DEF FlagTypes, FindNextUserEntry, Exhausted
<1>7. CASE SeekToLast
  BY <1>7 DEF FlagTypes, SeekToLast
<1>8. CASE Prev
  BY <1>8 DEF FlagTypes, Prev
<1>10. CASE FindPrevUserEntry
  BY <1>10 DEF FlagTypes, FindPrevUserEntry
<1>11. ASSUME NEW k \in UserKeys, Insert(k)
       PROVE  FlagTypes'
  BY <1>11 DEF FlagTypes, Insert
<1>12. CASE Turn
  BY <1>12 DEF FlagTypes, Turn, TurnTo, Exhausted
<1>13. ASSUME NEW k \in UserKeys, TurnOvertaken(k)
       PROVE  FlagTypes'
  BY <1>13 DEF FlagTypes, TurnOvertaken, TurnTo, Exhausted
<1>14. QED
  BY <1>1, <1>3, <1>4, <1>5, <1>6, <1>7, <1>8, <1>10, <1>11, <1>12, <1>13 DEF Next

\* The loops and what holds between calls.
Loops == NextInv /\ TurnInv /\ PrevInv /\ IdleInv

(* FindNextUserEntry is entered where the first entry that is not skipped  *)
(* is the one the call should end at, or with nothing ahead.               *)
LEMMA LookAheadStep ==
    ASSUME CursorAssumption, FlagTypes, Data,
           NEW STATE m, NEW STATE skip, NEW STATE key, LookAhead(m, skip, key),
           skip \in BOOLEAN, key \in UserKeys \cup {0}, value' \in {value, 0},
           Stands(child, m), m.forward,
           m.current = 0 => expected' = 0,
           m.current # 0 =>
             /\ Rising(child, m)
             /\ \A o \in All(child) : Seen(o) /\ o < At(m) =>
                   UserKey(o) < UserKey(At(m)) \/ (skip /\ UserKey(At(m)) <= key)
             /\ skip => \A o \in All(child) : Seen(o) /\ At(m) <= o => key <= UserKey(o)
             /\ expected' = Least({e \in View : At(m) <= e /\ (skip => key < UserKey(e))})
    PROVE  Data' /\ Loops'
<1>1. merge' = m /\ forward' = TRUE /\ skipping' = skip /\ Unwritten
  BY DEF LookAhead
<1>2. child' = child /\ deleted' = deleted /\ View' = View
  BY <1>1, UnwrittenStays DEF Data
<1>3. CASE m.current = 0
  <2>1. valid' = FALSE /\ saved' = 0 /\ pc' = "idle"
    BY <1>3 DEF LookAhead, Exhausted
  <2>2. Data'
    BY <1>1, <1>2, <2>1 DEF Data
  <2>3. Loops'
    BY <1>3, <2>1 DEF Loops, NextInv, TurnInv, PrevInv, IdleInv
  <2>4. QED
    BY <2>2, <2>3
<1>4. CASE m.current # 0
  <2>1. saved' = key /\ pc' = "next"
    BY <1>4 DEF LookAhead
  <2>2. Data'
    BY <1>1, <1>2, <2>1 DEF Data
  <2>3. NextInv'
    BY <1>1, <1>2, <1>4, <2>1 DEF NextInv
  <2>4. Loops'
    BY <2>1, <2>3 DEF Loops, TurnInv, PrevInv, IdleInv
  <2>5. QED
    BY <2>2, <2>4
<1>5. QED
  BY <1>3, <1>4

(* An internal key is the one made of its parts.                           *)
LEMMA EntryWhole ==
    ASSUME CursorAssumption, NEW e \in Nat
    PROVE  e = Entry(UserKey(e), SequenceOf(e))
<1> DEFINE w == MaxSequence + 1
           q == e \div w
           t == e % w
<1>1. w \in Nat \ {0} /\ MaxSequence \in Nat
  BY DEF CursorAssumption
<1>2. q \in Nat /\ t \in 0 .. w - 1 /\ e = w * q + t
  <2> HIDE DEF w
  <2> QED BY <1>1
<1>3. MaxSequence - (MaxSequence - t) = t
  BY <1>1, <1>2
<1>4. w * q = q * w
  BY <1>1, <1>2
<1>5. e = q * w + t
  BY <1>2, <1>4
<1>6. QED
  BY <1>3, <1>5 DEF Entry, UserKey, SequenceOf

(* What the snapshot can see of the keys from k on is what comes after the *)
(* internal key that is sought for k.                                      *)
LEMMA SoughtFrom ==
    ASSUME CursorAssumption, NEW k \in Nat, NEW e \in Nat, Seen(e)
    PROVE  UserKey(e) >= k <=> Entry(k, Sequence) <= e
<1> DEFINE t == Entry(k, Sequence)
<1>1. Sequence \in 0 .. MaxSequence
  BY DEF CursorAssumption
<1>2. t \in Nat /\ UserKey(t) = k /\ SequenceOf(t) = Sequence
  BY <1>1, EntryParts
<1> HIDE DEF t
<1>3. t <= e => k <= UserKey(e)
  BY <1>2, KeyOrder
<1>4. ASSUME UserKey(e) >= k, e < t
      PROVE  FALSE
  <2>1. UserKey(e) \in Nat /\ UserKey(e) <= k /\ (UserKey(e) = k => Sequence <= SequenceOf(e))
        /\ SequenceOf(e) \in Nat
    BY <1>2, <1>4, KeyOrder
  <2>2. UserKey(e) = k /\ SequenceOf(e) = Sequence
    BY <1>1, <1>4, <2>1 DEF Seen
  <2>3. e = t
    BY <2>2, EntryWhole DEF t
  <2>4. QED
    BY <1>2, <1>4, <2>3
<1>5. UserKey(e) \in Nat
  BY KeyOrder
<1>6. QED
  BY <1>2, <1>3, <1>4, <1>5 DEF t

(* Seek.                                                                   *)
LEMMA SeekStep ==
    ASSUME CursorAssumption, FlagTypes, Data, NEW k \in UserKeys, Seek(k)
    PROVE  Data' /\ Loops'
<1> DEFINE t == Entry(k, Sequence)
           m == SeekAll(t)
           x == At(m)
<1>1. Kept(child) /\ k \in Nat
  BY DEF Data, CursorAssumption
<1>2. t \in Nat
  BY <1>1, EntryParts DEF CursorAssumption
<1> HIDE DEF t
<1>3. /\ Stands(child, m) /\ m.forward
      /\ m.current = 0 => \A y \in All(child) : y < t
      /\ m.current # 0 =>
            /\ Rising(child, m) /\ x \in All(child) /\ t <= x
            /\ \A y \in All(child) : t <= y => x <= y
  BY <1>1, <1>2, SeekFacts
<1>4. LookAhead(m, FALSE, 0) /\ value' = 0 /\ expected' = Least({e \in View : UserKey(e) >= k})
  BY DEF Seek, t
<1> HIDE DEF m
<1>5. /\ \A e \in All(child) : e \in Nat \ {0} /\ UserKey(e) \in Nat \ {0}
      /\ \A e, o \in All(child) : e <= o => UserKey(e) <= UserKey(o)
  BY <1>1, HeldOrder
<1>6. \A e \in All(child) : Seen(e) => (UserKey(e) >= k <=> t <= e)
  BY <1>1, <1>5, SoughtFrom DEF t
<1>7. View \subseteq All(child) /\ \A e \in View : Seen(e)
  BY <1>1, ViewFacts
<1>8. ASSUME m.current = 0
      PROVE  expected' = 0
  <2>1. \A e \in View : ~(UserKey(e) >= k)
    BY <1>2, <1>3, <1>5, <1>6, <1>7, <1>8
  <2>2. {e \in View : UserKey(e) >= k} = {}
    BY <2>1
  <2>3. QED
    BY <1>4, <2>2 DEF Least
<1>9. ASSUME m.current # 0
      PROVE  /\ \A o \in All(child) : Seen(o) /\ o < x => UserKey(o) < UserKey(x)
             /\ expected' = Least({e \in View : x <= e})
  <2>1. x \in All(child) /\ x \in Nat /\ t <= x /\ \A y \in All(child) : t <= y => x <= y
    BY <1>3, <1>5, <1>9
  <2>2. k <= UserKey(x)
    <3>1. UserKey(t) = k
      BY <1>1, EntryParts DEF t, CursorAssumption
    <3>2. QED
      BY <1>2, <2>1, <3>1, KeyOrder
  <2>3. ASSUME NEW o \in All(child), Seen(o), o < x
        PROVE  UserKey(o) < UserKey(x)
    <3>1. ~(t <= o)
      BY <1>5, <2>1, <2>3
    <3>2. ~(UserKey(o) >= k)
      BY <1>6, <2>3, <3>1
    <3>3. QED
      BY <1>1, <1>5, <2>1, <2>2, <3>2
  <2>4. \A e \in View : UserKey(e) >= k <=> x <= e
    <3>1. \A e \in View : t <= e <=> x <= e
      BY <1>2, <1>5, <1>7, <2>1
    <3>2. QED
      BY <1>6, <1>7, <3>1
  <2>5. {e \in View : UserKey(e) >= k} = {e \in View : x <= e}
    BY <2>4
  <2>6. QED
    BY <1>4, <2>3, <2>5
<1>10. {e \in View : x <= e /\ (FALSE => 0 < UserKey(e))} = {e \in View : x <= e}
  OBVIOUS
<1>11. QED
  BY <1>3, <1>4, <1>8, <1>9, <1>10, LookAheadStep

(* SeekToFirst.                                                            *)
LEMMA SeekToFirstStep ==
    ASSUME CursorAssumption, FlagTypes, Data, SeekToFirst
    PROVE  Data' /\ Loops'
<1> DEFINE m == FirstOfAll
           x == At(m)
<1>1. Kept(child)
  BY DEF Data
<1>2. /\ Stands(child, m) /\ m.forward
      /\ m.current = 0 => All(child) = {}
      /\ m.current # 0 =>
            /\ Rising(child, m) /\ x \in All(child)
            /\ \A y \in All(child) : x <= y
  BY <1>1, FirstFacts
<1>3. LookAhead(m, FALSE, 0) /\ value' = 0 /\ expected' = Least(View)
  BY DEF SeekToFirst
<1> HIDE DEF m
<1>4. View \subseteq All(child) /\ \A e \in All(child) : e \in Nat
  BY <1>1, ViewFacts, HeldOrder
<1>5. ASSUME m.current = 0
      PROVE  expected' = 0
  BY <1>2, <1>3, <1>4, <1>5 DEF Least
<1>6. ASSUME m.current # 0
      PROVE  /\ \A o \in All(child) : ~(o < x)
             /\ expected' = Least({e \in View : x <= e /\ (FALSE => 0 < UserKey(e))})
  <2>1. {e \in View : x <= e /\ (FALSE => 0 < UserKey(e))} = View
    BY <1>2, <1>4, <1>6
  <2>2. QED
    BY <1>2, <1>3, <1>4, <1>6, <2>1
<1>7. QED
  BY <1>2, <1>3, <1>5, <1>6, LookAheadStep

(* Next, moving forwards: the key it is at is skipped.                     *)
LEMMA NextForwardStep ==
    ASSUME CursorAssumption, FlagTypes, Data, IdleInv, NextKey, forward
    PROVE  Data' /\ Loops'
<1> DEFINE m == merge
           x == At(m)
           key == UserKey(x)
<1>1. Kept(child) /\ Stands(child, m)
  BY DEF Data
<1>2. m.forward /\ m.current # 0 /\ Rising(child, m)
  BY DEF NextKey, IdleInv
<1>3. /\ LookAhead(m, TRUE, key) /\ value' = value
      /\ expected' = Least({e \in View : UserKey(e) > key})
  BY DEF NextKey, Shown
<1>4. x \in All(child)
  BY <1>1, <1>2 DEF Stands, At, All
<1> HIDE DEF m, x
<1>5. /\ \A e \in All(child) : e \in Nat \ {0} /\ UserKey(e) \in Nat \ {0}
      /\ \A e, o \in All(child) : e <= o => UserKey(e) <= UserKey(o)
  BY <1>1, HeldOrder
<1>6. View \subseteq All(child)
  BY <1>1, ViewFacts
<1>7. key \in UserKeys \cup {0}
  BY <1>1, <1>4, KeptFacts
<1>8. \A e \in View : UserKey(e) > key <=> x <= e /\ (TRUE => key < UserKey(e))
  BY <1>4, <1>5, <1>6
<1>9. {e \in View : UserKey(e) > key} = {e \in View : x <= e /\ (TRUE => key < UserKey(e))}
  BY <1>8
<1>10. \A o \in All(child) : x <= o => key <= UserKey(o)
  BY <1>4, <1>5
<1>11. key <= key
  BY <1>4, <1>5
<1>12. expected' = Least({e \in View : x <= e /\ (TRUE => key < UserKey(e))})
  BY <1>3, <1>9
<1>13. /\ \A o \in All(child) : Seen(o) /\ o < x => UserKey(o) < key \/ (TRUE /\ key <= key)
       /\ TRUE => \A o \in All(child) : Seen(o) /\ x <= o => key <= UserKey(o)
  BY <1>10, <1>11
<1> HIDE DEF key
<1>14. QED
  BY <1>1, <1>2, <1>3, <1>7, <1>12, <1>13, LookAheadStep DEF x, key

(* Next, after moving backwards: the MergingIterator turns, from before    *)
(* the entries of the key.                                                 *)
LEMMA NextTurnedStep ==
    ASSUME CursorAssumption, FlagTypes, Data, IdleInv, NextKey, ~forward
    PROVE  Data' /\ Loops'
<1> DEFINE y == At(merge)
           m == IF merge.current = 0 THEN FirstOfAll ELSE NextOf(merge)
           x == At(m)
<1>1. Kept(child) /\ Stands(child, merge)
  BY DEF Data
<1>2. /\ ~merge.forward /\ Taken(child, merge) /\ expected = value
      /\ merge.current # 0 => UserKey(y) < saved
  BY DEF NextKey, IdleInv
<1>3. /\ value \in All(child) /\ saved = UserKey(value)
      /\ \A o \in All(child) : Seen(o) /\ o < value => merge.current # 0 /\ o <= y
  BY <1>2 DEF Taken
<1>4. merge.current # 0 => y \in All(child)
  BY <1>1 DEF Stands, At, All
<1>5. /\ LookAhead(m, TRUE, saved) /\ value' = value
      /\ expected' = Least({e \in View : UserKey(e) > saved})
  BY <1>3 DEF NextKey, Shown
<1>6. /\ \A e \in All(child) : e \in Nat \ {0} /\ UserKey(e) \in Nat \ {0}
      /\ \A e, o \in All(child) : e <= o => UserKey(e) <= UserKey(o)
      /\ \A e, o \in All(child) : UserKey(e) < UserKey(o) => e < o
  BY <1>1, HeldOrder
<1>7. View \subseteq All(child) /\ \A e \in View : Seen(e)
  BY <1>1, ViewFacts
<1>8. /\ Stands(child, m) /\ m.forward
      /\ m.current = 0 => \A o \in All(child) : Seen(o) => merge.current # 0 /\ o <= y
      /\ m.current # 0 =>
            /\ Rising(child, m) /\ x \in All(child)
            /\ merge.current # 0 => y < x
            /\ \A o \in All(child) : Seen(o) /\ (merge.current # 0 => y < o) => x <= o
  <2>1. CASE merge.current = 0
    BY <1>1, <2>1, FirstFacts
  <2>2. CASE merge.current # 0
    BY <1>1, <1>2, <2>2, NextOfFacts
  <2>3. QED
    BY <2>1, <2>2
<1> HIDE DEF m, x, y
\* What the snapshot can see past y has the key or a later one.
<1>9. ASSUME NEW o \in All(child), Seen(o), merge.current # 0 => y < o
      PROVE  saved <= UserKey(o)
  <2>1. ~(o < value)
    BY <1>3, <1>4, <1>6, <1>9
  <2>2. value <= o
    BY <1>3, <1>6, <2>1
  <2>3. QED
    BY <1>3, <1>6, <2>2
<1>10. \A o \in All(child) : saved < UserKey(o) => (merge.current # 0 => y < o)
  BY <1>2, <1>3, <1>4, <1>6
<1>11. saved \in UserKeys \cup {0} /\ saved \in Nat
  BY <1>1, <1>3, KeptFacts
<1>12. ASSUME m.current = 0
       PROVE  expected' = 0
  <2>1. \A e \in View : ~(UserKey(e) > saved)
    BY <1>4, <1>6, <1>7, <1>8, <1>10, <1>11, <1>12
  <2>2. {e \in View : UserKey(e) > saved} = {}
    BY <2>1
  <2>3. QED
    BY <1>5, <2>2 DEF Least
<1>13. ASSUME m.current # 0
       PROVE  /\ \A o \in All(child) : Seen(o) /\ o < x =>
                    UserKey(o) < UserKey(x) \/ (TRUE /\ UserKey(x) <= saved)
              /\ TRUE => \A o \in All(child) : Seen(o) /\ x <= o => saved <= UserKey(o)
              /\ expected' = Least({e \in View : x <= e /\ (TRUE => saved < UserKey(e))})
  <2>1. /\ x \in All(child) /\ (merge.current # 0 => y < x)
        /\ \A o \in All(child) : Seen(o) /\ (merge.current # 0 => y < o) => x <= o
    BY <1>8, <1>13
  <2>2. ASSUME NEW o \in All(child), Seen(o), o < x
        PROVE  UserKey(o) < UserKey(x) \/ UserKey(x) <= saved
    <3>1. merge.current # 0 /\ o <= y
      BY <1>4, <1>6, <2>1, <2>2
    <3>2. UserKey(o) < saved
      BY <1>2, <1>4, <1>6, <1>11, <3>1 DEF y
    <3>3. QED
      BY <1>6, <1>11, <2>1, <3>2
  <2>3. ASSUME NEW o \in All(child), Seen(o), x <= o
        PROVE  saved <= UserKey(o)
    <3>1. merge.current # 0 => y < o
      BY <1>4, <1>6, <2>1, <2>3
    <3>2. QED
      BY <1>9, <2>3, <3>1
  <2>4. \A e \in View : UserKey(e) > saved <=> x <= e /\ (TRUE => saved < UserKey(e))
    BY <1>6, <1>7, <1>10, <1>11, <2>1
  <2>5. {e \in View : UserKey(e) > saved} = {e \in View : x <= e /\ (TRUE => saved < UserKey(e))}
    BY <2>4
  <2>6. QED
    BY <1>5, <2>2, <2>3, <2>5
<1>14. QED
  BY <1>5, <1>8, <1>11, <1>12, <1>13, LookAheadStep DEF x

(* FindNextUserEntry: an entry that does not count is passed, the first    *)
(* that does is shown.                                                     *)
LEMMA FindNextStep ==
    ASSUME CursorAssumption, FlagTypes, Data, NextInv, FindNextUserEntry
    PROVE  Data' /\ Loops'
<1> DEFINE x == At(merge)
           n == NextOf(merge)
           seen == SequenceOf(x) <= Sequence
           hides == seen /\ x \in deleted
           shows == seen /\ x \notin deleted /\ ~(skipping /\ UserKey(x) <= saved)
           due(e) == x <= e /\ (skipping => saved < UserKey(e))
<1>1. Kept(child) /\ Stands(child, merge) /\ deleted \subseteq All(child)
  BY DEF Data
<1>2. /\ pc = "next" /\ forward /\ merge.forward /\ merge.current # 0 /\ Rising(child, merge)
      /\ \A o \in All(child) : Seen(o) /\ o < x =>
            UserKey(o) < UserKey(x) \/ (skipping /\ UserKey(x) <= saved)
      /\ skipping => \A o \in All(child) : Seen(o) /\ x <= o => saved <= UserKey(o)
      /\ expected = Least({e \in View : due(e)})
  BY DEF FindNextUserEntry, NextInv
<1>3. UNCHANGED <<forward, value, found, expected>> /\ Unwritten
  BY DEF FindNextUserEntry
<1>4. child' = child /\ deleted' = deleted /\ View' = View
  BY <1>1, <1>3, UnwrittenStays
<1>5. x \in All(child)
  BY <1>1, <1>2 DEF Stands, At, All
<1>6. /\ \A e \in All(child) : e \in Nat \ {0} /\ UserKey(e) \in Nat \ {0}
      /\ \A e, o \in All(child) : e <= o => UserKey(e) <= UserKey(o)
      /\ \A e, o \in All(child) : UserKey(e) < UserKey(o) => e < o
  BY <1>1, HeldOrder
<1>7. /\ View \subseteq All(child)
      /\ \A e \in View : e \notin deleted /\ Seen(e)
      /\ \A e \in View, o \in All(child) : UserKey(o) = UserKey(e) /\ o < e => ~Seen(o)
      /\ \A e \in All(child) :
            /\ e \notin deleted /\ Seen(e)
            /\ \A o \in All(child) : UserKey(o) = UserKey(e) /\ o < e => ~Seen(o)
            => e \in View
  BY <1>1, ViewFacts
<1>8. saved \in Nat /\ x \in Nat /\ UserKey(x) \in Nat
  BY <1>5, <1>6 DEF Data, CursorAssumption
<1>8a. /\ shows => Seen(x) /\ x \notin deleted /\ ~(skipping /\ UserKey(x) <= saved)
       /\ ~shows /\ Seen(x) /\ x \notin deleted => skipping /\ UserKey(x) <= saved
       /\ hides <=> Seen(x) /\ x \in deleted
  BY DEF Seen
<1> HIDE DEF seen, hides, shows
<1>9. CASE shows
  <2>1. /\ valid' = TRUE /\ saved' = 0 /\ pc' = "idle" /\ merge' = merge /\ skipping' = skipping
    BY <1>9 DEF FindNextUserEntry, shows, seen
  <2>2. x \in View
    <3>1. Seen(x) /\ x \notin deleted /\ ~(skipping /\ UserKey(x) <= saved)
      BY <1>8a, <1>9
    <3>2. ASSUME NEW o \in All(child), UserKey(o) = UserKey(x), o < x, Seen(o)
          PROVE  FALSE
      <4>1. ~(UserKey(o) < UserKey(x))
        BY <1>8, <3>2
      <4>2. QED
        BY <1>2, <3>1, <3>2, <4>1
    <3>3. QED
      BY <1>5, <1>7, <3>1, <3>2
  <2>3. due(x)
    BY <1>8, <1>8a, <1>9
  <2>4. expected = x
    <3> DEFINE S == {e \in View : due(e)}
    <3>1. S \subseteq Nat \ {0} /\ x \in S /\ \A e \in S : x <= e
      BY <1>6, <1>7, <2>2, <2>3
    <3>2. expected = Least(S)
      BY <1>2
    <3> HIDE DEF S
    <3>3. Least(S) \in Nat /\ Least(S) \in S /\ Least(S) <= x
      BY <3>1, LeastOf
    <3>4. x <= Least(S)
      BY <3>1, <3>3
    <3>5. QED
      BY <1>8, <3>2, <3>3, <3>4
  <2>5. Data'
    BY <1>3, <1>4, <2>1 DEF Data
  <2>6. IdleInv'
    BY <1>2, <1>3, <1>4, <2>1, <2>4 DEF IdleInv
  <2>7. Loops'
    BY <2>1, <2>6 DEF Loops, NextInv, TurnInv, PrevInv
  <2>8. QED
    BY <2>5, <2>7
<1>10. CASE ~shows
  <2>1. /\ merge' = n /\ skipping' = (skipping \/ hides)
        /\ IF n.current = 0 THEN Exhausted
           ELSE saved' = (IF hides THEN UserKey(x) ELSE saved) /\ UNCHANGED <<pc, valid>>
    BY <1>10 DEF FindNextUserEntry, shows, hides, seen, n
  <2>2. /\ Stands(child, n) /\ n.forward
        /\ n.current = 0 => \A y \in All(child) : Seen(y) => y <= x
        /\ n.current # 0 =>
              /\ Rising(child, n) /\ At(n) \in All(child)
              /\ x <= At(n)
              /\ \A y \in All(child) : Seen(y) /\ x < y => At(n) <= y
    BY <1>1, <1>2, NextOfFacts
  <2> HIDE DEF n
  \* What is still to be shown is past x, and not hidden by it.
  <2>3. ASSUME NEW e \in View, due(e)
        PROVE  x < e /\ (hides => UserKey(x) < UserKey(e))
    <3>1. e # x
      <4>1. ASSUME e = x
            PROVE  FALSE
        <5>1. Seen(x) /\ x \notin deleted
          BY <1>7, <4>1
        <5>2. skipping /\ UserKey(x) <= saved
          BY <1>8a, <1>10, <5>1
        <5>3. saved < UserKey(x)
          BY <2>3, <4>1, <5>2
        <5>4. QED
          BY <1>8, <5>2, <5>3
      <4>2. QED
        BY <4>1
    <3>2. x < e
      BY <1>5, <1>6, <1>7, <2>3, <3>1
    <3>3. UserKey(x) <= UserKey(e)
      BY <1>5, <1>6, <1>7, <3>2
    <3>4. hides => UserKey(x) # UserKey(e)
      BY <1>5, <1>7, <1>8a, <3>2
    <3>5. QED
      BY <1>5, <1>6, <1>7, <3>2, <3>3, <3>4
  <2>4. CASE n.current = 0
    <3>1. valid' = FALSE /\ saved' = 0 /\ pc' = "idle"
      BY <2>1, <2>4 DEF Exhausted
    <3>2. {e \in View : due(e)} = {}
      BY <1>5, <1>6, <1>7, <2>2, <2>3, <2>4
    <3>3. expected' = 0
      BY <1>2, <1>3, <3>2 DEF Least
    <3>4. Data'
      BY <1>3, <1>4, <2>1, <2>2, <3>1 DEF Data
    <3>5. Loops'
      BY <3>1, <3>3 DEF Loops, NextInv, TurnInv, PrevInv, IdleInv
    <3>6. QED
      BY <3>4, <3>5
  <2>5. CASE n.current # 0
    <3> DEFINE z == At(n)
               key == IF hides THEN UserKey(x) ELSE saved
               skip == skipping \/ hides
    <3>1. saved' = key /\ pc' = "next" /\ skipping' = skip
      BY <1>2, <2>1, <2>5
    <3>2. /\ Rising(child, n) /\ z \in All(child) /\ x <= z
          /\ \A y \in All(child) : Seen(y) /\ x < y => z <= y
      BY <2>2, <2>5
    <3> HIDE DEF z
    <3>3. key \in UserKeys \cup {0} /\ key \in Nat
      BY <1>1, <1>5, <1>8, KeptFacts DEF Data
    <3>4. skipping /\ hides => saved <= key
      BY <1>2, <1>5, <1>8, <1>8a
    <3>5. ASSUME NEW o \in All(child), Seen(o), o < z
          PROVE  UserKey(o) < UserKey(z) \/ (skip /\ UserKey(z) <= key)
      <4>1. o <= x
        BY <1>5, <1>6, <3>2, <3>5
      <4>2. UserKey(o) <= UserKey(x) /\ UserKey(x) <= UserKey(z)
        BY <1>5, <1>6, <3>2, <4>1
      <4>3. CASE hides
        BY <1>5, <1>6, <3>2, <4>2, <4>3
      <4>4. CASE ~hides /\ o < x
        BY <1>2, <1>5, <1>6, <1>8, <3>2, <3>5, <4>2, <4>4
      <4>5. CASE ~hides /\ o = x
        <5>1. skipping /\ UserKey(x) <= saved
          BY <1>8a, <1>10, <3>5, <4>5
        <5>2. QED
          BY <1>5, <1>6, <1>8, <3>2, <4>2, <4>5, <5>1
      <4>6. QED
        BY <1>5, <1>6, <4>1, <4>3, <4>4, <4>5
    <3>6. ASSUME skip, NEW o \in All(child), Seen(o), z <= o
          PROVE  key <= UserKey(o)
      <4>1. x <= o
        BY <1>5, <1>6, <3>2, <3>6
      <4>2. CASE hides
        BY <1>5, <1>6, <4>1, <4>2
      <4>3. CASE ~hides
        BY <1>2, <3>6, <4>1, <4>3
      <4>4. QED
        BY <4>2, <4>3
    <3>7. ASSUME NEW e \in View
          PROVE  due(e) <=> (z <= e /\ (skip => key < UserKey(e)))
      <4>1. e \in All(child) /\ Seen(e)
        BY <1>7
      <4>2. ASSUME due(e)
            PROVE  z <= e /\ (skip => key < UserKey(e))
        <5>1. z <= e
          BY <2>3, <3>2, <4>1, <4>2
        <5>2. CASE hides
          BY <2>3, <4>2, <5>1, <5>2
        <5>3. CASE ~hides
          BY <4>2, <5>1, <5>3
        <5>4. QED
          BY <5>2, <5>3
      <4>3. ASSUME z <= e, skip => key < UserKey(e)
            PROVE  due(e)
        <5>1. x <= e
          BY <1>5, <1>6, <3>2, <4>1, <4>3
        <5>2. ASSUME skipping
              PROVE  saved < UserKey(e)
          <6>1. key < UserKey(e)
            BY <4>3, <5>2
          <6>2. saved <= key
            BY <1>8, <3>3, <3>4, <5>2
          <6>3. QED
            BY <1>6, <1>8, <3>3, <4>1, <6>1, <6>2
        <5>3. QED
          BY <5>1, <5>2
      <4>4. QED
        BY <4>2, <4>3
    <3>8. {e \in View : due(e)} = {e \in View : z <= e /\ (skip => key < UserKey(e))}
      BY <3>7
    <3>9. expected' = Least({e \in View : z <= e /\ (skip => key < UserKey(e))})
      BY <1>2, <1>3, <3>8
    <3> HIDE DEF key, skip
    <3>10. Data'
      BY <1>3, <1>4, <2>1, <2>2, <3>1, <3>3 DEF Data
    <3>11. NextInv'
      BY <1>2, <1>3, <1>4, <2>1, <2>2, <2>5, <3>1, <3>2, <3>5, <3>6, <3>9 DEF NextInv, z
    <3>12. Loops'
      BY <3>1, <3>11 DEF Loops, TurnInv, PrevInv, IdleInv
    <3>13. QED
      BY <3>10, <3>12
  <2>6. QED
    BY <2>4, <2>5
<1>11. QED
  BY <1>9, <1>10

(* SeekToLast.                                                             *)
LEMMA SeekToLastStep ==
    ASSUME CursorAssumption, FlagTypes, Data, SeekToLast
    PROVE  Data' /\ Loops'
<1>1. Kept(child) /\ Stands(child, merge) /\ deleted \subseteq All(child)
  BY DEF Data
<1>2. /\ expected' = Greatest(View) /\ merge' = LastOfAll /\ forward' = FALSE /\ found' = FALSE
      /\ pc' = "prev" /\ value' = 0 /\ saved' = saved /\ Unwritten
  BY DEF SeekToLast
<1>3. child' = child /\ deleted' = deleted /\ View' = View
  BY <1>1, <1>2, UnwrittenStays
<1>4. /\ Stands(child, merge') /\ ~merge'.forward
      /\ merge'.current = 0 => All(child) = {}
      /\ merge'.current # 0 =>
            /\ Falling(child, merge') /\ At(merge') \in All(child)
            /\ \A y \in All(child) : y <= At(merge')
  BY <1>1, <1>2, LastFacts
<1>5. View \subseteq All(child)
  BY <1>1, ViewFacts
<1>6. \A e \in View : merge'.current # 0 /\ e <= At(merge')
  BY <1>4, <1>5
<1>7. {e \in View : \/ merge'.current # 0 /\ e <= At(merge')
                    \/ FALSE /\ e = value'} = View
  BY <1>6
<1>8. Data'
  BY <1>2, <1>3, <1>4 DEF Data
<1>9. PrevInv'
  BY <1>2, <1>3, <1>4, <1>7 DEF PrevInv
<1>10. Loops'
  BY <1>2, <1>9 DEF Loops, NextInv, TurnInv, IdleInv
<1>11. QED
  BY <1>8, <1>10

(* Prev, moving forwards: the MergingIterator is to be turned.             *)
LEMMA PrevForwardStep ==
    ASSUME CursorAssumption, FlagTypes, Data, IdleInv, Prev, forward
    PROVE  Data' /\ Loops'
<1>1. Kept(child) /\ Stands(child, merge) /\ deleted \subseteq All(child)
  BY DEF Data
<1>2. merge.forward /\ merge.current # 0
  BY DEF Prev, IdleInv
<1>3. /\ expected' = Greatest({e \in View : UserKey(e) < UserKey(At(merge))})
      /\ pc' = "turn" /\ saved' = UserKey(At(merge)) /\ merge' = merge /\ value' = value
      /\ Unwritten
  BY DEF Prev, Shown
<1>4. found' = FALSE /\ forward' = forward
  BY DEF Prev
<1>5. child' = child /\ deleted' = deleted /\ View' = View
  BY <1>1, <1>3, UnwrittenStays
<1>6. At(merge) \in All(child)
  BY <1>1, <1>2 DEF Stands, At, All
<1>7. UserKey(At(merge)) \in UserKeys /\ UserKey(At(merge)) \in Nat
  BY <1>1, <1>6, KeptFacts
<1>8. Data'
  BY <1>1, <1>3, <1>5, <1>7 DEF Data
<1>9. saved' <= UserKey(At(merge'))
  BY <1>3, <1>7
<1>10. TurnInv'
  BY <1>2, <1>3, <1>4, <1>5, <1>9 DEF TurnInv
<1>11. Loops'
  BY <1>3, <1>10 DEF Loops, NextInv, PrevInv, IdleInv
<1>12. QED
  BY <1>8, <1>11

(* Prev, moving backwards: on from before the key.                         *)
LEMMA PrevBackwardStep ==
    ASSUME CursorAssumption, FlagTypes, Data, IdleInv, Prev, ~forward
    PROVE  Data' /\ Loops'
<1> DEFINE y == At(merge)
<1>1. Kept(child) /\ Stands(child, merge) /\ deleted \subseteq All(child)
  BY DEF Data
<1>2. /\ ~merge.forward /\ Taken(child, merge)
      /\ merge.current # 0 => Falling(child, merge) /\ UserKey(y) < saved
  BY DEF Prev, IdleInv
<1>3. /\ value \in All(child) /\ saved = UserKey(value)
      /\ \A o \in All(child) : Seen(o) /\ o < value => merge.current # 0 /\ o <= y
  BY <1>2 DEF Taken
<1>4. /\ expected' = Greatest({e \in View : UserKey(e) < saved})
      /\ pc' = "prev" /\ saved' = saved /\ merge' = merge /\ value' = value /\ Unwritten
  BY <1>3 DEF Prev, Shown
<1>5. found' = FALSE /\ forward' = FALSE
  BY DEF Prev, FlagTypes
<1>6. child' = child /\ deleted' = deleted /\ View' = View
  BY <1>1, <1>4, UnwrittenStays
<1>7. /\ \A e \in All(child) : e \in Nat \ {0} /\ UserKey(e) \in Nat \ {0}
      /\ \A e, o \in All(child) : e <= o => UserKey(e) <= UserKey(o)
      /\ \A e, o \in All(child) : UserKey(e) < UserKey(o) => e < o
  BY <1>1, HeldOrder
<1>8. View \subseteq All(child) /\ \A e \in View : Seen(e)
  BY <1>1, ViewFacts
<1>9. merge.current # 0 => y \in All(child)
  BY <1>1 DEF Stands, At, All
<1> HIDE DEF y
<1>10. ASSUME NEW e \in View
       PROVE  UserKey(e) < saved <=> (merge.current # 0 /\ e <= y)
  <2>1. UserKey(e) < saved => merge.current # 0 /\ e <= y
    BY <1>3, <1>7, <1>8
  <2>2. ASSUME merge.current # 0, e <= y
        PROVE  UserKey(e) < saved
    <3>1. UserKey(e) <= UserKey(y) /\ UserKey(y) < saved
      BY <1>2, <1>7, <1>8, <1>9, <2>2
    <3>2. QED
      BY <1>3, <1>7, <1>8, <1>9, <2>2, <3>1
  <2>3. QED
    BY <2>1, <2>2
<1>11. {e \in View : UserKey(e) < saved}
       = {e \in View : \/ merge.current # 0 /\ e <= y
                       \/ FALSE /\ e = value}
  BY <1>10
<1>12. Data'
  BY <1>4, <1>6 DEF Data
<1>13. expected' = Greatest({e \in View : \/ merge.current # 0 /\ e <= y
                                          \/ FALSE /\ e = value})
  BY <1>4, <1>11
<1>14. PrevInv'
  BY <1>2, <1>4, <1>5, <1>6, <1>13 DEF PrevInv, y
<1>15. Loops'
  BY <1>4, <1>14 DEF Loops, NextInv, TurnInv, IdleInv
<1>16. QED
  BY <1>12, <1>15

(* The MergingIterator has turned, or gone on: it is past the key, or not  *)
(* yet, or nothing is left.                                                *)
LEMMA TurnedStep ==
    ASSUME CursorAssumption, FlagTypes, Data, TurnInv, Written, TurnTo(merge'),
           Stands(child', merge'), ~merge'.forward,
           merge'.current = 0 => \A y \in All(child) : ~(Seen(y) /\ UserKey(y) < saved),
           merge'.current # 0 => At(merge') \in All(child') /\ FallingBefore(child', merge', saved)
    PROVE  Data' /\ Loops'
<1> DEFINE z == At(merge')
<1>1. Kept(child) /\ Kept(child') /\ deleted' \subseteq All(child')
  BY DEF Data, Written
<1>2. pc = "turn" /\ forward /\ ~found /\ expected = Greatest({e \in View : UserKey(e) < saved})
  BY DEF TurnTo, TurnInv
<1>3. View' = View /\ All(child) \subseteq All(child')
      /\ \A y \in All(child') : Seen(y) => y \in All(child)
  BY <1>1, ViewStays
<1>4. View \subseteq All(child) /\ \A e \in View : Seen(e)
  BY <1>1, ViewFacts
<1>5. expected' = expected /\ found' = found
  BY DEF TurnTo
<1>6. CASE merge'.current = 0
  <2>1. valid' = FALSE /\ saved' = 0 /\ pc' = "idle" /\ value' = 0
    BY <1>6 DEF TurnTo, Exhausted
  <2>2. {e \in View : UserKey(e) < saved} = {}
    BY <1>4, <1>6
  <2>3. expected' = 0
    BY <1>2, <1>5, <2>2 DEF Greatest
  <2>4. Data'
    BY <1>1, <2>1 DEF Data
  <2>5. Loops'
    BY <2>1, <2>3 DEF Loops, NextInv, TurnInv, PrevInv, IdleInv
  <2>6. QED
    BY <2>4, <2>5
<1>7. CASE merge'.current # 0
  <2>1. UNCHANGED <<valid, saved, value>>
    BY <1>7 DEF TurnTo
  <2>2. Data'
    BY <1>1, <1>3, <2>1 DEF Data
  <2>3. /\ \A e \in All(child') : e \in Nat \ {0} /\ UserKey(e) \in Nat \ {0}
        /\ \A e, o \in All(child') : e <= o => UserKey(e) <= UserKey(o)
        /\ \A e, o \in All(child') : UserKey(e) < UserKey(o) => e < o
    BY <1>1, HeldOrder
  <2>4. z \in All(child') /\ FallingBefore(child', merge', saved) /\ saved \in Nat
    BY <1>7 DEF Data, CursorAssumption
  <2> HIDE DEF z
  <2>5. CASE UserKey(z) < saved
    <3>1. pc' = "prev" /\ forward' = FALSE
      BY <1>7, <2>5 DEF TurnTo, z
    <3>2. ASSUME NEW y \in All(child'), y <= z
          PROVE  UserKey(y) < saved
      BY <2>3, <2>4, <2>5, <3>2
    <3>3. Falling(child', merge')
      <4>1. ASSUME NEW i \in Children, NEW y \in child'[i], Seen(y), y < z
            PROVE  merge'.pos[i] # 0 /\ y <= merge'.pos[i]
        <5>1. y \in All(child')
          BY DEF All
        <5>2. UserKey(y) < saved
          BY <2>3, <2>4, <3>2, <4>1, <5>1
        <5>3. QED
          BY <2>4, <4>1, <5>2 DEF FallingBefore
      <4>2. QED
        BY <2>4, <4>1 DEF Falling, FallingBefore, z
    <3>4. ASSUME NEW e \in View
          PROVE  UserKey(e) < saved <=> e <= z
      <4>1. e \in All(child') /\ Seen(e)
        BY <1>3, <1>4
      <4>2. e <= z => UserKey(e) < saved
        BY <3>2, <4>1
      <4>3. ASSUME UserKey(e) < saved
            PROVE  e <= z
        <5>1. PICK i \in Children : e \in child'[i]
          BY <4>1 DEF All
        <5>2. merge'.pos[i] # 0 /\ e <= merge'.pos[i] /\ merge'.pos[i] <= z
          BY <2>4, <4>1, <4>3, <5>1 DEF FallingBefore, z
        <5>3. merge'.pos[i] \in Nat
          BY DEF Stands
        <5>4. QED
          BY <2>3, <2>4, <4>1, <5>2, <5>3
      <4>4. QED
        BY <4>2, <4>3
    <3>5. {e \in View : UserKey(e) < saved}
          = {e \in View : \/ merge'.current # 0 /\ e <= z
                          \/ FALSE /\ e = value'}
      BY <1>7, <3>4
    <3>6. found' = FALSE
      BY <1>2, <1>5 DEF FlagTypes
    <3>7. expected' = Greatest({e \in View : \/ merge'.current # 0 /\ e <= z
                                             \/ FALSE /\ e = value'})
      BY <1>2, <1>5, <3>5
    <3>8. PrevInv'
      BY <1>3, <3>1, <3>3, <3>6, <3>7 DEF PrevInv, z
    <3>9. Loops'
      BY <3>1, <3>8 DEF Loops, NextInv, TurnInv, IdleInv
    <3>10. QED
      BY <2>2, <3>9
  <2>6. CASE ~(UserKey(z) < saved)
    <3>1. pc' = "turn" /\ forward' = forward
      BY <1>2, <1>7, <2>6 DEF TurnTo, z
    <3>2. saved <= UserKey(z)
      BY <2>3, <2>4, <2>6
    <3>3. expected' = Greatest({e \in View' : UserKey(e) < saved'})
      BY <1>2, <1>3, <1>5, <2>1
    <3>4. TurnInv'
      BY <1>2, <1>5, <1>7, <2>1, <2>4, <3>1, <3>2, <3>3 DEF TurnInv, z
    <3>5. Loops'
      BY <3>1, <3>4 DEF Loops, NextInv, PrevInv, IdleInv
    <3>6. QED
      BY <2>2, <3>5
  <2>7. QED
    BY <2>5, <2>6
<1>8. QED
  BY <1>6, <1>7

(* One more step of the turn.                                              *)
LEMMA TurnStep ==
    ASSUME CursorAssumption, FlagTypes, Data, TurnInv, Turn
    PROVE  Data' /\ Loops'
<1> DEFINE x == At(merge)
           S == {y \in Nat : Seen(y) /\ UserKey(y) < saved}
           n == PrevOf(merge)
<1>1. Kept(child) /\ Stands(child, merge) /\ deleted \subseteq All(child) /\ saved \in Nat
  BY DEF Data, CursorAssumption
<1>2. /\ pc = "turn" /\ merge.current # 0 /\ saved <= UserKey(x)
      /\ ~merge.forward => FallingBefore(child, merge, saved)
  BY DEF Turn, TurnTo, TurnInv
<1>3. merge' = n /\ TurnTo(n) /\ Unwritten
  BY DEF Turn, TurnTo
<1>4. Written /\ child' = child
  BY <1>1, <1>3, UnwrittenStays
<1>5. x \in All(child)
  BY <1>1, <1>2 DEF Stands, At, All
<1>6. /\ \A e \in All(child) : e \in Nat \ {0} /\ UserKey(e) \in Nat \ {0}
      /\ \A e, o \in All(child) : UserKey(e) < UserKey(o) => e < o
  BY <1>1, HeldOrder
<1>7. /\ \A i \in Children : child[i] \subseteq All(child)
      /\ \A y \in All(child) : \E i \in Children : y \in child[i]
  BY DEF All
<1>8. \A y \in All(child) : /\ y \in S <=> Seen(y) /\ UserKey(y) < saved
                            /\ y \in S => y < x
  BY <1>1, <1>2, <1>5, <1>6
<1> HIDE DEF S, x
<1>9. ~merge.forward => \A i \in Children :
          /\ merge.pos[i] # 0 => merge.pos[i] <= x
          /\ \A y \in child[i] : y \in S /\ y < x => merge.pos[i] # 0 /\ y <= merge.pos[i]
  BY <1>2, <1>7, <1>8 DEF FallingBefore, x
<1>10. /\ Stands(child, n) /\ ~n.forward
       /\ n.current = 0 => \A y \in All(child) : y \in S => x <= y
       /\ n.current # 0 =>
             /\ At(n) \in All(child)
             /\ \A i \in Children :
                   /\ n.pos[i] # 0 => n.pos[i] <= At(n)
                   /\ \A y \in child[i] : y \in S /\ y < x => n.pos[i] # 0 /\ y <= n.pos[i]
  BY <1>1, <1>2, <1>9, PrevOfFacts DEF x
<1> HIDE DEF n
<1>11. n.current = 0 => \A y \in All(child) : ~(Seen(y) /\ UserKey(y) < saved)
  BY <1>5, <1>6, <1>8, <1>10
<1>12. n.current # 0 => FallingBefore(child, n, saved)
  BY <1>7, <1>8, <1>10 DEF FallingBefore
<1>13. QED
  BY <1>3, <1>4, <1>10, <1>11, <1>12, TurnedStep

(* The turn, overtaken by a writer.                                        *)
LEMMA OvertakenStep ==
    ASSUME CursorAssumption, FlagTypes, Data, TurnInv, NEW k \in UserKeys, TurnOvertaken(k)
    PROVE  Data' /\ Loops'
<1> DEFINE x == At(merge)
           S == {y \in Nat : Seen(y) /\ UserKey(y) < saved}
           q == PrevOf(merge).pos
           above == {y \in child[1] : y >= x}
           T == {y \in child'[1] : \A f \in above : y < f}
           p == [q EXCEPT ![1] = Greatest(T)]
           n == Behind(p)
<1>1. Kept(child) /\ Stands(child, merge) /\ deleted \subseteq All(child) /\ saved \in Nat
  BY DEF Data, CursorAssumption
<1>2. /\ merge.forward /\ merge.current # 0 /\ saved <= UserKey(x) /\ Added(k)
      /\ merge' = n /\ TurnTo(n)
  BY DEF TurnOvertaken, TurnTo, TurnInv
<1>3. /\ Written /\ Kept(child')
      /\ \A i \in Children : i # 1 => child'[i] = child[i]
  BY <1>1, <1>2, AddedFacts DEF Written
<1>4. All(child) \subseteq All(child') /\ \A y \in All(child') : Seen(y) => y \in All(child)
  BY <1>1, <1>3, ViewStays
<1>5. x \in All(child)
  BY <1>1, <1>2 DEF Stands, At, All
<1>6. /\ \A e \in All(child) : e \in Nat \ {0} /\ UserKey(e) \in Nat \ {0}
      /\ \A e, o \in All(child) : UserKey(e) < UserKey(o) => e < o
  BY <1>1, HeldOrder
<1>7. /\ \A i \in Children : child[i] \subseteq All(child)
      /\ \A y \in All(child) : \E i \in Children : y \in child[i]
  BY DEF All
<1>8. \A y \in All(child) : /\ y \in S <=> Seen(y) /\ UserKey(y) < saved
                            /\ y \in S => y < x
  BY <1>1, <1>2, <1>5, <1>6
<1> HIDE DEF S, x
<1>9. /\ q \in [Children -> Nat]
      /\ \A i \in Children :
            /\ q[i] # 0 => q[i] \in child[i]
            /\ \A y \in child[i] : y \in S /\ y < x => q[i] # 0 /\ y <= q[i]
  BY <1>1, <1>2, PrevPositions DEF x
<1>10. 1 \in Children /\ child'[1] \subseteq Nat \ {0} /\ IsFiniteSet(child'[1])
  <2>1. 1 \in Children
    BY DEF CursorAssumption
  <2>2. QED
    BY <1>3, <2>1, KeptFacts
<1>11. /\ Greatest(T) \in Nat /\ (Greatest(T) # 0 => Greatest(T) \in T)
       /\ \A y \in T : Greatest(T) # 0 /\ y <= Greatest(T)
  <2>1. T \subseteq child'[1]
    OBVIOUS
  <2>2. T \subseteq Nat \ {0} /\ IsFiniteSet(T)
    BY <1>10, <2>1, FS_Subset
  <2>3. QED
    BY <2>2, GreatestOf
<1>12. \A y \in child'[1] : Seen(y) /\ UserKey(y) < saved => y \in T
  <2>1. ASSUME NEW y \in child'[1], Seen(y), UserKey(y) < saved, NEW f \in above
        PROVE  y < f
    <3>1. y \in All(child) /\ f \in All(child) /\ f >= x
      BY <1>4, <1>7, <1>10, <2>1 DEF All
    <3>2. y < x
      BY <1>8, <2>1, <3>1
    <3>3. QED
      BY <1>5, <1>6, <3>1, <3>2
  <2>2. QED
    BY <2>1
<1>13. T \subseteq child'[1]
  OBVIOUS
<1> HIDE DEF q, T
<1>14. /\ p \in [Children -> Nat]
       /\ p[1] = Greatest(T) /\ \A i \in Children : i # 1 => p[i] = q[i]
  BY <1>9, <1>10, <1>11
<1> HIDE DEF p
<1>15. ASSUME NEW i \in Children
       PROVE  /\ p[i] # 0 => p[i] \in child'[i]
              /\ \A y \in child'[i] : Seen(y) /\ UserKey(y) < saved => p[i] # 0 /\ y <= p[i]
  <2>1. CASE i = 1
    BY <1>11, <1>12, <1>13, <1>14, <2>1
  <2>2. CASE i # 1
    <3>1. p[i] = q[i] /\ child'[i] = child[i]
      BY <1>3, <1>14, <2>2
    <3>2. QED
      BY <1>7, <1>8, <1>9, <3>1
  <2>3. QED
    BY <2>1, <2>2
<1>16. /\ Stands(child', n) /\ ~n.forward /\ n.pos = p
       /\ n.current = 0 => \A i \in Children : p[i] = 0
       /\ n.current # 0 => /\ At(n) \in All(child')
                           /\ \A i \in Children : p[i] # 0 => p[i] <= At(n)
  BY <1>3, <1>14, <1>15, BehindFacts
<1> HIDE DEF n
<1>17. n.current = 0 => \A y \in All(child) : ~(Seen(y) /\ UserKey(y) < saved)
  <2>1. ASSUME n.current = 0, NEW y \in All(child), Seen(y), UserKey(y) < saved
        PROVE  FALSE
    <3>1. PICK i \in Children : y \in child'[i]
      BY <1>4, <2>1 DEF All
    <3>2. QED
      BY <1>15, <1>16, <2>1, <3>1
  <2>2. QED
    BY <2>1
<1>18. n.current # 0 => FallingBefore(child', n, saved)
  BY <1>15, <1>16 DEF FallingBefore
<1>19. QED
  BY <1>2, <1>3, <1>16, <1>17, <1>18, TurnedStep

(* FindPrevUserEntry: what is passed is taken for the newest of its key so *)
(* far; the call ends when an earlier key is reached.                      *)
LEMMA FindPrevStep ==
    ASSUME CursorAssumption, FlagTypes, Data, PrevInv, FindPrevUserEntry
    PROVE  Data' /\ Loops'
<1> DEFINE x == At(merge)
           n == PrevOf(merge)
           seen == merge.current # 0 /\ SequenceOf(x) <= Sequence
           over == merge.current = 0 \/ (seen /\ found /\ UserKey(x) < saved)
           left(e) == \/ merge.current # 0 /\ e <= x
                      \/ found /\ e = value
           Left == {e \in View : left(e)}
<1>1. Kept(child) /\ Stands(child, merge) /\ deleted \subseteq All(child) /\ saved \in Nat
  BY DEF Data, CursorAssumption
<1>2. /\ pc = "prev" /\ ~forward /\ ~merge.forward
      /\ merge.current # 0 => Falling(child, merge)
      /\ found => Taken(child, merge)
      /\ expected = Greatest(Left)
  BY DEF FindPrevUserEntry, PrevInv
<1>3. expected' = expected /\ Unwritten
  BY DEF FindPrevUserEntry
<1>4. child' = child /\ deleted' = deleted /\ View' = View
  BY <1>1, <1>3, UnwrittenStays
<1>5. merge.current # 0 => x \in All(child)
  BY <1>1 DEF Stands, At, All
<1>6. /\ \A e \in All(child) : e \in Nat \ {0} /\ UserKey(e) \in Nat \ {0}
      /\ \A e, o \in All(child) : e <= o => UserKey(e) <= UserKey(o)
      /\ \A e, o \in All(child) : UserKey(e) < UserKey(o) => e < o
  BY <1>1, HeldOrder
<1>7. /\ View \subseteq All(child) /\ IsFiniteSet(View)
      /\ \A e \in View : e \notin deleted /\ Seen(e)
      /\ \A e \in View, o \in All(child) : UserKey(o) = UserKey(e) /\ o < e => ~Seen(o)
      /\ \A e \in All(child) :
            /\ e \notin deleted /\ Seen(e)
            /\ \A o \in All(child) : UserKey(o) = UserKey(e) /\ o < e => ~Seen(o)
            => e \in View
  BY <1>1, ViewFacts
<1>8. found => /\ value \in All(child) /\ Seen(value) /\ value \notin deleted
               /\ saved = UserKey(value) /\ (merge.current # 0 => x <= value)
               /\ \A o \in All(child) : Seen(o) /\ o < value => merge.current # 0 /\ o <= x
  BY <1>2 DEF Taken
<1>9. seen <=> merge.current # 0 /\ Seen(x)
  BY DEF Seen
<1>10. CASE over
  <2>1. /\ merge' = merge /\ found' = found /\ pc' = "idle" /\ valid' = found
        /\ IF found THEN UNCHANGED <<saved, value, forward>>
           ELSE saved' = 0 /\ value' = 0 /\ forward' = TRUE
    BY <1>10 DEF FindPrevUserEntry
  <2>2. CASE ~found
    <3>1. merge.current = 0
      BY <1>10, <2>2
    <3>2. Left = {}
      BY <2>2, <3>1
    <3>3. expected' = 0
      BY <1>2, <1>3, <3>2 DEF Greatest
    <3>4. valid' = FALSE /\ saved' = 0 /\ value' = 0
      BY <2>1, <2>2 DEF FlagTypes
    <3>5. Data'
      BY <1>1, <1>4, <2>1, <3>4 DEF Data
    <3>6. Loops'
      BY <2>1, <3>3, <3>4 DEF Loops, NextInv, TurnInv, PrevInv, IdleInv
    <3>7. QED
      BY <3>5, <3>6
  <2>3. CASE found
    <3>1. merge.current # 0 => UserKey(x) < saved
      BY <1>10
    <3>2. value \in View
      <4>1. ASSUME NEW o \in All(child), UserKey(o) = UserKey(value), o < value, Seen(o)
            PROVE  FALSE
        <5>1. merge.current # 0 /\ o <= x
          BY <1>8, <2>3, <4>1
        <5>2. UserKey(o) <= UserKey(x) /\ UserKey(x) < UserKey(value)
          BY <1>5, <1>6, <1>8, <2>3, <3>1, <5>1
        <5>3. QED
          BY <1>5, <1>6, <4>1, <5>1, <5>2
      <4>2. QED
        BY <1>7, <1>8, <2>3, <4>1
    <3>3. expected = value
      <4> DEFINE T == {e \in View : left(e)}
      <4>1. T \subseteq Nat \ {0} /\ value \in T
        BY <1>6, <1>7, <2>3, <3>2
      <4>2. IsFiniteSet(T)
        BY <1>7, FS_Subset
      <4>3. ASSUME NEW e \in T
            PROVE  e <= value
        <5>1. e \in All(child) /\ left(e)
          BY <1>7
        <5>2. CASE e = value
          BY <1>6, <1>8, <2>3, <5>2
        <5>3. CASE merge.current # 0 /\ e <= x
          <6>1. UserKey(x) < UserKey(value)
            BY <1>8, <2>3, <3>1, <5>3
          <6>2. x < value
            BY <1>5, <1>6, <1>8, <2>3, <5>3, <6>1
          <6>3. QED
            BY <1>5, <1>6, <1>8, <2>3, <5>1, <5>3, <6>2
        <5>4. QED
          BY <5>1, <5>2, <5>3
      <4>4. expected = Greatest(T)
        BY <1>2
      <4> HIDE DEF T
      <4>5. Greatest(T) \in Nat /\ Greatest(T) \in T /\ value <= Greatest(T)
        BY <4>1, <4>2, GreatestOf
      <4>6. Greatest(T) <= value
        BY <4>3, <4>5
      <4>7. QED
        BY <1>6, <1>8, <2>3, <4>4, <4>5, <4>6
    <3>4. /\ valid' = TRUE /\ saved' = saved /\ value' = value /\ forward' = forward
      BY <2>1, <2>3 DEF FlagTypes
    <3>5. Data'
      BY <1>4, <2>1, <3>4 DEF Data
    <3>6. Taken(child, merge)'
      BY <1>2, <1>4, <2>1, <2>3, <3>4 DEF Taken
    <3>7. IdleInv'
      BY <1>2, <1>3, <1>4, <2>1, <3>1, <3>3, <3>4, <3>6 DEF IdleInv
    <3>8. Loops'
      BY <2>1, <3>7 DEF Loops, NextInv, TurnInv, PrevInv
    <3>9. QED
      BY <3>5, <3>8
  <2>4. QED
    BY <2>2, <2>3
<1>11. CASE ~over
  <2>1. /\ merge' = n /\ UNCHANGED <<pc, valid, forward>>
        /\ IF ~seen THEN UNCHANGED <<found, saved, value>>
           ELSE IF x \in deleted THEN found' = FALSE /\ saved' = 0 /\ value' = 0
           ELSE found' = TRUE /\ saved' = UserKey(x) /\ value' = x
    BY <1>11 DEF FindPrevUserEntry
  <2>2. merge.current # 0 /\ x \in All(child) /\ x \in Nat
    BY <1>5, <1>6, <1>11
  <2>3. found /\ Seen(x) => ~(UserKey(x) < saved)
    BY <1>9, <1>11, <2>2
  <2> HIDE DEF over, seen, x
  <2> DEFINE S == {y \in Nat : Seen(y)}
  <2>4. \A y \in All(child) : y \in S <=> Seen(y)
    BY <1>6
  <2>5. \A i \in Children : child[i] \subseteq All(child)
    BY DEF All
  <2> HIDE DEF S
  <2>6. \A i \in Children :
          /\ merge.pos[i] # 0 => merge.pos[i] <= x
          /\ \A y \in child[i] : y \in S /\ y < x => merge.pos[i] # 0 /\ y <= merge.pos[i]
    BY <1>2, <2>2, <2>4, <2>5 DEF Falling, x
  <2>7. /\ Stands(child, n) /\ ~n.forward
        /\ n.current = 0 => \A y \in All(child) : y \in S => x <= y
        /\ n.current # 0 =>
              /\ At(n) \in All(child) /\ At(n) <= x
              /\ \A y \in All(child) : y \in S /\ y < x => y <= At(n)
              /\ \A i \in Children :
                    /\ n.pos[i] # 0 => n.pos[i] <= At(n)
                    /\ \A y \in child[i] : y \in S /\ y < x => n.pos[i] # 0 /\ y <= n.pos[i]
    BY <1>1, <2>2, <2>6, PrevOfFacts DEF x
  <2> HIDE DEF n
  <2> DEFINE z == At(n)
  \* What the snapshot can see before x is up to the new position.
  <2>8. /\ \A y \in All(child) : Seen(y) /\ y < x => n.current # 0 /\ y <= z
        /\ n.current # 0 => Falling(child, n) /\ z \in All(child) /\ z <= x
    <3>1. \A y \in All(child) : Seen(y) /\ y < x => n.current # 0 /\ y <= z
      BY <1>6, <2>2, <2>4, <2>7
    <3>2. n.current # 0 => z \in All(child) /\ z <= x
      BY <2>7
    <3>3. ASSUME n.current # 0
          PROVE  Falling(child, n)
      <4>1. ASSUME NEW i \in Children, NEW y \in child[i], Seen(y), y < z
            PROVE  n.pos[i] # 0 /\ y <= n.pos[i]
        <5>1. y \in All(child) /\ z <= x /\ z \in All(child) /\ y < z
          BY <2>5, <3>2, <3>3, <4>1
        <5>1a. y < x
          <6>1. y \in Nat /\ z \in Nat
            BY <1>6, <5>1
          <6> HIDE DEF z, x
          <6>2. QED
            BY <2>2, <5>1, <6>1
        <5>2. QED
          BY <2>4, <2>7, <3>3, <4>1, <5>1, <5>1a
      <4>2. QED
        BY <2>7, <3>3, <4>1 DEF Falling
    <3>4. QED
      BY <3>1, <3>2, <3>3
  <2> HIDE DEF z
  \* What was taken before is hidden by another entry of its key, or is the same.
  <2>9. ASSUME found, Seen(x)
        PROVE  x = value \/ value \notin View
    <3>1. /\ value \in All(child) /\ saved = UserKey(value) /\ ~(UserKey(x) < UserKey(value))
          /\ x <= value
      BY <1>8, <2>2, <2>3, <2>9
    <3>2. UserKey(x) = UserKey(value)
      BY <1>6, <2>2, <3>1
    <3>3. QED
      BY <1>6, <1>7, <2>2, <2>9, <3>1, <3>2
  \* What is left is the same, but for x.
  <2>10. ASSUME NEW e \in View
         PROVE  /\ n.current # 0 /\ e <= z => e <= x
                /\ e <= x => e = x \/ (n.current # 0 /\ e <= z)
    <3>1. e \in All(child) /\ Seen(e)
      BY <1>7
    <3>2. ASSUME n.current # 0, e <= z
          PROVE  e <= x
      <4>1. e \in Nat /\ z \in Nat /\ z <= x
        BY <1>6, <2>8, <3>1, <3>2
      <4>2. QED
        BY <2>2, <3>2, <4>1
    <3>3. e <= x => e = x \/ e < x
      BY <1>6, <2>2, <3>1
    <3>4. QED
      BY <2>8, <3>1, <3>2, <3>3
  <2>11. Data' /\ PrevInv'
    <3>1. CASE ~Seen(x)
      <4>1. /\ found' = found /\ saved' = saved /\ value' = value
        BY <1>9, <2>1, <2>2, <3>1 DEF x
      <4>2. Data'
        BY <1>4, <2>1, <2>7, <4>1 DEF Data
      <4> DEFINE R == {e \in View : \/ n.current # 0 /\ e <= At(n)
                                    \/ found /\ e = value}
      <4>3. Left = R
        <5>1. x \notin View
          BY <1>7, <3>1
        <5>2. ASSUME NEW e \in View
              PROVE  left(e) <=> \/ n.current # 0 /\ e <= z
                                 \/ found /\ e = value
          BY <2>2, <2>10, <5>1
        <5>3. QED
          BY <5>2 DEF z
      <4>4. ASSUME found
            PROVE  Taken(child, n)
        <5>1. ASSUME NEW o \in All(child), Seen(o), o < value
              PROVE  n.current # 0 /\ o <= z
          <6>1. o <= x /\ o # x
            BY <1>8, <3>1, <4>4, <5>1
          <6>2. o < x
            BY <1>6, <2>2, <6>1
          <6>3. QED
            BY <2>8, <5>1, <6>2
        <5>2. ASSUME n.current # 0
              PROVE  z <= value
          <6>1. z \in Nat /\ value \in Nat /\ z <= x /\ x <= value
            BY <1>6, <1>8, <2>2, <2>8, <4>4, <5>2
          <6>2. QED
            BY <2>2, <6>1
        <5>3. QED
          BY <1>8, <4>4, <5>1, <5>2 DEF Taken, z
      <4>5. ASSUME found'
            PROVE  Taken(child, merge)'
        <5>1. Taken(child, n)
          BY <4>1, <4>4, <4>5
        <5>2. QED
          BY <1>4, <2>1, <4>1, <5>1 DEF Taken
      <4> HIDE DEF Left, R
      <4>6. expected' = Greatest(R)
        BY <1>2, <1>3, <4>3
      <4>7. PrevInv'
        <5>1. /\ View' = View /\ merge' = n /\ found' = found /\ value' = value
              /\ child' = child /\ forward' = forward
          BY <1>4, <2>1, <4>1
        <5>2. R = {e \in View : \/ merge.current # 0 /\ e <= At(merge)
                                \/ found /\ e = value}'
          BY <5>1 DEF R
        <5>3. merge'.current # 0 => Falling(child', merge')
          BY <2>8, <5>1
        <5>4. ~merge'.forward /\ ~forward'
          BY <1>2, <2>7, <5>1
        <5>5. QED
          BY <4>5, <4>6, <5>2, <5>3, <5>4 DEF PrevInv
      <4>8. QED
        BY <4>2, <4>7
    <3>2. CASE Seen(x) /\ x \in deleted
      <4>1. found' = FALSE /\ saved' = 0 /\ value' = 0
        BY <1>9, <2>1, <2>2, <3>2 DEF x
      <4>2. Data'
        BY <1>1, <1>4, <2>1, <2>7, <4>1 DEF Data
      <4> DEFINE R == {e \in View : \/ n.current # 0 /\ e <= At(n)
                                    \/ FALSE /\ e = value'}
      <4>3. Left = R
        <5>1. x \notin View
          BY <1>7, <3>2
        <5>2. found => value \notin View
          BY <2>9, <3>2, <5>1
        <5>3. ASSUME NEW e \in View
              PROVE  left(e) <=> n.current # 0 /\ e <= z
          BY <2>2, <2>10, <5>1, <5>2
        <5>4. QED
          BY <5>3 DEF z
      <4> HIDE DEF Left, R
      <4>4. expected' = Greatest(R)
        BY <1>2, <1>3, <4>3
      <4>5. PrevInv'
        <5>1. /\ View' = View /\ merge' = n /\ found' = FALSE
              /\ child' = child /\ forward' = forward
          BY <1>4, <2>1, <4>1
        <5>2. R = {e \in View : \/ merge.current # 0 /\ e <= At(merge)
                                \/ found /\ e = value}'
          BY <5>1 DEF R
        <5>3. merge'.current # 0 => Falling(child', merge')
          BY <2>8, <5>1
        <5>4. ~merge'.forward /\ ~forward' /\ ~found'
          BY <1>2, <2>7, <5>1
        <5>5. QED
          BY <4>4, <5>2, <5>3, <5>4 DEF PrevInv
      <4>6. QED
        BY <4>2, <4>5
    <3>3. CASE Seen(x) /\ x \notin deleted
      <4>1. found' = TRUE /\ saved' = UserKey(x) /\ value' = x
        BY <1>9, <2>1, <2>2, <3>3 DEF x
      <4>2. UserKey(x) \in UserKeys
        BY <1>1, <2>2, KeptFacts
      <4>3. Data'
        BY <1>1, <1>4, <2>1, <2>2, <2>7, <4>1, <4>2 DEF Data
      <4> DEFINE R == {e \in View : \/ n.current # 0 /\ e <= At(n)
                                    \/ TRUE /\ e = x}
      <4>4. Left = R
        <5>1. ASSUME NEW e \in View
              PROVE  left(e) <=> \/ n.current # 0 /\ e <= z
                                 \/ e = x
          <6>1. left(e) => (e <= x \/ e = x)
            BY <2>9, <3>3
          <6>2. x <= x
            BY <2>2
          <6>3. QED
            BY <2>2, <2>10, <6>1, <6>2
        <5>2. QED
          BY <5>1 DEF z
      <4> HIDE DEF Left, R
      <4>5. expected' = Greatest(R)
        BY <1>2, <1>3, <4>4
      <4>6. Taken(child, merge)'
        BY <1>4, <2>1, <2>2, <2>8, <3>3, <4>1 DEF Taken, z
      <4>7. PrevInv'
        <5>1. /\ View' = View /\ merge' = n /\ found' = TRUE /\ value' = x
              /\ child' = child /\ forward' = forward
          BY <1>4, <2>1, <4>1
        <5>2. R = {e \in View : \/ merge.current # 0 /\ e <= At(merge)
                                \/ found /\ e = value}'
          BY <5>1 DEF R
        <5>3. merge'.current # 0 => Falling(child', merge')
          BY <2>8, <5>1
        <5>4. ~merge'.forward /\ ~forward'
          BY <1>2, <2>7, <5>1
        <5>5. QED
          BY <4>5, <4>6, <5>2, <5>3, <5>4 DEF PrevInv
      <4>8. QED
        BY <4>3, <4>7
    <3>4. QED
      BY <3>1, <3>2, <3>3
  <2>12. Loops'
    BY <1>2, <2>1, <2>11 DEF Loops, NextInv, TurnInv, IdleInv
  <2>13. QED
    BY <2>11, <2>12
<1>12. QED
  BY <1>10, <1>11

(* A writer adds an entry: nothing the iterator goes by has changed.       *)
LEMMA InsertStep ==
    ASSUME CursorAssumption, FlagTypes, Data, Loops, NEW k \in UserKeys, Insert(k)
    PROVE  Data' /\ Loops'
<1>1. /\ Kept(child) /\ Stands(child, merge) /\ deleted \subseteq All(child)
      /\ Added(k)
     /\ UNCHANGED <<merge, forward, valid, saved, value, pc, skipping, found, expected>>
  BY DEF Data, Insert
<1>2. Written
  BY <1>1, AddedFacts
<1>3. /\ View' = View /\ All(child) \subseteq All(child')
      /\ \A y \in All(child') : Seen(y) => y \in All(child)
  BY <1>1, <1>2, ViewStays
<1>4. /\ \A i \in Children : /\ child[i] \subseteq child'[i]
                            /\ \A y \in child'[i] : Seen(y) => y \in child[i]
      /\ Kept(child') /\ deleted' \subseteq All(child')
      /\ \A e : Seen(e) => (e \in deleted' <=> e \in deleted)
  BY <1>2 DEF Written
<1>5. Stands(child', merge)
  BY <1>1, <1>4 DEF Stands
<1>6. Data'
  BY <1>1, <1>3, <1>4, <1>5 DEF Data
<1>7. Rising(child, merge) => Rising(child', merge)
  BY <1>4 DEF Rising
<1>8. Falling(child, merge) => Falling(child', merge)
  BY <1>4 DEF Falling
<1>9. FallingBefore(child, merge, saved) => FallingBefore(child', merge, saved)
  BY <1>4 DEF FallingBefore
<1>10. Taken(child, merge) => Taken(child, merge)'
  BY <1>1, <1>3, <1>4 DEF Taken
<1>11. NextInv'
  <2>1. CASE pc # "next"
    BY <1>1, <2>1 DEF NextInv
  <2>2. CASE pc = "next"
    BY <1>1, <1>3, <1>7, <2>2 DEF Loops, NextInv
  <2>3. QED
    BY <2>1, <2>2
<1>12. TurnInv'
  BY <1>1, <1>3, <1>9 DEF Loops, TurnInv
<1>13. PrevInv'
  BY <1>1, <1>3, <1>8, <1>10 DEF Loops, PrevInv
<1>14. IdleInv'
  BY <1>1, <1>7, <1>8, <1>10 DEF Loops, IdleInv
<1>15. QED
  BY <1>6, <1>11, <1>12, <1>13, <1>14 DEF Loops

-----------------------------------------------------------------------------
(* The theorem.                                                            *)

(* At first every sequence number has its entry, in one of the children.   *)
LEMMA InitiallyKept ==
    ASSUME CursorAssumption, Init
    PROVE  Kept(child)
<1>1. PICK key \in [1 .. Sequence -> UserKeys] : \E at \in [1 .. Sequence -> Children] :
             child = [i \in Children |->
                        {Entry(key[s], s) : s \in {n \in 1 .. Sequence : at[n] = i}}]
  BY DEF Init
<1>2. PICK at \in [1 .. Sequence -> Children] :
             child = [i \in Children |->
                        {Entry(key[s], s) : s \in {n \in 1 .. Sequence : at[n] = i}}]
  BY <1>1
<1> DEFINE f == [s \in 1 .. Sequence |-> Entry(key[s], s)]
<1>3. \A s \in 1 .. Sequence :
         /\ key[s] \in UserKeys /\ f[s] \in Nat
         /\ UserKey(f[s]) = key[s] /\ SequenceOf(f[s]) = s
  <2>1. ASSUME NEW s \in 1 .. Sequence
        PROVE  key[s] \in UserKeys /\ key[s] \in Nat /\ s \in 0 .. MaxSequence
    <3>1. Sequence \in Nat /\ MaxSequence \in Nat /\ Sequence <= MaxSequence /\ UserKeys \subseteq Nat
      BY DEF CursorAssumption
    <3>2. key[s] \in UserKeys
      OBVIOUS
    <3>3. s \in 0 .. MaxSequence
      BY <3>1
    <3>4. QED
      BY <3>1, <3>2, <3>3
  <2>2. QED
    BY <2>1, EntryParts
<1>4. \A i \in Children : \A e : e \in child[i] <=> \E s \in 1 .. Sequence : at[s] = i /\ e = f[s]
  BY <1>2
<1>5. \A e : e \in All(child) <=> \E s \in 1 .. Sequence : e = f[s]
  <2>1. \A s \in 1 .. Sequence : at[s] \in Children
    OBVIOUS
  <2> HIDE DEF f
  <2>2. QED
    BY <1>4, <2>1 DEF All
<1>6. f \in [1 .. Sequence -> All(child)]
  <2>1. \A s \in 1 .. Sequence : f[s] \in All(child)
    <3> HIDE DEF f
    <3> QED BY <1>5
  <2>2. QED
    BY <2>1
<1>7. child \in [Children -> SUBSET Nat]
  <2>1. \A i \in Children : child[i] \in SUBSET Nat
    <3> HIDE DEF f
    <3> QED BY <1>3, <1>4
  <2>2. QED
    BY <1>2, <2>1
<1> HIDE DEF f
<1>8. f \in Surjection(1 .. Sequence, All(child))
  <2>1. \A e \in All(child) : \E s \in 1 .. Sequence : f[s] = e
    BY <1>5
  <2>2. QED
    BY <1>6, <2>1 DEF Surjection
<1>9. f \in Injection(1 .. Sequence, All(child))
  <2>1. \A a, b \in 1 .. Sequence : f[a] = f[b] => a = b
    BY <1>3
  <2>2. DOMAIN f = 1 .. Sequence
    BY <1>6
  <2>3. QED
    BY <1>6, <2>1, <2>2 DEF Injection, IsInjective
<1>10. IsFiniteSet(1 .. Sequence) /\ Cardinality(1 .. Sequence) = Sequence
  <2>1. Sequence \in Nat
    BY DEF CursorAssumption
  <2>2. QED
    BY <2>1, FS_Interval
<1>11. IsFiniteSet(All(child)) /\ Cardinality(All(child)) = Sequence
  BY <1>8, <1>9, <1>10, FS_Surjection
<1>12. \A e \in All(child) : UserKey(e) \in UserKeys
  BY <1>3, <1>5
<1>13. QED
  BY <1>7, <1>11, <1>12 DEF Kept, CursorAssumption

(* The invariant holds of the initial states.                              *)
LEMMA InvInit ==
    ASSUME CursorAssumption, Init
    PROVE  Inv
<1>1. /\ merge = [pos |-> [i \in Children |-> 0], current |-> 0, forward |-> TRUE]
      /\ forward = TRUE /\ valid = FALSE /\ saved = 0 /\ value = 0
      /\ pc = "idle" /\ skipping = FALSE /\ found = FALSE /\ expected = 0
      /\ deleted \subseteq Entries
  BY DEF Init
<1>2. Stands(child, merge)
  BY <1>1 DEF Stands
<1>3. Data
  BY <1>1, <1>2, InitiallyKept DEF Data, All, Entries
<1>4. FlagTypes
  BY <1>1 DEF FlagTypes
<1>5. NextInv /\ TurnInv /\ PrevInv /\ IdleInv
  BY <1>1 DEF NextInv, TurnInv, PrevInv, IdleInv
<1>6. QED
  BY <1>3, <1>4, <1>5 DEF Inv

(* Every call, every round of a loop and every write keeps it.             *)
LEMMA InvNext ==
    ASSUME CursorAssumption, Inv, [Next]_vars
    PROVE  Inv'
<1>1. FlagTypes /\ Data /\ NextInv /\ TurnInv /\ PrevInv /\ IdleInv /\ Loops
  BY DEF Inv, Loops
<1>2. FlagTypes'
  BY <1>1, FlagStep
<1>3. Data' /\ Loops'
  <2>1. ASSUME NEW k \in UserKeys, Seek(k)
        PROVE  Data' /\ Loops'
    BY <1>1, <2>1, SeekStep
  <2>2. ASSUME NEW k \in UserKeys, Insert(k)
        PROVE  Data' /\ Loops'
    BY <1>1, <2>2, InsertStep
  <2>3. ASSUME NEW k \in UserKeys, TurnOvertaken(k)
        PROVE  Data' /\ Loops'
    BY <1>1, <2>3, OvertakenStep
  <2>4. CASE SeekToFirst
    BY <1>1, <2>4, SeekToFirstStep
  <2>5. CASE SeekToLast
    BY <1>1, <2>5, SeekToLastStep
  <2>6. CASE NextKey
    BY <1>1, <2>6, NextForwardStep, NextTurnedStep
  <2>7. CASE Prev
    BY <1>1, <2>7, PrevForwardStep, PrevBackwardStep
  <2>8. CASE FindNextUserEntry
    BY <1>1, <2>8, FindNextStep
  <2>9. CASE Turn
    BY <1>1, <2>9, TurnStep
  <2>10. CASE FindPrevUserEntry
    BY <1>1, <2>10, FindPrevStep
  <2>11. CASE UNCHANGED vars
    <3>1. View' = View
      BY <2>11 DEF vars, View, Entries
    <3>2. Data'
      BY <1>1, <2>11 DEF vars, Data
    <3>3. NextInv' /\ TurnInv' /\ PrevInv' /\ IdleInv'
      BY <1>1, <2>11, <3>1 DEF vars, NextInv, TurnInv, PrevInv, IdleInv, Taken
    <3>4. QED
      BY <3>2, <3>3 DEF Loops
  <2>12. QED
    BY <2>1, <2>2, <2>3, <2>4, <2>5, <2>6, <2>7, <2>8, <2>9, <2>10, <2>11 DEF Next
<1>4. QED
  BY <1>2, <1>3 DEF Inv, Loops

(* What the invariant says of the iterator.                                *)
LEMMA InvImplies ==
    ASSUME CursorAssumption, Inv
    PROVE  CursorTrue
<1>1. /\ FlagTypes /\ Data /\ NextInv /\ TurnInv /\ PrevInv /\ IdleInv
      /\ Kept(child) /\ Stands(child, merge)
  BY DEF Inv, Data
<1>2. Entries = All(child) /\ 0 \notin All(child)
  BY <1>1, KeptFacts DEF Entries, All
<1>3. TypeOK
  <2>1. merge.current # 0 => At(merge) \in child[merge.current]
    BY <1>1 DEF Stands, At
  <2>2. merge.current \in Children \cup {0}
    BY <1>1 DEF Stands
  <2>3. pc = "next" => merge.current # 0
    BY <1>1 DEF NextInv
  <2>4. /\ deleted \subseteq Entries /\ saved \in UserKeys \cup {0}
        /\ value \in Entries \cup {0}
    BY <1>1, <1>2 DEF Data
  <2>5. QED
    BY <1>1, <2>1, <2>2, <2>3, <2>4 DEF TypeOK, FlagTypes
<1>4. ShowsSnapshot
  <2>1. SUFFICES ASSUME pc = "idle"
                 PROVE  IF expected = 0 THEN ~valid
                        ELSE /\ valid /\ Shown = expected
                             /\ ~forward => saved = UserKey(expected)
    BY DEF ShowsSnapshot
  <2>2. CASE ~valid
    BY <1>1, <2>1, <2>2 DEF IdleInv
  <2>3. CASE valid /\ forward
    <3>1. merge.current # 0 /\ expected = At(merge)
      BY <1>1, <2>1, <2>3 DEF IdleInv
    <3>2. At(merge) \in All(child)
      BY <1>1, <3>1 DEF Stands, At, All
    <3>3. QED
      BY <1>2, <2>3, <3>1, <3>2 DEF Shown
  <2>4. CASE valid /\ ~forward
    <3>1. Taken(child, merge) /\ expected = value
      BY <1>1, <2>1, <2>4 DEF IdleInv
    <3>2. value \in All(child) /\ saved = UserKey(value)
      BY <3>1 DEF Taken
    <3>3. QED
      BY <1>2, <2>4, <3>1, <3>2 DEF Shown
  <2>5. QED
    BY <2>2, <2>3, <2>4
<1>5. BeforeItsKey
  BY <1>1 DEF IdleInv, BeforeItsKey
<1>6. QED
  BY <1>3, <1>4, <1>5 DEF CursorTrue

(* An iterator shows its snapshot after any sequence of calls, forwards    *)
(* and backwards, whatever is written in between (db_iter.cc, merger.cc).  *)
THEOREM CursorIsTrue ==
    ASSUME CursorAssumption
    PROVE  Spec => []CursorTrue
<1>1. Init => Inv
  BY InvInit
<1>2. Inv /\ [Next]_vars => Inv'
  BY InvNext
<1>3. Inv => CursorTrue
  BY InvImplies
<1>4. QED
  BY <1>1, <1>2, <1>3, PTL DEF Spec

-----------------------------------------------------------------------------
(* The list: the inductive invariant.                                      *)

\* The place for the key on level l, as the writer's search found it.
Place(l) == prev[l] \in L!On(l) /\ prev[l] < adding /\ next[l][prev[l]] > adding

\* What the writer knows: above the highest level there are no nodes, and as it is the
\* only writer the places it found stay right until it links the key there.
WriterInv ==
    /\ \A l \in L!Levels : L!Head \in L!On(l) /\ (l > max_height_ => next[l][L!Head] = L!Nil)
    /\ heights \subseteq 1 .. max_height_
    /\ wpc = "search" => /\ wlevel <= max_height_ /\ wx \in L!On(wlevel) /\ wx < adding
                         /\ \A l \in L!Levels : adding \notin L!On(l) /\ (l > wlevel => Place(l))
    /\ wpc = "link" => /\ wlevel <= height /\ height <= max_height_
                       /\ \A l \in L!Levels : IF l < wlevel THEN adding \in L!On(l)
                                            ELSE adding \notin L!On(l) /\ Place(l)

\* What a reader knows: its search is before the target, and what was in the list when
\* it began still is.
ReaderInv ==
    \A r \in Readers : (~L!Idle(r) => node[r] < target[r]) /\ began[r] \subseteq L!Listed

ListInv == L!TypeOK /\ L!Sorted /\ WriterInv
SkipListInv == ListInv /\ ReaderInv /\ L!LinksStored /\ L!SeesInserted

USE ReadsAssumption DEF L!SkipListAssumption, L!Levels, L!Keys, L!Nodes, L!Head, L!Nil, L!Unset

----------------------------------------------------------------------------
\* An empty list without searches.
LEMMA ListBegins == L!Init => SkipListInv
<1> SUFFICES ASSUME L!Init PROVE SkipListInv
  OBVIOUS
<1>1. L!TypeOK
  BY DEF L!Init, L!TypeOK
<1>2. \A l \in L!Levels, n \in L!Nodes : next[l][n] = IF n = L!Head THEN L!Nil ELSE L!Unset
  BY DEF L!Init
<1>3. \A l \in L!Levels : L!On(l) = {L!Head}
  <2> SUFFICES ASSUME NEW l \in L!Levels PROVE \A n \in L!Nodes : n \in L!On(l) <=> n = L!Head
    BY DEF L!On
  <2> QED
    BY <1>2 DEF L!On
<1>4. L!Sorted
  <2> SUFFICES ASSUME NEW l \in L!Levels
               PROVE  /\ \A n \in L!On(l) : next[l][n] > n /\ next[l][n] \in L!On(l) \cup {L!Nil}
                      /\ \A n, o \in L!On(l) : o <= n \/ next[l][n] <= o
                      /\ \A m \in 1 .. l : L!On(l) \subseteq L!On(m)
    BY DEF L!Sorted
  <2>1. L!On(l) = {L!Head} /\ next[l][L!Head] = L!Nil /\ \A m \in 1 .. l : L!On(m) = {L!Head}
    BY <1>2, <1>3
  <2> QED
    BY <2>1
<1>5. WriterInv
  <2>1. max_height_ = 1 /\ heights = {1} /\ wpc = "idle"
    BY DEF L!Init
  <2> QED
    BY <1>2, <1>3, <2>1 DEF WriterInv
<1>6. ReaderInv /\ L!LinksStored /\ L!SeesInserted
  BY DEF L!Init, ReaderInv, L!LinksStored, L!SeesInserted, L!Idle, L!On, L!Listed
<1> QED
  BY <1>1, <1>4, <1>5, <1>6 DEF SkipListInv, ListInv

----------------------------------------------------------------------------
(* The writer's steps before it links. *)

\* An insert begins at the head, on the highest level.
LEMMA InsertInv == ASSUME ListInv, NEW k \in L!Keys, L!Insert(k) PROVE ListInv'
<1> USE DEF ListInv
<1>1. L!TypeOK'
  BY DEF L!TypeOK, L!Insert, L!listVars, L!readerVars
<1>2. \A l \in L!Levels : L!On(l)' = L!On(l)
  BY DEF L!Insert, L!listVars, L!On
<1>3. L!Sorted'
  BY <1>2 DEF L!Sorted, L!Insert, L!listVars
<1>4. \A l \in L!Levels : k \notin L!On(l)
  BY DEF L!Insert, L!Listed, L!Sorted, L!On
<1>5. WriterInv'
  <2>1. \A l \in L!Levels : l > max_height_ => Place(l)'
    BY <1>2 DEF WriterInv, Place, L!Insert, L!listVars, L!TypeOK
  <2> QED
    BY <1>2, <1>4, <2>1 DEF WriterInv, L!Insert, L!listVars, L!TypeOK
<1> QED
  BY <1>1, <1>3, <1>5

\* When a search of the writer goes down, its key belongs between wx and what follows it.
LEMMA PlaceFound ==
    ASSUME ListInv, wpc = "search", next[wlevel][wx] >= adding
    PROVE  wx \in L!On(wlevel) /\ wx < adding /\ next[wlevel][wx] > adding
<1>1. wlevel \in L!Levels /\ wx \in L!On(wlevel) /\ wx < adding /\ adding \notin L!On(wlevel)
      /\ adding \in L!Keys
  BY DEF ListInv, WriterInv, L!TypeOK
<1>2. next[wlevel][wx] \in L!On(wlevel) \cup {L!Nil}
  BY <1>1 DEF ListInv, L!Sorted
<1>3. next[wlevel][wx] \in Int
  BY <1>2 DEF L!On
<1> QED
  BY <1>1, <1>2, <1>3

\* The writer's search remembers places its key belongs after.
LEMMA SearchInv == ASSUME ListInv, L!SearchOn \/ L!SearchDown PROVE ListInv'
<1> USE DEF ListInv
<1>1. \A l \in L!Levels : L!On(l)' = L!On(l)
  BY DEF L!SearchOn, L!SearchDown, L!listVars, L!On
<1>2. L!Sorted'
  BY <1>1 DEF L!Sorted, L!SearchOn, L!SearchDown, L!listVars
<1>3. CASE L!SearchOn
  <2>1. wx' \in L!On(wlevel) /\ wx' \in L!Nodes /\ wx' < adding
    <3>1. wlevel \in L!Levels /\ wx \in L!On(wlevel) /\ adding \in L!Keys
      BY <1>3 DEF L!SearchOn, WriterInv, L!TypeOK
    <3>2. next[wlevel][wx] \in L!On(wlevel) \cup {L!Nil}
      BY <3>1 DEF L!Sorted
    <3> QED
      BY <1>3, <3>1, <3>2 DEF L!SearchOn, L!On
  <2>2. L!TypeOK'
    BY <1>3, <2>1 DEF L!TypeOK, L!SearchOn, L!listVars, L!readerVars
  <2>3. \A l \in L!Levels : Place(l)' <=> Place(l)
    BY <1>1, <1>3 DEF Place, L!SearchOn, L!listVars
  <2>4. WriterInv'
    <3>1. /\ wpc' = wpc /\ wlevel' = wlevel /\ adding' = adding /\ next' = next
          /\ max_height_' = max_height_ /\ heights' = heights /\ wpc = "search"
      BY <1>3 DEF L!SearchOn, L!listVars
    <3>2. /\ \A l \in L!Levels : /\ L!Head \in L!On(l)'
                                /\ (l > max_height_ => next[l][L!Head] = L!Nil)'
          /\ (heights \subseteq 1 .. max_height_)'
      BY <1>1, <3>1 DEF WriterInv
    <3>3. \A l \in L!Levels : adding' \notin L!On(l)' /\ (l > wlevel' => Place(l)')
      BY <1>1, <2>3, <3>1 DEF WriterInv
    <3>4. wlevel' <= max_height_' /\ wx' \in L!On(wlevel)' /\ wx' < adding'
      BY <1>1, <2>1, <3>1 DEF WriterInv, L!TypeOK
    <3> QED
      BY <3>1, <3>2, <3>3, <3>4 DEF WriterInv
  <2> QED
    BY <1>2, <2>2, <2>4
<1>4. CASE L!SearchDown
  <2>1. L!TypeOK'
    <3>1. wlevel - 1 \in L!Levels
      BY <1>4 DEF L!SearchDown, L!TypeOK
    <3> QED
      BY <1>4, <3>1 DEF L!TypeOK, L!SearchDown, L!listVars, L!readerVars
  <2>2. \A l \in L!Levels : l > wlevel' => Place(l)'
    <3> SUFFICES ASSUME NEW l \in L!Levels, l > wlevel' PROVE Place(l)'
      OBVIOUS
    <3>1. CASE l = wlevel
      <4>1. prev'[l] = wx /\ next' = next /\ adding' = adding
        BY <1>4, <3>1 DEF L!SearchDown, L!listVars, L!TypeOK
      <4>2. wx \in L!On(l) /\ wx < adding /\ next[l][wx] > adding
        BY <1>4, <3>1, PlaceFound DEF L!SearchDown
      <4> QED
        BY <1>1, <4>1, <4>2 DEF Place
    <3>2. CASE l # wlevel
      <4>1. l > wlevel /\ prev'[l] = prev[l] /\ next' = next /\ adding' = adding
        BY <1>4, <3>2 DEF L!SearchDown, L!listVars, L!TypeOK
      <4> QED
        BY <1>1, <1>4, <4>1 DEF Place, WriterInv, L!SearchDown
    <3> QED
      BY <3>1, <3>2
  <2>3. wx \in L!On(wlevel')
    BY <1>4 DEF L!SearchDown, WriterInv, L!Sorted, L!TypeOK
  <2>4. WriterInv'
    <3>1. /\ wpc' = wpc /\ wlevel' = wlevel - 1 /\ adding' = adding /\ next' = next /\ wx' = wx
          /\ max_height_' = max_height_ /\ heights' = heights /\ wpc = "search"
      BY <1>4 DEF L!SearchDown, L!listVars
    <3>2. /\ \A l \in L!Levels : /\ L!Head \in L!On(l)'
                                /\ (l > max_height_ => next[l][L!Head] = L!Nil)'
          /\ (heights \subseteq 1 .. max_height_)'
      BY <1>1, <3>1 DEF WriterInv
    <3>3. \A l \in L!Levels : adding' \notin L!On(l)' /\ (l > wlevel' => Place(l)')
      BY <1>1, <2>2, <3>1 DEF WriterInv
    <3>4. wlevel' \in L!Levels /\ wlevel' <= max_height_'
      BY <2>1, <3>1 DEF WriterInv, L!TypeOK
    <3>5. wx' \in L!On(wlevel)' /\ wx' < adding'
      BY <1>1, <2>3, <3>1, <3>4 DEF WriterInv
    <3> QED
      BY <3>1, <3>2, <3>3, <3>4, <3>5 DEF WriterInv
  <2> QED
    BY <1>2, <2>1, <2>4
<1> QED
  BY <1>3, <1>4

\* The levels above the highest so far begin at the head.
LEMMA SetHeightInv == ASSUME ListInv, NEW h \in L!Levels, L!SetHeight(h) PROVE ListInv'
<1> USE DEF ListInv
<1>1. \A l \in L!Levels : L!On(l)' = L!On(l)
  BY DEF L!SetHeight, L!On
<1>2. L!Sorted'
  BY <1>1 DEF L!Sorted, L!SetHeight
<1>3. L!TypeOK'
  BY DEF L!TypeOK, L!SetHeight, L!readerVars
<1>4. \A l \in L!Levels : Place(l)'
  <2> SUFFICES ASSUME NEW l \in L!Levels PROVE Place(l)'
    OBVIOUS
  <2>1. CASE l = 1
    <3>1. prev'[l] = wx /\ next' = next /\ adding' = adding
      BY <2>1 DEF L!SetHeight, L!TypeOK
    <3>2. wx \in L!On(l) /\ wx < adding /\ next[l][wx] > adding
      BY <2>1, PlaceFound DEF L!SetHeight
    <3> QED
      BY <1>1, <3>1, <3>2 DEF Place
  <2>2. CASE l # 1
    <3>1. l > wlevel /\ prev'[l] = prev[l] /\ next' = next /\ adding' = adding
      BY <2>2 DEF L!SetHeight, L!TypeOK
    <3> QED
      BY <1>1, <3>1 DEF Place, WriterInv, L!SetHeight
  <2> QED
    BY <2>1, <2>2
<1>5. WriterInv'
  <2>1. /\ wlevel' = 1 /\ wpc' = "link" /\ height' = h /\ adding' = adding /\ next' = next
    BY DEF L!SetHeight
  <2>2. /\ max_height_ <= max_height_' /\ h <= max_height_' /\ max_height_' \in L!Levels
        /\ heights' \subseteq heights \cup {h}
    <3>1. max_height_ \in L!Levels /\ h \in L!Levels
      BY DEF L!TypeOK
    <3>2. \/ h > max_height_ /\ max_height_' = h /\ heights' = heights \cup {h}
          \/ ~(h > max_height_) /\ max_height_' = max_height_ /\ heights' = heights
      BY DEF L!SetHeight
    <3> QED
      BY <3>1, <3>2
  <2>3. heights' \subseteq 1 .. max_height_'
    BY <2>2 DEF WriterInv, L!TypeOK
  <2>4. \A l \in L!Levels : adding \notin L!On(l) /\ L!Head \in L!On(l)
                           /\ (l > max_height_' => next[l][L!Head] = L!Nil)
    BY <2>2 DEF L!SetHeight, L!TypeOK, WriterInv
  <2> QED
    BY <1>1, <1>4, <2>1, <2>2, <2>3, <2>4 DEF WriterInv
<1> QED
  BY <1>2, <1>3, <1>5

----------------------------------------------------------------------------
(* The links. *)

\* Links lead to nodes or to the end.
LEMMA LinkType ==
    ASSUME ListInv
    PROVE  /\ next \in [L!Levels -> [L!Nodes -> 0 .. L!Nil]]
           /\ \A l \in L!Levels, n \in L!Nodes : next[l][n] \in 0 .. L!Nil
           /\ \A l \in L!Levels : L!On(l) \subseteq L!Nodes
<1>1. next \in [L!Levels -> [L!Nodes -> 0 .. L!Nil]]
  BY DEF ListInv, L!TypeOK
<1>2. \A l \in L!Levels, n \in L!Nodes : next[l][n] \in 0 .. L!Nil
  BY <1>1
<1> QED
  BY <1>1, <1>2 DEF L!On

\* Level wlevel gets the key between its place and what followed that; nothing else
\* changes.
LEMMA Linked ==
    ASSUME ListInv, L!Link
    PROVE  /\ adding \in L!Keys /\ wlevel \in L!Levels /\ adding \notin L!On(wlevel) /\ Place(wlevel)
           /\ next[wlevel][prev[wlevel]] \in L!On(wlevel) \cup {L!Nil}
           /\ next' \in [L!Levels -> [L!Nodes -> 0 .. L!Nil]]
           /\ next'[wlevel][adding] = next[wlevel][prev[wlevel]]
           /\ next'[wlevel][prev[wlevel]] = adding
           /\ \A n \in L!Nodes \ {adding, prev[wlevel]} : next'[wlevel][n] = next[wlevel][n]
           /\ \A l \in L!Levels \ {wlevel} : next'[l] = next[l]
<1>1. adding \in L!Keys /\ wlevel \in L!Levels /\ adding \notin L!On(wlevel) /\ Place(wlevel)
  BY DEF ListInv, WriterInv, L!TypeOK, L!Link
<1>2. next[wlevel][prev[wlevel]] \in L!On(wlevel) \cup {L!Nil}
  BY <1>1 DEF ListInv, L!Sorted, Place
<1> DEFINE p == prev[wlevel]
           q == next[wlevel][p]
           row == [[next[wlevel] EXCEPT ![adding] = q] EXCEPT ![p] = adding]
<1>3. p \in L!Nodes /\ p # adding /\ q \in 0 .. L!Nil /\ adding \in 0 .. L!Nil
  <2>1. p \in L!On(wlevel) /\ p < adding
    BY <1>1 DEF Place
  <2>2. p \in L!Nodes
    BY <1>1, <2>1, LinkType
  <2>3. q \in 0 .. L!Nil
    BY <1>1, <2>2, LinkType
  <2> QED
    BY <1>1, <2>1, <2>2, <2>3
<1>4. /\ row \in [L!Nodes -> 0 .. L!Nil] /\ row[adding] = q /\ row[p] = adding
      /\ \A n \in L!Nodes \ {adding, p} : row[n] = next[wlevel][n]
  BY <1>1, <1>3, LinkType
<1>5. next' = [next EXCEPT ![wlevel] = row]
  BY <1>1, <1>3, LinkType DEF L!Link
<1> HIDE DEF row
<1>6. next' \in [L!Levels -> [L!Nodes -> 0 .. L!Nil]] /\ next'[wlevel] = row
      /\ \A l \in L!Levels \ {wlevel} : next'[l] = next[l]
  BY <1>1, <1>4, <1>5, LinkType
<1> QED
  BY <1>1, <1>2, <1>4, <1>6

\* The list of level wlevel gains the key, and no other list changes.
LEMMA LinkedOn ==
    ASSUME ListInv, L!Link
    PROVE  \A l \in L!Levels : L!On(l)' = IF l = wlevel THEN L!On(l) \cup {adding} ELSE L!On(l)
<1>1. adding \in L!Nodes
  BY Linked
<1> SUFFICES ASSUME NEW l \in L!Levels
             PROVE  \A n \in L!Nodes : n \in L!On(l)' <=>
                       n \in L!On(l) \/ (l = wlevel /\ n = adding)
  BY <1>1 DEF L!On
<1>2. CASE l = wlevel
  <2> SUFFICES ASSUME NEW n \in L!Nodes
               PROVE  next'[l][n] # L!Unset <=> next[l][n] # L!Unset \/ n = adding
    BY <1>2 DEF L!On
  <2>1. adding \in L!Keys /\ next[l][prev[l]] > adding
    BY <1>2, Linked DEF Place
  <2>2. next'[l][adding] = next[l][prev[l]]
    BY <1>2, Linked
  <2>3. adding # L!Unset /\ next[l][prev[l]] # L!Unset /\ next'[l][adding] # L!Unset
    BY <2>1, <2>2
  <2>4. next'[l][prev[l]] = adding
    BY <1>2, Linked
  <2>5. \A m \in L!Nodes \ {adding, prev[l]} : next'[l][m] = next[l][m]
    BY <1>2, Linked
  <2> QED
    BY <2>3, <2>4, <2>5
<1>3. CASE l # wlevel
  BY <1>3, Linked DEF L!On
<1> QED
  BY <1>2, <1>3

\* Linking a key between its neighbours keeps every list sorted.
LEMMA LinkSorted == ASSUME ListInv, L!Link PROVE L!Sorted'
<1> DEFINE p == prev[wlevel]  q == next[wlevel][p]
<1>1. /\ adding \in L!Keys /\ wlevel \in L!Levels /\ adding \notin L!On(wlevel)
      /\ p \in L!On(wlevel) /\ p < adding /\ q > adding /\ q \in L!On(wlevel) \cup {L!Nil}
  BY Linked DEF Place
<1>2. \A n, o \in L!On(wlevel) : o <= n \/ next[wlevel][n] <= o
  BY <1>1 DEF ListInv, L!Sorted
<1>3. \A n \in L!On(wlevel) : next[wlevel][n] \in Int /\ n \in L!Nodes
  BY <1>1, LinkType
<1> SUFFICES ASSUME NEW l \in L!Levels
             PROVE  /\ \A n \in L!On(l)' : /\ next'[l][n] > n
                                         /\ next'[l][n] \in L!On(l)' \cup {L!Nil}
                    /\ \A n, o \in L!On(l)' : o <= n \/ next'[l][n] <= o
                    /\ \A m \in 1 .. l : L!On(l)' \subseteq L!On(m)'
  BY DEF L!Sorted
<1>4. \A m \in 1 .. l : L!On(l)' \subseteq L!On(m)'
  <2> SUFFICES ASSUME NEW m \in 1 .. l PROVE L!On(l)' \subseteq L!On(m)'
    OBVIOUS
  <2>1. m \in L!Levels /\ m <= l /\ L!On(l) \subseteq L!On(m)
    BY DEF ListInv, L!Sorted
  <2>2. m < wlevel => adding \in L!On(m)
    BY <2>1 DEF ListInv, WriterInv, L!Link
  <2>3. L!On(m)' = IF m = wlevel THEN L!On(m) \cup {adding} ELSE L!On(m)
    BY <2>1, LinkedOn
  <2>4. L!On(l)' = IF l = wlevel THEN L!On(l) \cup {adding} ELSE L!On(l)
    BY LinkedOn
  <2> QED
    BY <1>1, <2>1, <2>2, <2>3, <2>4
<1>5. CASE l # wlevel
  <2>1. L!On(l)' = L!On(l) /\ next'[l] = next[l]
    BY <1>5, Linked, LinkedOn
  <2>2. /\ \A n \in L!On(l) : next[l][n] > n /\ next[l][n] \in L!On(l) \cup {L!Nil}
        /\ \A n, o \in L!On(l) : o <= n \/ next[l][n] <= o
    BY DEF ListInv, L!Sorted
  <2> QED
    BY <1>4, <2>1, <2>2
<1>6. CASE l = wlevel
  <2>1. \A n \in L!On(l)' : next'[l][n] > n /\ next'[l][n] \in L!On(l)' \cup {L!Nil}
    <3> SUFFICES ASSUME NEW n \in L!On(l)'
                 PROVE  next'[l][n] > n /\ next'[l][n] \in L!On(l)' \cup {L!Nil}
      OBVIOUS
    <3>1. L!On(l)' = L!On(l) \cup {adding}
      BY <1>6, LinkedOn
    <3>2. CASE n \in {adding, p}
      BY <1>1, <1>6, <3>1, <3>2, Linked
    <3>3. CASE n \notin {adding, p}
      <4>1. n \in L!On(l) /\ next'[l][n] = next[l][n]
        BY <1>3, <1>6, <3>1, <3>3, Linked
      <4> QED
        BY <3>1, <4>1 DEF ListInv, L!Sorted
    <3> QED
      BY <3>2, <3>3
  <2>2. \A n, o \in L!On(l)' : o <= n \/ next'[l][n] <= o
    <3> SUFFICES ASSUME NEW n \in L!On(l) \cup {adding}, NEW o \in L!On(l) \cup {adding}
                 PROVE  o <= n \/ next'[l][n] <= o
      BY <1>6, LinkedOn
    <3> DEFINE after == next'[l][n]
    <3>1. (o = adding \/ o \in L!On(wlevel)) /\ {o, adding, p, q} \subseteq Int
      BY <1>1, <1>3, <1>6
    <3>2. o = adding \/ o <= p \/ q <= o
      BY <1>1, <1>2, <3>1
    <3>3. CASE n = adding
      <4>1. after = q
        BY <1>6, <3>3, Linked
      <4> QED
        BY <1>1, <3>3, <3>1, <3>2, <4>1
    <3>4. CASE n = p
      <4>1. after = adding
        BY <1>6, <3>4, Linked
      <4> QED
        BY <1>1, <3>4, <3>1, <3>2, <4>1
    <3>5. CASE n \notin {adding, p}
      <4>1. n \in L!On(wlevel) /\ after = next[wlevel][n] /\ n \in Int /\ after \in Int
        <5>1. n \in L!On(wlevel) /\ n \in L!Nodes /\ next[wlevel][n] \in Int
          BY <1>3, <1>6, <3>5
        <5>2. next'[wlevel][n] = next[wlevel][n]
          BY <3>5, <5>1, Linked
        <5>3. n \in Int
          BY <5>1
        <5> QED
          BY <1>6, <5>1, <5>2, <5>3
      <4>2. p <= n \/ after <= p
        BY <1>1, <1>2, <4>1
      <4>3. q <= n \/ n <= p
        BY <1>1, <1>2, <4>1
      <4>4. o \in L!On(wlevel) => o <= n \/ after <= o
        BY <1>2, <4>1
      <4> QED
        BY <1>1, <3>5, <3>1, <4>1, <4>2, <4>3, <4>4
    <3> QED
      BY <3>3, <3>4, <3>5
  <2> QED
    BY <1>4, <2>1, <2>2
<1> QED
  BY <1>5, <1>6

\* Linking keeps the rest of the invariant, for the levels that are left too.
LEMMA LinkInv == ASSUME ListInv, L!Link PROVE ListInv'
<1>1. L!TypeOK'
  <2>1. wlevel' \in L!Levels
    <3>1. wlevel \in L!Levels /\ height \in L!Levels
      BY DEF ListInv, L!TypeOK
    <3> QED
      BY <3>1 DEF L!Link
  <2> QED
    BY <2>1, Linked DEF ListInv, L!TypeOK, L!Link, L!readerVars
<1>2. WriterInv'
  <2>1. \A l \in L!Levels \ {wlevel} : L!On(l)' = L!On(l) /\ (Place(l)' <=> Place(l))
    BY Linked, LinkedOn DEF Place, L!Link
  <2>2. wlevel <= max_height_ /\ max_height_' = max_height_ /\ heights' = heights
    BY DEF ListInv, WriterInv, L!Link, L!TypeOK
  <2>3. \A l \in L!Levels : L!Head \in L!On(l)' /\ (l > max_height_ => next'[l][L!Head] = L!Nil)
    <3> SUFFICES ASSUME NEW l \in L!Levels
                 PROVE  L!Head \in L!On(l)' /\ (l > max_height_ => next'[l][L!Head] = L!Nil)
      OBVIOUS
    <3>1. L!Head \in L!On(l) /\ (l > max_height_ => next[l][L!Head] = L!Nil)
      BY DEF ListInv, WriterInv
    <3>2. l > max_height_ => l # wlevel
      BY <2>2 DEF ListInv, L!TypeOK
    <3> QED
      BY <3>1, <3>2, Linked, LinkedOn
  <2>4. wpc' = "link" =>
            /\ wlevel' = wlevel + 1 /\ wlevel' <= height' /\ height' <= max_height_'
            /\ adding' = adding
    BY DEF L!Link, ListInv, WriterInv, L!TypeOK
  <2>5. wpc' # "search" /\ \A l \in L!Levels : l = wlevel => adding \in L!On(l)'
    BY Linked, LinkedOn DEF L!Link
  <2>6. wpc' = "link" => \A l \in L!Levels : IF l < wlevel' THEN adding' \in L!On(l)'
                                            ELSE adding' \notin L!On(l)' /\ Place(l)'
    <3> SUFFICES ASSUME wpc' = "link", NEW l \in L!Levels
                 PROVE  IF l < wlevel' THEN adding' \in L!On(l)'
                                       ELSE adding' \notin L!On(l)' /\ Place(l)'
      OBVIOUS
    <3>1. IF l < wlevel THEN adding \in L!On(l) ELSE adding \notin L!On(l) /\ Place(l)
      BY DEF L!Link, ListInv, WriterInv
    <3>2. l # wlevel => L!On(l)' = L!On(l) /\ (Place(l)' <=> Place(l))
      BY <2>1
    <3>3. adding' = adding /\ wlevel' = wlevel + 1 /\ wlevel \in Int
      BY <2>4, Linked
    <3>4. CASE l = wlevel
      BY <2>5, <3>3, <3>4
    <3>5. CASE l < wlevel
      <4>1. l < wlevel' /\ l # wlevel
        BY <3>3, <3>5
      <4> QED
        BY <3>1, <3>2, <3>3, <3>5, <4>1
    <3>6. CASE l > wlevel
      <4>1. ~(l < wlevel')
        BY <3>3, <3>6
      <4> QED
        BY <3>1, <3>2, <3>3, <3>6, <4>1
    <3> QED
      BY <3>3, <3>4, <3>5, <3>6
  <2> QED
    BY <2>2, <2>3, <2>4, <2>5, <2>6 DEF ListInv, WriterInv
<1> QED
  BY <1>1, <1>2, LinkSorted DEF ListInv

----------------------------------------------------------------------------
(* The readers. *)

\* What a reader's steps leave alone is what ListInv is about.
LEMMA ListUnchanged ==
    ASSUME ListInv, UNCHANGED <<L!listVars, L!writerVars>>, L!TypeOK' PROVE ListInv'
<1>1. \A l \in L!Levels : L!On(l)' = L!On(l) /\ (Place(l)' <=> Place(l))
  BY DEF L!On, Place, L!listVars, L!writerVars
<1>2. L!Sorted'
  BY <1>1 DEF ListInv, L!Sorted, L!listVars
<1>3. WriterInv'
  BY DEF ListInv, WriterInv, L!On, Place, L!listVars, L!writerVars
<1> QED
  BY <1>2, <1>3 DEF ListInv

\* Between a node of the first level and the next one there is no key.
LEMMA NoneBetween ==
    ASSUME ListInv, NEW n \in L!On(1), NEW k \in L!Listed, n < k
    PROVE  next[1][n] <= k
<1>1. 1 \in L!Levels /\ k \in L!On(1)
  BY DEF L!Listed, L!On
<1>2. k <= n \/ next[1][n] <= k
  BY <1>1 DEF ListInv, L!Sorted
<1>3. n \in Int /\ k \in Int
  BY <1>1, LinkType
<1> QED
  BY <1>2, <1>3

\* What follows a node of a list is a node of the list, or the end.
LEMMA NextOnList ==
    ASSUME ListInv, NEW l \in L!Levels, NEW n \in L!On(l)
    PROVE  next[l][n] > n /\ next[l][n] \in L!On(l) \cup {L!Nil} /\ next[l][n] \in 1 .. L!Nil
<1>1. next[l][n] > n /\ next[l][n] \in L!On(l) \cup {L!Nil}
  BY DEF ListInv, L!Sorted
<1>2. n \in L!Nodes
  BY LinkType
<1>3. next[l][n] \in 0 .. L!Nil
  BY <1>2, LinkType
<1> QED
  BY <1>1, <1>2, <1>3

\* What the invariant says of one reader.
ReaderTrue(r) ==
    /\ ~L!Idle(r) => node[r] < target[r] /\ node[r] \in L!On(level[r])
    /\ began[r] \subseteq L!Listed /\ position[r] \in L!On(1) \cup {L!Nil}
    /\ \A k \in began[r] :
        /\ mode[r] = "forward" /\ target[r] <= k /\ k < position[r] => k \in passed[r]
        /\ mode[r] = "backward" /\ k < target[r] => position[r] # L!Nil /\ k <= position[r]

\* The invariant reader by reader.
LEMMA ReaderByReader ==
    SkipListInv <=> ListInv /\ \A r \in Readers : ReaderTrue(r)
BY DEF SkipListInv, ReaderInv, L!LinksStored, L!SeesInserted, ReaderTrue

\* The types of what r keeps.
LEMMA ReaderType ==
    ASSUME L!TypeOK, NEW r \in Readers
    PROVE  /\ mode[r] \in {"forward", "backward", "ge", "lt"} /\ node[r] \in L!Nodes
           /\ level[r] \in L!Levels /\ target[r] \in 1 .. L!Nil /\ position[r] \in 1 .. L!Nil
           /\ began[r] \in SUBSET L!Keys /\ passed[r] \in SUBSET L!Keys
BY DEF L!TypeOK

\* What the variables of reader q are after a step that leaves them alone.
Same(q) == /\ mode'[q] = mode[q] /\ node'[q] = node[q] /\ level'[q] = level[q]
           /\ target'[q] = target[q] /\ position'[q] = position[q]
           /\ began'[q] = began[q] /\ passed'[q] = passed[q]

\* A step of reader r disturbs no other reader.
LEMMA ReaderSteps ==
    ASSUME SkipListInv, NEW r \in Readers, UNCHANGED <<L!listVars, L!writerVars>>, L!TypeOK',
           \A q \in Readers : q # r => Same(q), ReaderTrue(r)'
    PROVE  SkipListInv'
<1>1. ListInv'
  BY ListUnchanged DEF SkipListInv
<1>2. L!Listed' = L!Listed /\ \A l : L!On(l)' = L!On(l)
  BY DEF L!Listed, L!On, L!listVars
<1>3. ASSUME NEW q \in Readers, q # r PROVE ReaderTrue(q)'
  <2>1. ReaderTrue(q) /\ Same(q)
    BY <1>3, ReaderByReader
  <2>2. (~L!Idle(q) => node[q] < target[q] /\ node[q] \in L!On(level[q]))'
    BY <1>2, <2>1 DEF ReaderTrue, Same, L!Idle
  <2>3. (began[q] \subseteq L!Listed /\ position[q] \in L!On(1) \cup {L!Nil})'
    BY <1>2, <2>1 DEF ReaderTrue, Same
  <2>4. (\A k \in began[q] :
          /\ mode[q] = "forward" /\ target[q] <= k /\ k < position[q] => k \in passed[q]
          /\ mode[q] = "backward" /\ k < target[q]
               => position[q] # L!Nil /\ k <= position[q])'
    BY <2>1 DEF ReaderTrue, Same
  <2> QED
    BY <2>2, <2>3, <2>4 DEF ReaderTrue
<1>4. \A q \in Readers : ReaderTrue(q)'
  BY <1>3
<1>5. (ListInv /\ \A q \in Readers : ReaderTrue(q))'
  BY <1>1, <1>4
<1>6. (SkipListInv <=> ListInv /\ \A q \in Readers : ReaderTrue(q))'
  BY DEF SkipListInv, ReaderInv, L!LinksStored, L!SeesInserted, ReaderTrue
<1> QED
  BY <1>5, <1>6

\* A search begins at the head and has nothing to have seen.
LEMMA SearchKeeps ==
    ASSUME SkipListInv, NEW r \in Readers, NEW m \in {"ge", "lt"}, NEW t \in 1 .. L!Nil,
           L!Search(r, m, t)
    PROVE  SkipListInv'
<1>1. PICK h \in L!Levels : level' = [level EXCEPT ![r] = h]
  BY DEF SkipListInv, ListInv, L!TypeOK, L!Search
<1>2. L!TypeOK'
  BY <1>1 DEF SkipListInv, ListInv, L!TypeOK, L!Search, L!Listed, L!listVars, L!writerVars
<1>3. \A q \in Readers : q # r => Same(q)
  BY <1>1 DEF SkipListInv, ListInv, L!TypeOK, L!Search, Same
<1>4. /\ mode'[r] = m /\ node'[r] = L!Head /\ level'[r] = h /\ target'[r] = t
      /\ position'[r] = position[r] /\ began'[r] = L!Listed
  BY <1>1 DEF SkipListInv, ListInv, L!TypeOK, L!Search
<1>5. L!Listed' = L!Listed /\ \A l \in L!Levels : L!On(l)' = L!On(l) /\ L!Head \in L!On(l)
  BY DEF L!Search, L!Listed, L!On, L!listVars, SkipListInv, ListInv, WriterInv
<1>6. position[r] \in L!On(1) \cup {L!Nil} /\ 1 \in L!Levels
  BY DEF SkipListInv, L!LinksStored
<1>7. ReaderTrue(r)'
  BY <1>4, <1>5, <1>6 DEF ReaderTrue
<1> QED
  BY <1>2, <1>3, <1>7, ReaderSteps DEF L!Search

\* A step of a walk passes no key but those it has seen.
LEMMA WalkKeeps ==
    ASSUME SkipListInv, NEW r \in Readers, NEW n \in L!On(1), NEW t \in 1 .. L!Nil,
           NEW seen \in SUBSET L!Keys, NEW b \in SUBSET L!Listed,
           \A k \in b : t <= k /\ k <= n => k \in seen,
           L!Walk(r, n, t, seen), began' = [began EXCEPT ![r] = b]
    PROVE  SkipListInv'
<1>1. /\ 1 \in L!Levels /\ next[1][n] \in L!On(1) \cup {L!Nil}
      /\ next[1][n] \in 1 .. L!Nil /\ next[1][n] > n
  BY NextOnList DEF SkipListInv
<1>2. b \in SUBSET L!Keys
  BY DEF L!Listed
<1>3. L!TypeOK'
  BY <1>1, <1>2 DEF SkipListInv, ListInv, L!TypeOK, L!Walk, L!listVars, L!writerVars
<1>4. \A q \in Readers : q # r => Same(q)
  BY DEF SkipListInv, ListInv, L!TypeOK, L!Walk, Same
<1>5. /\ mode'[r] = "forward" /\ target'[r] = t /\ position'[r] = next[1][n]
      /\ began'[r] = b /\ passed'[r] = seen
  BY DEF SkipListInv, ListInv, L!TypeOK, L!Walk
<1>6. L!Listed' = L!Listed /\ \A l \in L!Levels : L!On(l)' = L!On(l)
  BY DEF L!Walk, L!Listed, L!On, L!listVars
<1>7. \A k \in b : t <= k /\ k < next[1][n] => k \in seen
  <2> SUFFICES ASSUME NEW k \in b, t <= k, k < next[1][n] PROVE k \in seen
    OBVIOUS
  <2>1. k \in L!Listed /\ k \in Int /\ n \in Int
    BY <1>1, <1>2, LinkType DEF SkipListInv
  <2>2. ~(n < k)
    BY <1>1, <2>1, NoneBetween DEF SkipListInv
  <2> QED
    BY <2>1, <2>2
<1>8. ReaderTrue(r)'
  BY <1>1, <1>5, <1>6, <1>7 DEF ReaderTrue, L!Idle
<1> QED
  BY <1>3, <1>4, <1>8, ReaderSteps DEF L!Walk

\* SeekToFirst is a step of a walk from the head.
LEMMA FirstKeeps == ASSUME SkipListInv, NEW r \in Readers, L!SeekToFirst(r) PROVE SkipListInv'
<1>1. L!Head \in L!On(1) /\ \A k \in L!Listed : ~(1 <= k /\ k <= L!Head)
  BY DEF SkipListInv, ListInv, WriterInv, L!Listed
<1>2. L!Walk(r, L!Head, 1, {}) /\ began' = [began EXCEPT ![r] = L!Listed]
  BY DEF L!SeekToFirst
<1>3. 1 \in 1 .. L!Nil /\ {} \in SUBSET L!Keys /\ L!Listed \in SUBSET L!Listed
  OBVIOUS
<1> QED
  BY <1>1, <1>2, <1>3, WalkKeeps

\* Next is a step of a walk from where the reader is.
LEMMA NextKeeps == ASSUME SkipListInv, NEW r \in Readers, L!NextNode(r) PROVE SkipListInv'
<1>1. position[r] \in L!On(1) /\ position[r] \in L!Keys /\ position[r] \in 1 .. L!Nil
  <2>1. position[r] # L!Nil /\ position[r] \in 1 .. L!Nil
    BY DEF L!NextNode, SkipListInv, ListInv, L!TypeOK
  <2> QED
    BY <2>1 DEF SkipListInv, L!LinksStored
<1>2. CASE mode[r] = "forward"
  <2>1. began' = [began EXCEPT ![r] = began[r]] /\ began[r] \subseteq L!Listed
    BY <1>2 DEF L!NextNode, SkipListInv, ReaderInv, ListInv, L!TypeOK
  <2>2. target[r] \in 1 .. L!Nil /\ passed[r] \cup {position[r]} \in SUBSET L!Keys
    BY <1>1 DEF SkipListInv, ListInv, L!TypeOK
  <2>3. \A k \in began[r] : target[r] <= k /\ k <= position[r]
                             => k \in passed[r] \cup {position[r]}
    <3> SUFFICES ASSUME NEW k \in began[r], target[r] <= k, k <= position[r]
                 PROVE  k = position[r] \/ k \in passed[r]
      OBVIOUS
    <3>1. k \in Int /\ position[r] \in Int
      BY <1>1, <2>1 DEF L!Listed
    <3> QED
      BY <1>2, <3>1 DEF SkipListInv, L!SeesInserted
  <2>4. L!Walk(r, position[r], target[r], passed[r] \cup {position[r]})
    BY <1>2 DEF L!NextNode
  <2> QED
    BY <1>1, <2>1, <2>2, <2>3, <2>4, WalkKeeps
<1>3. CASE mode[r] # "forward"
  <2>1. \A k \in L!Listed : position[r] <= k /\ k <= position[r] => k \in {position[r]}
    BY <1>1 DEF L!Listed
  <2>2. /\ L!Walk(r, position[r], position[r], {position[r]})
        /\ began' = [began EXCEPT ![r] = L!Listed]
    BY <1>3 DEF L!NextNode
  <2>3. {position[r]} \in SUBSET L!Keys /\ L!Listed \in SUBSET L!Listed
    BY <1>1
  <2> QED
    BY <1>1, <2>1, <2>2, <2>3, WalkKeeps
<1> QED
  BY <1>2, <1>3

\* x follows stored links, up to the target.
LEMMA GoKeeps == ASSUME SkipListInv, NEW r \in Readers, L!GoOn(r) \/ L!GoDown(r) PROVE SkipListInv'
<1>1. node[r] \in L!On(level[r]) /\ node[r] < target[r] /\ level[r] \in L!Levels
      /\ target[r] \in 1 .. L!Nil
  BY DEF L!GoOn, L!GoDown, SkipListInv, L!LinksStored, ReaderInv, ListInv, L!TypeOK
<1>2. L!Following(r) \in L!On(level[r]) \cup {L!Nil} /\ L!Following(r) \in 1 .. L!Nil
  BY <1>1, NextOnList DEF L!Following, SkipListInv
<1>3. ReaderTrue(r) /\ mode[r] \in {"ge", "lt"}
  BY ReaderByReader, ReaderType DEF L!GoOn, L!GoDown, L!Idle, SkipListInv, ListInv
<1>4. CASE L!GoOn(r)
  <2>1. /\ L!Following(r) \in L!On(level[r]) /\ L!Following(r) \in L!Nodes
        /\ L!Following(r) < target[r]
    BY <1>1, <1>2, <1>4 DEF L!GoOn
  <2>2. L!TypeOK'
    BY <1>4, <2>1 DEF L!GoOn, SkipListInv, ListInv, L!TypeOK, L!listVars, L!writerVars
  <2>3. \A q \in Readers : q # r => Same(q)
    BY <1>4 DEF L!GoOn, SkipListInv, ListInv, L!TypeOK, Same
  <2>4. /\ node'[r] = L!Following(r) /\ target'[r] = target[r] /\ level'[r] = level[r]
        /\ mode'[r] = mode[r] /\ position'[r] = position[r] /\ began'[r] = began[r]
    BY <1>4 DEF L!GoOn, SkipListInv, ListInv, L!TypeOK
  <2>5. L!Listed' = L!Listed /\ \A l \in L!Levels : L!On(l)' = L!On(l)
    BY <1>4 DEF L!GoOn, L!Listed, L!On, L!listVars
  <2>6. ReaderTrue(r)'
    BY <1>1, <1>3, <2>1, <2>4, <2>5 DEF ReaderTrue
  <2> QED
    BY <1>4, <2>2, <2>3, <2>6, ReaderSteps DEF L!GoOn
<1>5. CASE L!GoDown(r)
  <2>1. level[r] - 1 \in L!Levels /\ node[r] \in L!On(level[r] - 1)
    BY <1>1, <1>5 DEF L!GoDown, SkipListInv, ListInv, L!Sorted
  <2>2. L!TypeOK'
    BY <1>5, <2>1 DEF L!GoDown, SkipListInv, ListInv, L!TypeOK, L!listVars, L!writerVars
  <2>3. \A q \in Readers : q # r => Same(q)
    BY <1>5 DEF L!GoDown, SkipListInv, ListInv, L!TypeOK, Same
  <2>4. /\ node'[r] = node[r] /\ target'[r] = target[r] /\ level'[r] = level[r] - 1
        /\ mode'[r] = mode[r] /\ position'[r] = position[r] /\ began'[r] = began[r]
    BY <1>5 DEF L!GoDown, SkipListInv, ListInv, L!TypeOK
  <2>5. L!Listed' = L!Listed /\ \A l \in L!Levels : L!On(l)' = L!On(l)
    BY <1>5 DEF L!GoDown, L!Listed, L!On, L!listVars
  <2>6. ReaderTrue(r)'
    BY <1>1, <1>3, <2>1, <2>4, <2>5 DEF ReaderTrue
  <2> QED
    BY <1>5, <2>2, <2>3, <2>6, ReaderSteps DEF L!GoDown
<1> QED
  BY <1>4, <1>5

\* The first level has no key between x and what follows it.
LEMMA ReturnKeeps == ASSUME SkipListInv, NEW r \in Readers, L!Return(r) PROVE SkipListInv'
<1>1. /\ node[r] \in L!On(1) /\ node[r] < target[r] /\ level[r] = 1 /\ 1 \in L!Levels
      /\ target[r] \in 1 .. L!Nil /\ next[1][node[r]] >= target[r]
      /\ mode[r] \in {"ge", "lt"} /\ began[r] \subseteq L!Listed
  BY DEF L!Return, L!Following, L!Idle, SkipListInv, L!LinksStored, ReaderInv, ListInv, L!TypeOK
<1>2. /\ next[1][node[r]] \in L!On(1) \cup {L!Nil} /\ next[1][node[r]] \in 1 .. L!Nil
      /\ node[r] \in L!Nodes /\ L!Following(r) = next[1][node[r]]
  BY <1>1, NextOnList, LinkType DEF SkipListInv, L!Following
<1> DEFINE p == IF mode[r] = "ge" THEN next[1][node[r]]
                ELSE IF node[r] = L!Head THEN L!Nil ELSE node[r]
           m == IF mode[r] = "ge" THEN "forward" ELSE "backward"
<1>3. /\ position' = [position EXCEPT ![r] = p] /\ mode' = [mode EXCEPT ![r] = m]
      /\ UNCHANGED <<L!listVars, L!writerVars, node, level, target, began, passed>>
  BY <1>2 DEF L!Return
<1>4. p \in 1 .. L!Nil /\ p \in L!On(1) \cup {L!Nil}
  BY <1>1, <1>2
<1>5. \A k \in began[r] : /\ m = "forward" => ~(target[r] <= k /\ k < p)
                          /\ m = "backward" /\ k < target[r] => p # L!Nil /\ k <= p
  <2> SUFFICES ASSUME NEW k \in began[r]
               PROVE  /\ m = "forward" => ~(target[r] <= k /\ k < p)
                      /\ m = "backward" /\ k < target[r] => p # L!Nil /\ k <= p
    OBVIOUS
  <2>1. k \in L!Listed /\ k \in L!Keys
    BY <1>1 DEF L!Listed
  <2>2. node[r] < k => next[1][node[r]] <= k
    BY <1>1, <2>1, NoneBetween DEF SkipListInv
  <2> QED
    BY <1>1, <1>2, <2>1, <2>2
<1> HIDE DEF p, m
<1>6. m \in {"forward", "backward"}
  BY DEF m
<1>7. L!TypeOK'
  BY <1>3, <1>4, <1>6 DEF SkipListInv, ListInv, L!TypeOK, L!listVars, L!writerVars
<1>8. \A q \in Readers : q # r => Same(q)
  BY <1>3 DEF SkipListInv, ListInv, L!TypeOK, Same
<1>9. /\ mode'[r] = m /\ position'[r] = p /\ target'[r] = target[r] /\ began'[r] = began[r]
  BY <1>3 DEF SkipListInv, ListInv, L!TypeOK
<1>10. L!Listed' = L!Listed /\ \A l \in L!Levels : L!On(l)' = L!On(l)
  BY <1>3 DEF L!Listed, L!On, L!listVars
<1>11. ReaderTrue(r)'
  BY <1>1, <1>4, <1>5, <1>6, <1>9, <1>10 DEF ReaderTrue, L!Idle
<1> QED
  BY <1>3, <1>7, <1>8, <1>11, ReaderSteps

----------------------------------------------------------------------------
(* The theorems. *)

\* What the writer does takes nothing away that a reader saw or had to see.
LEMMA WriteKeeps == ASSUME SkipListInv, L!Write PROVE SkipListInv'
<1>1. ListInv'
  BY InsertInv, SearchInv, SetHeightInv, LinkInv DEF L!Write, SkipListInv
<1>2. UNCHANGED L!readerVars
  BY DEF L!Write, L!Insert, L!SearchOn, L!SearchDown, L!SetHeight, L!Link
<1>3. L!Listed \subseteq L!Listed' /\ \A l \in L!Levels : L!On(l) \subseteq L!On(l)'
  <2>1. CASE L!Link
    <3>1. \A l \in L!Levels : L!On(l) \subseteq L!On(l)'
      BY <2>1, LinkedOn DEF SkipListInv
    <3> QED
      BY <3>1 DEF L!Listed, L!On
  <2>2. CASE ~L!Link
    <3>1. next' = next
      BY <2>2 DEF L!Write, L!Insert, L!SearchOn, L!SearchDown, L!SetHeight, L!listVars
    <3> QED
      BY <3>1 DEF L!Listed, L!On
  <2> QED
    BY <2>1, <2>2
<1>4. ReaderInv'
  BY <1>2, <1>3 DEF SkipListInv, ReaderInv, L!readerVars, L!Idle
<1>5. L!LinksStored'
  <2> SUFFICES ASSUME NEW r \in Readers
               PROVE  (~L!Idle(r) => node[r] \in L!On(level[r])) /\ position[r] \in L!On(1) \cup {L!Nil}
                        => (~L!Idle(r)' => node'[r] \in L!On(level[r])')
                           /\ position'[r] \in L!On(1)' \cup {L!Nil}
    BY DEF SkipListInv, L!LinksStored
  <2>1. level[r] \in L!Levels /\ level'[r] = level[r]
    BY <1>2 DEF SkipListInv, ListInv, L!TypeOK, L!readerVars
  <2> QED
    BY <1>2, <1>3, <2>1 DEF L!readerVars, L!Idle, L!On
<1>6. L!SeesInserted'
  BY <1>2 DEF SkipListInv, L!SeesInserted, L!readerVars
<1> QED
  BY <1>1, <1>4, <1>5, <1>6 DEF SkipListInv

\* Every step keeps the invariant.
LEMMA ListStep == ASSUME SkipListInv, [L!Next]_(L!vars) PROVE SkipListInv'
<1>1. CASE L!Write
  BY <1>1, WriteKeeps
<1>2. ASSUME NEW r \in Readers, L!Read(r) PROVE SkipListInv'
  <2>1. ASSUME NEW t \in L!Keys, L!Seek(r, t) PROVE SkipListInv'
    BY <2>1, SearchKeeps DEF L!Seek
  <2>2. CASE L!Prev(r)
    <3>1. position[r] \in 1 .. L!Nil
      BY DEF SkipListInv, ListInv, L!TypeOK
    <3> QED
      BY <2>2, <3>1, SearchKeeps DEF L!Prev
  <2>3. CASE L!SeekToLast(r)
    BY <2>3, SearchKeeps DEF L!SeekToLast
  <2> QED
    BY <1>2, <2>1, <2>2, <2>3, FirstKeeps, NextKeeps, GoKeeps, ReturnKeeps DEF L!Read
<1>3. CASE UNCHANGED L!vars
  <2>1. UNCHANGED <<L!listVars, L!writerVars>> /\ UNCHANGED L!readerVars /\ L!TypeOK'
    BY <1>3 DEF L!vars, L!listVars, L!writerVars, L!readerVars, SkipListInv, ListInv, L!TypeOK
  <2>2. ListInv'
    BY <2>1, ListUnchanged DEF SkipListInv
  <2> QED
    BY <2>1, <2>2 DEF SkipListInv, ReaderInv, L!LinksStored, L!SeesInserted, L!listVars,
                      L!readerVars,
                      L!Listed, L!On, L!Idle
<1> QED
  BY <1>1, <1>2, <1>3 DEF L!Next

\* The types, at every moment.
THEOREM Types == L!Spec => []L!TypeOK
<1>1. SkipListInv => L!TypeOK
  BY DEF SkipListInv, ListInv
<1> QED
  BY <1>1, ListBegins, ListStep, PTL DEF L!Spec

\* Each level of the memtable is a sorted list of all its nodes and part of the one below,
\* even while Insert is between two of its links.
THEOREM ListsSorted == L!Spec => []L!Sorted
<1>1. SkipListInv => L!Sorted
  BY DEF SkipListInv, ListInv
<1> QED
  BY <1>1, ListBegins, ListStep, PTL DEF L!Spec

\* A reader never reads a link that Insert has not stored, with no lock between them.
THEOREM ReadersFindLinks == L!Spec => []L!LinksStored
<1>1. SkipListInv => L!LinksStored
  BY DEF SkipListInv
<1> QED
  BY <1>1, ListBegins, ListStep, PTL DEF L!Spec

\* The lists of the memtable, as the writer and the readers of no lock find them: the three
\* theorems above in one.
THEOREM ListsStayTrue == L!Spec => []ListsTrue
<1>1. SkipListInv => ListsTrue
  BY DEF SkipListInv, ListInv, L!ListsTrue, ListsTrue
<1> QED
  BY <1>1, ListBegins, ListStep, PTL DEF L!Spec

\* A reader misses nothing that was inserted before its search or its walk began.
THEOREM ReadersMissNothing == L!Spec => []SeesInserted
<1>1. SkipListInv => SeesInserted
  BY DEF SkipListInv, SeesInserted
<1> QED
  BY <1>1, ListBegins, ListStep, PTL DEF L!Spec

-----------------------------------------------------------------------------
(* The cache of open tables: lists and sums.                               *)

\* A list without duplicates, and what is on it.
Distinct(s) == \A i, j \in 1 .. Len(s) : s[i] = s[j] => i = j
On(s, e) == \E i \in 1 .. Len(s) : s[i] = e

(* An entry is taken out of a list.                                        *)
LEMMA UnlinkedList ==
    ASSUME NEW S, NEW s \in Seq(S), Distinct(s), NEW e
    PROVE  /\ Unlinked(s, e) \in Seq(S) /\ Distinct(Unlinked(s, e))
           /\ \A x : On(Unlinked(s, e), x) <=> On(s, x) /\ x # e
<1>1. Len(s) \in Nat /\ DOMAIN s = 1 .. Len(s) /\ \A i \in 1 .. Len(s) : s[i] \in S
  BY LenProperties
<1>2. CASE e \notin ToSet(s)
  <2>1. Unlinked(s, e) = s
    BY <1>2 DEF Unlinked
  <2>2. ~On(s, e)
    BY <1>1, <1>2 DEF On, ToSet
  <2>3. QED
    BY <2>1, <2>2
<1>3. CASE e \in ToSet(s)
  <2> DEFINE n == CHOOSE n \in DOMAIN s : s[n] = e
             a == SubSeq(s, 1, n - 1)
             b == SubSeq(s, n + 1, Len(s))
  <2>1. n \in 1 .. Len(s) /\ s[n] = e
    BY <1>1, <1>3 DEF ToSet
  <2>2. Unlinked(s, e) = a \o b
    BY <1>3 DEF Unlinked, RemoveAt
  <2> HIDE DEF n
  <2>3. /\ a \in Seq(S) /\ Len(a) = n - 1
        /\ \A i \in 1 .. n - 1 : a[i] = s[i]
    <3>1. n - 1 \in Int /\ \A i \in 1 .. n - 1 : s[i] \in S
      BY <1>1, <2>1
    <3>2. QED
      BY <2>1, <3>1, SubSeqProperties
  <2>4. /\ b \in Seq(S) /\ Len(b) = Len(s) - n
        /\ \A i \in 1 .. Len(s) - n : b[i] = s[n + i]
    <3>1. n + 1 \in Int /\ Len(s) \in Int /\ \A i \in n + 1 .. Len(s) : s[i] \in S
      BY <1>1, <2>1
    <3>2. /\ b \in Seq(S) /\ Len(b) = (IF n + 1 <= Len(s) THEN Len(s) - (n + 1) + 1 ELSE 0)
          /\ \A i \in 1 .. Len(s) - (n + 1) + 1 : b[i] = s[n + 1 + i - 1]
      BY <3>1, SubSeqProperties
    <3>3. Len(b) = Len(s) - n
      <4>1. n \in Nat /\ Len(s) \in Nat /\ n <= Len(s)
        BY <1>1, <2>1
      <4>2. Len(b) = (IF n + 1 <= Len(s) THEN Len(s) - (n + 1) + 1 ELSE 0)
        BY <3>2
      <4>3. QED
        BY <4>1, <4>2
    <3>4. ASSUME NEW i \in 1 .. Len(s) - n
          PROVE  b[i] = s[n + i]
      <4>1. i \in 1 .. Len(s) - (n + 1) + 1 /\ n + 1 + i - 1 = n + i
        BY <1>1, <2>1
      <4>2. b[i] = s[n + 1 + i - 1]
        BY <3>2, <4>1
      <4>3. QED
        BY <4>1, <4>2
    <3>5. QED
      BY <3>2, <3>3, <3>4
  <2> HIDE DEF a, b
  <2> DEFINE u == a \o b
  <2>5. /\ u \in Seq(S) /\ Len(u) = Len(s) - 1
        /\ \A i \in 1 .. Len(s) - 1 : u[i] = s[IF i < n THEN i ELSE i + 1]
    <3>1. /\ u \in Seq(S) /\ Len(u) = Len(a) + Len(b)
          /\ \A i \in 1 .. Len(a) + Len(b) : u[i] = IF i <= Len(a) THEN a[i] ELSE b[i - Len(a)]
      BY <2>3, <2>4, ConcatProperties
    <3>2. ASSUME NEW i \in 1 .. Len(s) - 1
          PROVE  u[i] = s[IF i < n THEN i ELSE i + 1]
      <4>1. u[i] = IF i <= n - 1 THEN a[i] ELSE b[i - (n - 1)]
        BY <1>1, <2>1, <2>3, <2>4, <3>1
      <4>2. CASE i < n
        BY <2>1, <2>3, <4>1, <4>2
      <4>3. CASE ~(i < n)
        <5>1. i - (n - 1) \in 1 .. Len(s) - n /\ n + (i - (n - 1)) = i + 1
          BY <1>1, <2>1, <4>3
        <5>2. u[i] = b[i - (n - 1)] /\ b[i - (n - 1)] = s[n + (i - (n - 1))]
          BY <1>1, <2>1, <2>4, <4>1, <4>3, <5>1
        <5>3. QED
          BY <4>3, <5>1, <5>2
      <4>4. QED
        BY <4>2, <4>3
    <3>3. QED
      BY <1>1, <2>1, <2>3, <2>4, <3>1, <3>2
  <2> HIDE DEF u
  <2>6. Distinct(u)
    <3>1. ASSUME NEW i \in 1 .. Len(s) - 1, NEW j \in 1 .. Len(s) - 1, u[i] = u[j]
          PROVE  i = j
      <4> DEFINE p == IF i < n THEN i ELSE i + 1
                 q == IF j < n THEN j ELSE j + 1
      <4>1. p \in 1 .. Len(s) /\ q \in 1 .. Len(s)
        BY <1>1, <2>1
      <4>2. s[p] = s[q]
        BY <2>5, <3>1
      <4>3. p = q
        <5> HIDE DEF p, q
        <5> QED BY <4>1, <4>2 DEF Distinct
      <4>4. QED
        BY <1>1, <2>1, <4>3
    <3>2. QED
      BY <2>5, <3>1 DEF Distinct
  <2>7. ASSUME NEW x
        PROVE  On(u, x) <=> On(s, x) /\ x # e
    <3>1. ASSUME NEW i \in 1 .. Len(s) - 1, u[i] = x
          PROVE  On(s, x) /\ x # e
      <4> DEFINE p == IF i < n THEN i ELSE i + 1
      <4>1. p \in 1 .. Len(s) /\ p # n
        BY <1>1, <2>1
      <4>2. s[p] = x
        BY <2>5, <3>1
      <4> HIDE DEF p
      <4>3. QED
        BY <2>1, <4>1, <4>2 DEF Distinct, On
    <3>2. ASSUME NEW p \in 1 .. Len(s), s[p] = x, x # e
          PROVE  On(u, x)
      <4>1. p # n
        BY <2>1, <3>2
      <4>2. CASE p < n
        <5>1. p \in 1 .. Len(s) - 1
          BY <1>1, <2>1, <4>2
        <5>2. u[p] = x
          BY <2>5, <3>2, <4>2, <5>1
        <5>3. QED
          BY <2>5, <5>1, <5>2 DEF On
      <4>3. CASE p > n
        <5>1. p - 1 \in 1 .. Len(s) - 1 /\ ~(p - 1 < n) /\ (p - 1) + 1 = p
          BY <1>1, <2>1, <4>3
        <5>2. u[p - 1] = x
          BY <2>5, <3>2, <5>1
        <5>3. QED
          BY <2>5, <5>1, <5>2 DEF On
      <4>4. QED
        BY <1>1, <2>1, <4>1, <4>2, <4>3
    <3>3. QED
      BY <2>5, <3>1, <3>2 DEF On
  <2>8. QED
    BY <2>2, <2>5, <2>6, <2>7 DEF u
<1>4. QED
  BY <1>2, <1>3

(* An entry comes to the end.                                              *)
LEMMA AppendedList ==
    ASSUME NEW S, NEW s \in Seq(S), Distinct(s), NEW e \in S, ~On(s, e)
    PROVE  /\ Append(s, e) \in Seq(S) /\ Distinct(Append(s, e))
           /\ \A x : On(Append(s, e), x) <=> On(s, x) \/ x = e
<1>1. Len(s) \in Nat /\ \A i \in 1 .. Len(s) : s[i] \in S
  BY LenProperties
<1> DEFINE u == Append(s, e)
<1>2. /\ u \in Seq(S) /\ Len(u) = Len(s) + 1 /\ u[Len(s) + 1] = e
      /\ \A i \in 1 .. Len(s) : u[i] = s[i]
  BY <1>1
<1> HIDE DEF u
<1>3. \A i \in 1 .. Len(u) : i \in 1 .. Len(s) \/ i = Len(s) + 1
  BY <1>1, <1>2
<1>4. Len(s) + 1 \in 1 .. Len(u) /\ 1 .. Len(s) \subseteq 1 .. Len(u)
  BY <1>1, <1>2
<1>5. Distinct(u)
  <2>1. ASSUME NEW i \in 1 .. Len(u), NEW j \in 1 .. Len(u), u[i] = u[j]
        PROVE  i = j
    BY <1>2, <1>3, <2>1 DEF Distinct, On
  <2>2. QED
    BY <2>1 DEF Distinct
<1>6. \A x : On(u, x) <=> On(s, x) \/ x = e
  BY <1>2, <1>3, <1>4 DEF On
<1>7. QED
  BY <1>2, <1>5, <1>6 DEF u

(* The first n go.                                                         *)
LEMMA RestOfList ==
    ASSUME NEW S, NEW s \in Seq(S), Distinct(s), NEW n \in 0 .. Len(s)
    PROVE  LET u == SubSeq(s, n + 1, Len(s))
           IN  /\ u \in Seq(S) /\ Distinct(u) /\ Len(u) = Len(s) - n
               /\ \A x : On(u, x) <=> On(s, x) /\ x \notin {s[i] : i \in 1 .. n}
<1> DEFINE u == SubSeq(s, n + 1, Len(s))
<1>1. Len(s) \in Nat /\ n \in Nat /\ n <= Len(s) /\ \A i \in 1 .. Len(s) : s[i] \in S
  BY LenProperties
<1>2. /\ u \in Seq(S) /\ Len(u) = Len(s) - n
      /\ \A i \in 1 .. Len(s) - n : u[i] = s[n + i]
  <2>1. n + 1 \in Int /\ Len(s) \in Int /\ \A i \in n + 1 .. Len(s) : s[i] \in S
    BY <1>1
  <2>2. /\ u \in Seq(S) /\ Len(u) = (IF n + 1 <= Len(s) THEN Len(s) - (n + 1) + 1 ELSE 0)
        /\ \A i \in 1 .. Len(s) - (n + 1) + 1 : u[i] = s[n + 1 + i - 1]
    BY <2>1, SubSeqProperties
  <2>3. QED
    BY <1>1, <2>2
<1> HIDE DEF u
<1>3. Distinct(u)
  <2>1. ASSUME NEW i \in 1 .. Len(s) - n, NEW j \in 1 .. Len(s) - n, u[i] = u[j]
        PROVE  i = j
    <3>1. n + i \in 1 .. Len(s) /\ n + j \in 1 .. Len(s)
      BY <1>1
    <3>2. s[n + i] = s[n + j]
      BY <1>2, <2>1
    <3>3. n + i = n + j
      BY <3>1, <3>2 DEF Distinct
    <3>4. QED
      BY <1>1, <3>3
  <2>2. QED
    BY <1>2, <2>1 DEF Distinct
<1>4. ASSUME NEW x
      PROVE  On(u, x) <=> On(s, x) /\ x \notin {s[i] : i \in 1 .. n}
  <2>1. ASSUME NEW i \in 1 .. Len(s) - n, u[i] = x
        PROVE  On(s, x) /\ x \notin {s[j] : j \in 1 .. n}
    <3>1. n + i \in 1 .. Len(s) /\ s[n + i] = x
      BY <1>1, <1>2, <2>1
    <3>2. ASSUME NEW j \in 1 .. n, s[j] = x
          PROVE  FALSE
      <4>1. j \in 1 .. Len(s) /\ j # n + i
        BY <1>1
      <4>2. QED
        BY <3>1, <3>2, <4>1 DEF Distinct
    <3>3. QED
      BY <3>1, <3>2 DEF On
  <2>2. ASSUME NEW j \in 1 .. Len(s), s[j] = x, x \notin {s[i] : i \in 1 .. n}
        PROVE  On(u, x)
    <3>1. ~(j \in 1 .. n)
      BY <2>2
    <3>2. j - n \in 1 .. Len(s) - n /\ n + (j - n) = j
      BY <1>1, <3>1
    <3>3. u[j - n] = x
      BY <1>2, <2>2, <3>2
    <3>4. QED
      BY <1>2, <3>2, <3>3 DEF On
  <2>3. QED
    BY <1>2, <2>1, <2>2 DEF On
<1>5. QED
  BY <1>2, <1>3, <1>4 DEF u

\* What the entries of S count for, as a set.
Units(c, S) == UNION {{e} \X (1 .. Charge[c.entries[e].key]) : e \in S}

(* There are finitely many.                                                *)
LEMMA UnitsFinite ==
    ASSUME TableCacheAssumption, NEW c, NEW S, IsFiniteSet(S), \A e \in S : c.entries[e].key \in Numbers
    PROVE  IsFiniteSet(Units(c, S))
<1> DEFINE part(e) == {e} \X (1 .. Charge[c.entries[e].key])
           F == {part(e) : e \in S}
           f == [e \in S |-> part(e)]
<1>1. ASSUME NEW e \in S
      PROVE  IsFiniteSet(part(e))
  <2> DEFINE n == Charge[c.entries[e].key]
  <2>1. n \in Nat
    BY DEF TableCacheAssumption
  <2> HIDE DEF n
  <2>2. 1 .. n \in SUBSET Nat /\ \A i \in 1 .. n : i <= n
    BY <2>1
  <2>3. IsFiniteSet(1 .. n)
    BY <2>1, <2>2, FS_BoundedSetOfNaturals
  <2>4. IsFiniteSet({e})
    BY FS_Singleton
  <2>5. QED
    BY <2>3, <2>4, FS_Product DEF n
<1> HIDE DEF part
<1>2. f \in [S -> F] /\ \A U \in F : \E e \in S : f[e] = U
  OBVIOUS
<1> HIDE DEF f
<1>3. f \in Surjection(S, F)
  BY <1>2 DEF Surjection
<1>4. IsFiniteSet(F)
  <2> HIDE DEF F
  <2> QED BY <1>3, FS_Surjection
<1>5. \A U \in F : IsFiniteSet(U)
  BY <1>1
<1> HIDE DEF F
<1>6. IsFiniteSet(UNION F)
  BY <1>4, <1>5, FS_UNION
<1>7. QED
  BY <1>6 DEF F, part, Units

(* Of what a set counts for, what a part of it counts for can be taken.    *)
LEMMA ChargeOfRest ==
    ASSUME TableCacheAssumption, NEW c, NEW S, IsFiniteSet(S), \A e \in S : c.entries[e].key \in Numbers,
           NEW T, T \subseteq S
    PROVE  /\ TotalCharge(c, S) \in Nat /\ TotalCharge(c, T) \in Nat
           /\ TotalCharge(c, T) <= TotalCharge(c, S)
           /\ TotalCharge(c, S \ T) = TotalCharge(c, S) - TotalCharge(c, T)
<1>2. ASSUME NEW R, R \subseteq S
      PROVE  IsFiniteSet(Units(c, R))
  <2>1. IsFiniteSet(R) /\ \A e \in R : c.entries[e].key \in Numbers
    BY <1>2, FS_Subset
  <2>2. QED
    BY <2>1, UnitsFinite
<1>3. Units(c, T) \subseteq Units(c, S)
  BY DEF Units
<1>4. Units(c, S \ T) = Units(c, S) \ Units(c, T)
  BY DEF Units
<1>5. \A R : TotalCharge(c, R) = Cardinality(Units(c, R))
  BY DEF TotalCharge, Units
<1>6. IsFiniteSet(Units(c, S)) /\ IsFiniteSet(Units(c, T))
  BY <1>2
<1> DEFINE A == Units(c, S)
           B == Units(c, T)
<1>7. A \cap B = B
  BY <1>3
<1> HIDE DEF A, B
<1>8. IsFiniteSet(A) /\ IsFiniteSet(B) /\ B \in SUBSET A
  BY <1>3, <1>6 DEF A, B
<1>9. /\ Cardinality(A) \in Nat /\ Cardinality(B) \in Nat
      /\ Cardinality(B) <= Cardinality(A)
      /\ Cardinality(A \ B) = Cardinality(A) - Cardinality(A \cap B)
  BY <1>8, FS_CardinalityType, FS_Subset, FS_Difference
<1>10. Cardinality(A \ B) = Cardinality(A) - Cardinality(B)
  BY <1>7, <1>9
<1>11. QED
  BY <1>4, <1>5, <1>9, <1>10 DEF A, B

(* A single entry counts for the charge of its table.                      *)
LEMMA ChargeOfOne ==
    ASSUME TableCacheAssumption, NEW c, NEW e, c.entries[e].key \in Numbers
    PROVE  TotalCharge(c, {e}) = Charge[c.entries[e].key] /\ Charge[c.entries[e].key] \in Nat \ {0}
<1> DEFINE n == Charge[c.entries[e].key]
<1>1. n \in Nat \ {0}
  BY DEF TableCacheAssumption
<1> HIDE DEF n
<1>2. UNION {{x} \X (1 .. Charge[c.entries[x].key]) : x \in {e}} = {e} \X (1 .. n)
  BY DEF n
<1>3. IsFiniteSet(1 .. n) /\ Cardinality(1 .. n) = n
  BY <1>1, FS_Interval
<1>4. IsFiniteSet({e}) /\ Cardinality({e}) = 1
  BY FS_Singleton
<1>5. Cardinality({e} \X (1 .. n)) = 1 * n
  <2> DEFINE A == {e}
             B == 1 .. n
  <2>1. IsFiniteSet(A) /\ IsFiniteSet(B) /\ Cardinality(A) = 1 /\ Cardinality(B) = n
    BY <1>3, <1>4
  <2> HIDE DEF A, B
  <2>2. Cardinality(A \X B) = Cardinality(A) * Cardinality(B)
    BY <2>1, FS_Product
  <2>3. Cardinality(A \X B) = 1 * n
    BY <2>1, <2>2
  <2>4. QED
    BY <2>3 DEF A, B
<1>6. 1 * n = n
  BY <1>1
<1>7. QED
  BY <1>1, <1>2, <1>5, <1>6 DEF TotalCharge, n

(* Only the tables of the entries matter.                                  *)
LEMMA ChargeOfSame ==
    ASSUME NEW c, NEW d, NEW S, \A e \in S : c.entries[e].key = d.entries[e].key
    PROVE  TotalCharge(c, S) = TotalCharge(d, S)
<1> DEFINE part(e) == {e} \X (1 .. Charge[c.entries[e].key])
           same(e) == {e} \X (1 .. Charge[d.entries[e].key])
<1>1. \A e \in S : part(e) = same(e)
  OBVIOUS
<1> HIDE DEF part, same
<1>2. {part(e) : e \in S} = {same(e) : e \in S}
  BY <1>1
<1>3. QED
  BY <1>2, Zenon DEF TotalCharge, part, same

(* Every entry counts for one at least.                                    *)
LEMMA ChargeOfAll ==
    ASSUME TableCacheAssumption, NEW c, NEW S, IsFiniteSet(S), \A e \in S : c.entries[e].key \in Numbers
    PROVE  Cardinality(S) <= TotalCharge(c, S)
<1> DEFINE U == Units(c, S)
           f == [e \in S |-> <<e, 1>>]
<1>1. IsFiniteSet(U)
  BY UnitsFinite
<1>2. \A e \in S : <<e, 1>> \in U
  <2>1. ASSUME NEW e \in S
        PROVE  <<e, 1>> \in U
    <3>1. Charge[c.entries[e].key] \in Nat \ {0}
      BY DEF TableCacheAssumption
    <3>2. <<e, 1>> \in {e} \X (1 .. Charge[c.entries[e].key])
      BY <3>1
    <3>3. QED
      BY <3>2 DEF Units
  <2>2. QED
    BY <2>1
<1> HIDE DEF U
<1>3. f \in Injection(S, U)
  <2>1. f \in [S -> U]
    BY <1>2
  <2>2. \A a, b \in DOMAIN f : f[a] = f[b] => a = b
    OBVIOUS
  <2> HIDE DEF f
  <2>3. QED
    BY <2>1, <2>2 DEF Injection, IsInjective
<1> HIDE DEF f
<1>4. Cardinality(S) <= Cardinality(U)
  BY <1>1, <1>3, FS_Injection
<1>5. QED
  BY <1>4 DEF U, Units, TotalCharge

-----------------------------------------------------------------------------
(* The invariant of a cache c whose entries the threads hold as h says.    *)
(* Within an operation the table may lack the entries of x, and those of   *)
(* more are referred to once more.                                         *)

CachedIn(c) == {e \in DOMAIN c.entries : c.entries[e].inCache}
Holders(h, e) == {t \in Threads : h[t] = e}

Formed(c) ==
    /\ DOMAIN c = {"entries", "lru", "inUse", "table", "usage"}
    /\ IsFiniteSet(DOMAIN c.entries) /\ DOMAIN c.entries \subseteq Handles
    /\ c.entries \in [DOMAIN c.entries -> [key : Numbers, refs : Nat, inCache : BOOLEAN]]
    /\ c.lru \in Seq(Handles) /\ Distinct(c.lru)

\* The lists.
Listed(c) ==
    /\ \A e : On(c.lru, e) <=> e \in CachedIn(c) /\ c.entries[e].refs = 1
    /\ c.inUse = {e \in CachedIn(c) : c.entries[e].refs > 1}

\* The table has every cached entry under its key.
Tabled(c, x) ==
    /\ \A k \in DOMAIN c.table :
          c.table[k] \in CachedIn(c) \ x /\ c.entries[c.table[k]].key = k
    /\ \A e \in CachedIn(c) \ x :
          c.entries[e].key \in DOMAIN c.table /\ c.table[c.entries[e].key] = e

\* What is held is there, and everything is referred to as often as refs says.
Counted(c, h, more) ==
    /\ \A t \in Threads : h[t] # None => h[t] \in DOMAIN c.entries
    /\ \A e \in DOMAIN c.entries :
          /\ c.entries[e].refs # 0
          /\ c.entries[e].refs = Cardinality(Holders(h, e))
                                   + (IF e \in CachedIn(c) THEN 1 ELSE 0) + (IF e \in more THEN 1 ELSE 0)

Charged(c) == c.usage = TotalCharge(c, CachedIn(c))

Sound(c, h, x, more) ==
    Formed(c) /\ Listed(c) /\ Tabled(c, x) /\ Counted(c, h, more) /\ Charged(c)

Held == [Threads -> Handles \cup {None}]

(* A number of threads hold an entry: none, if the number is zero.         *)
LEMMA HoldersFinite ==
    ASSUME TableCacheAssumption, NEW h, NEW e
    PROVE  /\ IsFiniteSet(Holders(h, e)) /\ Cardinality(Holders(h, e)) \in Nat
           /\ Cardinality(Holders(h, e)) <= Cardinality(Threads)
           /\ Cardinality(Holders(h, e)) = 0 <=> Holders(h, e) = {}
<1>1. IsFiniteSet(Threads)
  BY DEF TableCacheAssumption
<1>2. Holders(h, e) \in SUBSET Threads
  BY DEF Holders
<1>3. QED
  BY <1>1, <1>2, FS_Subset, FS_CardinalityType, FS_EmptySet

\* A thread lets go of what it holds and takes v.
Moved(h, t, v, g) ==
    /\ h \in Held /\ t \in Threads /\ v \in Handles \cup {None} /\ v # h[t]
    /\ g = [h EXCEPT ![t] = v]

(* So many hold what then.                                                 *)
LEMMA HoldersMove ==
    ASSUME TableCacheAssumption, NEW h, NEW t, NEW v, NEW g, Moved(h, t, v, g)
    PROVE  /\ g \in Held
           /\ g[t] = v /\ \A s \in Threads : s # t => g[s] = h[s]
           /\ Cardinality(Holders(g, v)) = Cardinality(Holders(h, v)) + 1
           /\ Cardinality(Holders(h, h[t])) = Cardinality(Holders(g, h[t])) + 1
           /\ \A e : e # v /\ e # h[t] => Holders(g, e) = Holders(h, e)
<1>1. ASSUME NEW e
      PROVE  /\ IsFiniteSet(Holders(h, e)) /\ Cardinality(Holders(h, e)) \in Nat
             /\ IsFiniteSet(Holders(g, e)) /\ Cardinality(Holders(g, e)) \in Nat
  BY HoldersFinite
<1>3. g \in Held /\ g[t] = v /\ \A s \in Threads : s # t => g[s] = h[s]
  BY DEF Held, Moved
<1>4. Cardinality(Holders(g, v)) = Cardinality(Holders(h, v)) + 1
  <2>1. Holders(g, v) = Holders(h, v) \cup {t} /\ t \notin Holders(h, v)
    BY <1>3 DEF Holders, Moved
  <2>2. QED
    BY <1>1, <2>1, FS_AddElement
<1>5. Cardinality(Holders(h, h[t])) = Cardinality(Holders(g, h[t])) + 1
  <2>1. Holders(h, h[t]) = Holders(g, h[t]) \cup {t} /\ t \notin Holders(g, h[t])
    BY <1>3 DEF Holders, Moved
  <2>2. QED
    BY <1>1, <2>1, FS_AddElement
<1>6. \A e : e # v /\ e # h[t] => Holders(g, e) = Holders(h, e)
  BY <1>3 DEF Holders, Moved
<1>7. QED
  BY <1>3, <1>4, <1>5, <1>6

(* The caller takes the entry that was referred to once more.              *)
LEMMA Grasped ==
    ASSUME TableCacheAssumption, NEW c, NEW h \in Held, NEW t \in Threads, h[t] = None,
           NEW e \in DOMAIN c.entries, Sound(c, h, {}, {e})
    PROVE  Sound(c, [h EXCEPT ![t] = e], {}, {})
<1> DEFINE g == [h EXCEPT ![t] = e]
<1>1. Formed(c) /\ Listed(c) /\ Tabled(c, {}) /\ Counted(c, h, {e}) /\ Charged(c)
  BY DEF Sound
<1>2. e \in Handles /\ None \notin Handles
  BY <1>1 DEF Formed, TableCacheAssumption
<1>3. g = [h EXCEPT ![t] = e]
  OBVIOUS
<1> HIDE DEF g
<1>9. Moved(h, t, e, g)
  BY <1>2, <1>3 DEF Moved
<1>4. /\ g[t] = e /\ \A s \in Threads : s # t => g[s] = h[s]
      /\ \A o : o # e /\ o # None => Holders(g, o) = Holders(h, o)
  <2>1. /\ g[t] = e /\ \A s \in Threads : s # t => g[s] = h[s]
        /\ \A o : o # e /\ o # h[t] => Holders(g, o) = Holders(h, o)
    BY <1>9, HoldersMove
  <2>2. QED
    BY <2>1
<1>5. Cardinality(Holders(g, e)) = Cardinality(Holders(h, e)) + 1
  BY <1>9, HoldersMove
<1>6. Counted(c, g, {})
  <2>1. \A s \in Threads : g[s] # None => g[s] \in DOMAIN c.entries
    BY <1>1, <1>4 DEF Counted
  <2>2. ASSUME NEW o \in DOMAIN c.entries
        PROVE  /\ c.entries[o].refs # 0
               /\ c.entries[o].refs = Cardinality(Holders(g, o)) + (IF o \in CachedIn(c) THEN 1 ELSE 0)
    <3>1. o # None
      BY <1>1, <1>2 DEF Formed
    <3>2. Cardinality(Holders(h, o)) \in Nat
      BY HoldersFinite
    <3>3. /\ c.entries[o].refs # 0
          /\ c.entries[o].refs = Cardinality(Holders(h, o))
                                   + (IF o \in CachedIn(c) THEN 1 ELSE 0) + (IF o \in {e} THEN 1 ELSE 0)
      BY <1>1 DEF Counted
    <3>4. CASE o = e
      BY <1>5, <3>2, <3>3, <3>4
    <3>5. CASE o # e
      BY <1>4, <3>1, <3>2, <3>3, <3>5
    <3>6. QED
      BY <3>4, <3>5
  <2>3. ASSUME NEW o
        PROVE  Cardinality(Holders(g, o)) \in Nat
    BY HoldersFinite
  <2>4. QED
    BY <2>1, <2>2, <2>3 DEF Counted
<1>7. QED
  BY <1>1, <1>6 DEF Sound, g

(* A thread will no longer use what it holds.                              *)
LEMMA LetGo ==
    ASSUME TableCacheAssumption, NEW c, NEW h \in Held, NEW t \in Threads, h[t] # None,
           Sound(c, h, {}, {})
    PROVE  Sound(c, [h EXCEPT ![t] = None], {}, {h[t]})
<1> DEFINE g == [h EXCEPT ![t] = None]
<1>1. Formed(c) /\ Listed(c) /\ Tabled(c, {}) /\ Counted(c, h, {}) /\ Charged(c)
  BY DEF Sound
<1>2. None \notin Handles
  BY <1>1 DEF TableCacheAssumption
<1>3. g = [h EXCEPT ![t] = None]
  OBVIOUS
<1> HIDE DEF g
<1>9. Moved(h, t, None, g)
  BY <1>3 DEF Moved
<1>4. /\ g[t] = None /\ \A s \in Threads : s # t => g[s] = h[s]
      /\ \A o : o # None /\ o # h[t] => Holders(g, o) = Holders(h, o)
  BY <1>9, HoldersMove
<1>5. Cardinality(Holders(h, h[t])) = Cardinality(Holders(g, h[t])) + 1
  BY <1>9, HoldersMove
<1>6. Counted(c, g, {h[t]})
  <2>1. \A s \in Threads : g[s] # None => g[s] \in DOMAIN c.entries
    BY <1>1, <1>4 DEF Counted
  <2>2. ASSUME NEW o \in DOMAIN c.entries
        PROVE  /\ c.entries[o].refs # 0
               /\ c.entries[o].refs = Cardinality(Holders(g, o))
                                        + (IF o \in CachedIn(c) THEN 1 ELSE 0)
                                        + (IF o \in {h[t]} THEN 1 ELSE 0)
    <3>1. o # None
      BY <1>1, <1>2 DEF Formed
    <3>2. Cardinality(Holders(g, o)) \in Nat
      BY HoldersFinite
    <3>3. /\ c.entries[o].refs # 0
          /\ c.entries[o].refs = Cardinality(Holders(h, o)) + (IF o \in CachedIn(c) THEN 1 ELSE 0) + 0
      BY <1>1 DEF Counted
    <3>4. CASE o = h[t]
      BY <1>5, <3>2, <3>3, <3>4
    <3>5. CASE o # h[t]
      BY <1>4, <3>1, <3>2, <3>3, <3>5
    <3>6. QED
      BY <3>4, <3>5
  <2>3. QED
    BY <2>1, <2>2 DEF Counted
<1>7. QED
  BY <1>1, <1>6 DEF Sound, g

-----------------------------------------------------------------------------
(* The operations of the cache.                                            *)

(* Where the table, what is cached and its keys stay, the table is right.  *)
LEMMA SameTable ==
    ASSUME NEW c, NEW d, Tabled(c, {}), d.table = c.table, CachedIn(d) = CachedIn(c),
           \A o \in CachedIn(c) : d.entries[o].key = c.entries[o].key
    PROVE  Tabled(d, {})
<1>1. /\ \A j \in DOMAIN c.table : c.table[j] \in CachedIn(c) /\ c.entries[c.table[j]].key = j
      /\ \A o \in CachedIn(c) :
            c.entries[o].key \in DOMAIN c.table /\ c.table[c.entries[o].key] = o
  BY DEF Tabled
<1>2. /\ \A j \in DOMAIN d.table : d.table[j] \in CachedIn(d) /\ d.entries[d.table[j]].key = j
      /\ \A o \in CachedIn(d) :
            d.entries[o].key \in DOMAIN d.table /\ d.table[d.entries[o].key] = o
  BY <1>1
<1>3. QED
  BY <1>2 DEF Tabled

(* Ref: an entry that is found is referred to once more.                   *)
LEMMA RefKeeps ==
    ASSUME TableCacheAssumption, NEW c, NEW h \in Held, Sound(c, h, {}, {}), NEW e \in CachedIn(c)
    PROVE  /\ Sound(Ref(c, e), h, {}, {e})
           /\ DOMAIN Ref(c, e).entries = DOMAIN c.entries
           /\ \A o \in DOMAIN c.entries : Ref(c, e).entries[o].key = c.entries[o].key
<1> DEFINE d == Ref(c, e)
<1>1. Formed(c) /\ Listed(c) /\ Tabled(c, {}) /\ Counted(c, h, {}) /\ Charged(c)
  BY DEF Sound
<1>2. e \in DOMAIN c.entries /\ e \in Handles
      /\ c.entries[e].inCache /\ c.entries[e].refs \in Nat /\ c.entries[e].refs # 0
  BY <1>1 DEF CachedIn, Formed, Counted
<1>3. /\ DOMAIN d = DOMAIN c
      /\ d.entries = [c.entries EXCEPT ![e].refs = @ + 1]
      /\ d.lru = (IF c.entries[e].refs = 1 THEN Unlinked(c.lru, e) ELSE c.lru)
      /\ d.inUse = c.inUse \cup {e}
      /\ d.table = c.table /\ d.usage = c.usage
  <2>1. DOMAIN c = {"entries", "lru", "inUse", "table", "usage"}
    BY <1>1 DEF Formed
  <2>2. c.entries[e].inCache
    BY <1>2
  <2>3. DOMAIN d = DOMAIN c
    BY DEF Ref
  <2>4. d.entries = [c.entries EXCEPT ![e].refs = @ + 1]
    BY <2>1 DEF Ref
  <2>5. d.lru = (IF c.entries[e].refs = 1 THEN Unlinked(c.lru, e) ELSE c.lru)
    BY <2>1, <2>2 DEF Ref
  <2>6. d.inUse = c.inUse \cup {e}
    BY <2>1, <2>2 DEF Ref
  <2>7. d.table = c.table /\ d.usage = c.usage
    BY <2>1 DEF Ref
  <2>8. QED
    BY <2>3, <2>4, <2>5, <2>6, <2>7
<1>4. /\ DOMAIN d.entries = DOMAIN c.entries
      /\ d.entries[e].refs = c.entries[e].refs + 1
      /\ \A o \in DOMAIN c.entries :
            /\ d.entries[o] \in [key : Numbers, refs : Nat, inCache : BOOLEAN]
            /\ d.entries[o].key = c.entries[o].key
            /\ d.entries[o].inCache = c.entries[o].inCache
            /\ o # e => d.entries[o] = c.entries[o]
  <2> DEFINE r == c.entries[e]
  <2>1. c.entries \in [DOMAIN c.entries -> [key : Numbers, refs : Nat, inCache : BOOLEAN]]
    BY <1>1 DEF Formed
  <2>2. r \in [key : Numbers, refs : Nat, inCache : BOOLEAN]
    BY <1>2, <2>1
  <2>3. DOMAIN d.entries = DOMAIN c.entries
    BY <1>3
  <2>4. d.entries[e] = [r EXCEPT !.refs = @ + 1]
    BY <1>2, <1>3
  <2>5. \A o \in DOMAIN c.entries : o # e => d.entries[o] = c.entries[o]
    BY <1>3
  <2> HIDE DEF r
  <2>6. /\ d.entries[e].refs = r.refs + 1 /\ d.entries[e].key = r.key
        /\ d.entries[e].inCache = r.inCache
        /\ d.entries[e] \in [key : Numbers, refs : Nat, inCache : BOOLEAN]
    BY <2>2, <2>4
  <2>7. QED
    BY <2>1, <2>3, <2>5, <2>6 DEF r
<1> HIDE DEF d
<1>5. CachedIn(d) = CachedIn(c)
  BY <1>4 DEF CachedIn
<1>6. /\ d.lru \in Seq(Handles) /\ Distinct(d.lru)
      /\ \A x : On(d.lru, x) <=> On(c.lru, x) /\ x # e
  <2>1. c.lru \in Seq(Handles) /\ Distinct(c.lru)
    BY <1>1 DEF Formed
  <2>2. CASE c.entries[e].refs = 1
    BY <1>3, <2>1, <2>2, UnlinkedList
  <2>3. CASE c.entries[e].refs # 1
    BY <1>1, <1>3, <2>1, <2>3 DEF Listed
  <2>4. QED
    BY <2>2, <2>3
<1>7. Formed(d)
  <2>1. d.entries \in [DOMAIN d.entries -> [key : Numbers, refs : Nat, inCache : BOOLEAN]]
    BY <1>1, <1>3, <1>4 DEF Formed
  <2>2. QED
    BY <1>1, <1>3, <1>4, <1>6, <2>1 DEF Formed
<1>8. Listed(d)
  <2>1. \A x : On(d.lru, x) <=> x \in CachedIn(d) /\ d.entries[x].refs = 1
    BY <1>1, <1>2, <1>4, <1>5, <1>6 DEF Listed, CachedIn
  <2>2. d.inUse = {o \in CachedIn(d) : d.entries[o].refs > 1}
    <3>1. \A o \in CachedIn(c) : o \in DOMAIN c.entries
      BY DEF CachedIn
    <3>2. d.entries[e].refs > 1
      BY <1>2, <1>4
    <3>3. QED
      BY <1>1, <1>3, <1>4, <1>5, <3>1, <3>2 DEF Listed
  <2>3. QED
    BY <2>1, <2>2 DEF Listed
<1>9. Tabled(d, {})
  <2>1. \A o \in CachedIn(c) : d.entries[o].key = c.entries[o].key
    BY <1>4 DEF CachedIn
  <2>2. d.table = c.table
    BY <1>3
  <2>3. QED
    BY <1>1, <1>5, <2>1, <2>2, SameTable
<1>10. Counted(d, h, {e})
  <2>1. \A s \in Threads : h[s] # None => h[s] \in DOMAIN d.entries
    BY <1>1, <1>4 DEF Counted
  <2>2. ASSUME NEW o \in DOMAIN d.entries
        PROVE  /\ d.entries[o].refs # 0
               /\ d.entries[o].refs = Cardinality(Holders(h, o))
                                        + (IF o \in CachedIn(d) THEN 1 ELSE 0) + (IF o \in {e} THEN 1 ELSE 0)
    <3>1. Cardinality(Holders(h, o)) \in Nat
      BY HoldersFinite
    <3>2. /\ c.entries[o].refs # 0
          /\ c.entries[o].refs = Cardinality(Holders(h, o)) + (IF o \in CachedIn(c) THEN 1 ELSE 0) + 0
      BY <1>1, <1>4 DEF Counted
    <3>3. CASE o = e
      BY <1>4, <1>5, <3>1, <3>2, <3>3
    <3>4. CASE o # e
      BY <1>4, <1>5, <3>1, <3>2, <3>4
    <3>5. QED
      BY <3>3, <3>4
  <2>3. QED
    BY <2>1, <2>2 DEF Counted
<1>11. Charged(d)
  <2>1. TotalCharge(d, CachedIn(d)) = TotalCharge(c, CachedIn(c))
    <3>1. \A o \in CachedIn(c) : c.entries[o].key = d.entries[o].key
      BY <1>4 DEF CachedIn
    <3>2. QED
      BY <1>5, <3>1, ChargeOfSame
  <2>2. QED
    BY <1>1, <1>3, <2>1 DEF Charged
<1>12. QED
  BY <1>4, <1>7, <1>8, <1>9, <1>10, <1>11 DEF Sound, d

(* Unref: an entry that was referred to once more is so no longer; if that *)
(* was all it goes.                                                        *)
LEMMA UnrefKeeps ==
    ASSUME TableCacheAssumption, NEW c, NEW h \in Held, NEW more, NEW e \in DOMAIN c.entries, e \notin more,
           Sound(c, h, {}, more \cup {e})
    PROVE  /\ Sound(Unref(c, e), h, {}, more)
           /\ DOMAIN c.entries \ {e} \subseteq DOMAIN Unref(c, e).entries
           /\ DOMAIN Unref(c, e).entries \subseteq DOMAIN c.entries
           /\ \A o \in DOMAIN Unref(c, e).entries : Unref(c, e).entries[o].key = c.entries[o].key
           /\ Unref(c, e).table = c.table /\ Unref(c, e).usage = c.usage
<1> DEFINE d == Unref(c, e)
           n == c.entries[e].refs - 1
           idle == n = 1 /\ c.entries[e].inCache
<1>1. Formed(c) /\ Listed(c) /\ Tabled(c, {}) /\ Counted(c, h, more \cup {e}) /\ Charged(c)
  BY DEF Sound
<1>2. e \in Handles /\ c.entries[e].refs \in Nat /\ c.entries[e].refs # 0 /\ c.entries[e].inCache \in BOOLEAN
  BY <1>1 DEF Formed, Counted
<1>3. /\ DOMAIN d = DOMAIN c
      /\ d.entries = (IF n = 0 THEN Without(c.entries, {e}) ELSE [c.entries EXCEPT ![e].refs = n])
      /\ d.lru = (IF idle THEN Append(c.lru, e) ELSE c.lru)
      /\ d.inUse = (IF idle THEN c.inUse \ {e} ELSE c.inUse)
      /\ d.table = c.table /\ d.usage = c.usage
  <2>1. DOMAIN c = {"entries", "lru", "inUse", "table", "usage"}
    BY <1>1 DEF Formed
  <2>2. DOMAIN d = DOMAIN c
    BY DEF Unref
  <2>3. d.entries = (IF n = 0 THEN Without(c.entries, {e}) ELSE [c.entries EXCEPT ![e].refs = n])
    BY <2>1 DEF Unref
  <2>4. d.lru = (IF idle THEN Append(c.lru, e) ELSE c.lru)
    BY <2>1 DEF Unref
  <2>5. d.inUse = (IF idle THEN c.inUse \ {e} ELSE c.inUse)
    BY <2>1 DEF Unref
  <2>6. d.table = c.table /\ d.usage = c.usage
    BY <2>1 DEF Unref
  <2>7. QED
    BY <2>2, <2>3, <2>4, <2>5, <2>6
<1>4. n \in Nat /\ n = Cardinality(Holders(h, e)) + (IF e \in CachedIn(c) THEN 1 ELSE 0)
      /\ Cardinality(Holders(h, e)) \in Nat
  <2>1. c.entries[e].refs = Cardinality(Holders(h, e)) + (IF e \in CachedIn(c) THEN 1 ELSE 0) + 1
    BY <1>1 DEF Counted
  <2>2. Cardinality(Holders(h, e)) \in Nat
    BY HoldersFinite
  <2>3. QED
    BY <1>2, <2>1, <2>2
<1>5. /\ DOMAIN d.entries = (IF n = 0 THEN DOMAIN c.entries \ {e} ELSE DOMAIN c.entries)
      /\ n # 0 => d.entries[e].refs = n
      /\ \A o \in DOMAIN d.entries :
            /\ d.entries[o] \in [key : Numbers, refs : Nat, inCache : BOOLEAN]
            /\ d.entries[o].key = c.entries[o].key
            /\ d.entries[o].inCache = c.entries[o].inCache
            /\ o # e => d.entries[o] = c.entries[o]
  <2>1. c.entries \in [DOMAIN c.entries -> [key : Numbers, refs : Nat, inCache : BOOLEAN]]
    BY <1>1 DEF Formed
  <2>2. CASE n = 0
    <3>1. d.entries = [o \in DOMAIN c.entries \ {e} |-> c.entries[o]]
      BY <1>3, <2>2 DEF Without
    <3>2. QED
      BY <2>1, <2>2, <3>1
  <2>3. CASE n # 0
    <3> DEFINE r == c.entries[e]
    <3>1. d.entries = [c.entries EXCEPT ![e].refs = n]
      BY <1>3, <2>3
    <3>2. r \in [key : Numbers, refs : Nat, inCache : BOOLEAN] /\ n \in Nat
      BY <1>4, <2>1
    <3>3. DOMAIN d.entries = DOMAIN c.entries /\ d.entries[e] = [r EXCEPT !.refs = n]
          /\ \A o \in DOMAIN c.entries : o # e => d.entries[o] = c.entries[o]
      <4> HIDE DEF n
      <4> QED BY <3>1
    <3> HIDE DEF r, n
    <3>4. /\ d.entries[e].refs = n /\ d.entries[e].key = r.key
          /\ d.entries[e].inCache = r.inCache
          /\ d.entries[e] \in [key : Numbers, refs : Nat, inCache : BOOLEAN]
      BY <3>2, <3>3
    <3>5. QED
      BY <2>1, <2>3, <3>3, <3>4 DEF r
  <2>4. QED
    BY <2>2, <2>3
<1> HIDE DEF d
<1>6. CachedIn(d) = CachedIn(c) /\ (n = 0 => e \notin CachedIn(c))
  <2>1. n = 0 => e \notin CachedIn(c)
    BY <1>4
  <2>2. QED
    BY <1>5, <2>1 DEF CachedIn
<1>7. idle <=> n = 1 /\ e \in CachedIn(c)
  BY DEF CachedIn
<1>8. c.entries[e].refs = n + 1
  BY <1>2
<1> HIDE DEF n, idle
<1>9. /\ d.lru \in Seq(Handles) /\ Distinct(d.lru)
      /\ \A x : On(d.lru, x) <=> On(c.lru, x) \/ (idle /\ x = e)
  <2>1. c.lru \in Seq(Handles) /\ Distinct(c.lru)
    BY <1>1 DEF Formed
  <2>2. CASE idle
    <3>1. ~On(c.lru, e)
      BY <1>1, <1>7, <1>8, <2>2 DEF Listed
    <3>2. QED
      BY <1>2, <1>3, <2>1, <2>2, <3>1, AppendedList
  <2>3. CASE ~idle
    BY <1>3, <2>1, <2>3
  <2>4. QED
    BY <2>2, <2>3
<1>10. Formed(d)
  <2>1. d.entries \in [DOMAIN d.entries -> [key : Numbers, refs : Nat, inCache : BOOLEAN]]
    <3>1. d.entries = [o \in DOMAIN d.entries |-> d.entries[o]]
      <4>1. CASE n = 0
        BY <1>3, <4>1 DEF Without
      <4>2. CASE n # 0
        BY <1>3, <4>2
      <4>3. QED
        BY <4>1, <4>2
    <3>2. QED
      BY <1>5, <3>1
  <2>2. IsFiniteSet(DOMAIN d.entries) /\ DOMAIN d.entries \subseteq Handles
    <3>1. DOMAIN d.entries \in SUBSET DOMAIN c.entries
      BY <1>5
    <3>2. QED
      BY <1>1, <3>1, FS_Subset DEF Formed
  <2>3. QED
    BY <1>1, <1>3, <1>9, <2>1, <2>2 DEF Formed
<1>11. Listed(d)
  <2>1. \A o \in CachedIn(c) : o \in DOMAIN c.entries /\ o \in DOMAIN d.entries
    BY <1>6 DEF CachedIn
  <2>2. ASSUME NEW x
        PROVE  On(d.lru, x) <=> x \in CachedIn(d) /\ d.entries[x].refs = 1
    <3>1. On(c.lru, x) <=> x \in CachedIn(c) /\ c.entries[x].refs = 1
      BY <1>1 DEF Listed
    <3>2. CASE x = e
      <4>1. CASE e \in CachedIn(c)
        <5>1. n # 0 /\ d.entries[e].refs = n
          BY <1>5, <1>6, <4>1
        <5>2. ~On(c.lru, e)
          BY <1>4, <1>8, <3>1, <3>2, <5>1
        <5>3. QED
          BY <1>6, <1>7, <1>9, <3>2, <4>1, <5>1, <5>2
      <4>2. CASE e \notin CachedIn(c)
        BY <1>6, <1>7, <1>9, <3>1, <3>2, <4>2
      <4>3. QED
        BY <4>1, <4>2
    <3>3. CASE x # e
      BY <1>5, <1>6, <1>9, <2>1, <3>1, <3>3
    <3>4. QED
      BY <3>2, <3>3
  <2>3. ASSUME NEW x
        PROVE  x \in d.inUse <=> x \in CachedIn(d) /\ d.entries[x].refs > 1
    <3>1. x \in c.inUse <=> x \in CachedIn(c) /\ c.entries[x].refs > 1
      BY <1>1 DEF Listed
    <3>2. CASE x = e
      <4>1. CASE e \in CachedIn(c)
        <5>1. n # 0 /\ d.entries[e].refs = n
          BY <1>5, <1>6, <4>1
        <5>2. n > 1 <=> ~idle
          BY <1>4, <1>7, <4>1, <5>1
        <5>3. e \in c.inUse
          BY <1>4, <1>8, <3>1, <3>2, <4>1, <5>1
        <5>4. QED
          BY <1>3, <1>6, <3>2, <4>1, <5>1, <5>2, <5>3
      <4>2. CASE e \notin CachedIn(c)
        BY <1>3, <1>6, <1>7, <3>1, <3>2, <4>2
      <4>3. QED
        BY <4>1, <4>2
    <3>3. CASE x # e
      BY <1>3, <1>5, <1>6, <2>1, <3>1, <3>3
    <3>4. QED
      BY <3>2, <3>3
  <2>4. d.inUse = {o \in CachedIn(d) : d.entries[o].refs > 1}
    BY <2>3
  <2>5. QED
    BY <2>2, <2>4 DEF Listed
<1>12. Tabled(d, {})
  <2>1. \A o \in CachedIn(c) : d.entries[o].key = c.entries[o].key
    BY <1>5, <1>6 DEF CachedIn
  <2>2. d.table = c.table
    BY <1>3
  <2>3. QED
    BY <1>1, <1>6, <2>1, <2>2, SameTable
<1>13. Counted(d, h, more)
  <2>1. ASSUME NEW s \in Threads, h[s] # None
        PROVE  h[s] \in DOMAIN d.entries
    <3>1. h[s] \in DOMAIN c.entries
      BY <1>1, <2>1 DEF Counted
    <3>2. CASE h[s] = e /\ n = 0
      <4>1. Cardinality(Holders(h, e)) = 0
        BY <1>4, <3>2
      <4>2. Holders(h, e) = {}
        BY <4>1, HoldersFinite
      <4>3. QED
        BY <3>2, <4>2 DEF Holders
    <3>3. QED
      BY <1>5, <3>1, <3>2
  <2>2. ASSUME NEW o \in DOMAIN d.entries
        PROVE  /\ d.entries[o].refs # 0
               /\ d.entries[o].refs = Cardinality(Holders(h, o))
                                        + (IF o \in CachedIn(d) THEN 1 ELSE 0) + (IF o \in more THEN 1 ELSE 0)
    <3>1. o \in DOMAIN c.entries
      BY <1>5
    <3>2. CASE o = e
      BY <1>4, <1>5, <1>6, <3>2
    <3>3. CASE o # e
      BY <1>1, <1>5, <1>6, <3>1, <3>3 DEF Counted
    <3>4. QED
      BY <3>2, <3>3
  <2>3. QED
    BY <2>1, <2>2 DEF Counted
<1>14. Charged(d)
  <2>1. TotalCharge(d, CachedIn(d)) = TotalCharge(c, CachedIn(c))
    <3>1. \A o \in CachedIn(c) : c.entries[o].key = d.entries[o].key
      BY <1>5, <1>6 DEF CachedIn
    <3>2. QED
      BY <1>6, <3>1, ChargeOfSame
  <2>2. QED
    BY <1>1, <1>3, <2>1 DEF Charged
<1>15. Sound(d, h, {}, more)
  BY <1>10, <1>11, <1>12, <1>13, <1>14 DEF Sound
<1>16. QED
  BY <1>3, <1>5, <1>15 DEF d

(* FinishErase: an entry that the table no longer has leaves the lists.    *)
LEMMA FinishEraseKeeps ==
    ASSUME TableCacheAssumption, NEW c, NEW h \in Held, NEW more, NEW e \in CachedIn(c), e \notin more,
           Sound(c, h, {e}, more)
    PROVE  /\ Sound(FinishErase(c, e), h, {}, more)
           /\ DOMAIN c.entries \ {e} \subseteq DOMAIN FinishErase(c, e).entries
           /\ DOMAIN FinishErase(c, e).entries \subseteq DOMAIN c.entries
           /\ \A o \in DOMAIN FinishErase(c, e).entries :
                 FinishErase(c, e).entries[o].key = c.entries[o].key
<1> DEFINE b == [c EXCEPT !.entries[e].inCache = FALSE,
                          !.lru = Unlinked(@, e), !.inUse = @ \ {e},
                          !.usage = @ - Charge[c.entries[e].key]]
<1>1. Formed(c) /\ Listed(c) /\ Tabled(c, {e}) /\ Counted(c, h, more) /\ Charged(c)
  BY DEF Sound
<1>2. e \in DOMAIN c.entries /\ e \in Handles /\ c.entries[e].inCache
  BY <1>1 DEF Formed, CachedIn
<1>3. FinishErase(c, e) = Unref(b, e)
  BY DEF FinishErase
<1>4. /\ DOMAIN b = DOMAIN c
      /\ b.entries = [c.entries EXCEPT ![e].inCache = FALSE]
      /\ b.lru = Unlinked(c.lru, e) /\ b.inUse = c.inUse \ {e}
      /\ b.usage = c.usage - Charge[c.entries[e].key] /\ b.table = c.table
  BY <1>1 DEF Formed
<1> HIDE DEF b
<1>5. /\ DOMAIN b.entries = DOMAIN c.entries
      /\ ~b.entries[e].inCache
      /\ \A o \in DOMAIN c.entries :
            /\ b.entries[o] \in [key : Numbers, refs : Nat, inCache : BOOLEAN]
            /\ b.entries[o].key = c.entries[o].key
            /\ b.entries[o].refs = c.entries[o].refs
            /\ o # e => b.entries[o] = c.entries[o]
  <2> DEFINE r == c.entries[e]
  <2>1. c.entries \in [DOMAIN c.entries -> [key : Numbers, refs : Nat, inCache : BOOLEAN]]
    BY <1>1 DEF Formed
  <2>2. r \in [key : Numbers, refs : Nat, inCache : BOOLEAN]
    BY <1>2, <2>1
  <2>3. DOMAIN b.entries = DOMAIN c.entries /\ b.entries[e] = [r EXCEPT !.inCache = FALSE]
        /\ \A o \in DOMAIN c.entries : o # e => b.entries[o] = c.entries[o]
    BY <1>2, <1>4
  <2> HIDE DEF r
  <2>4. /\ b.entries[e].refs = r.refs /\ b.entries[e].key = r.key
        /\ b.entries[e].inCache = FALSE
        /\ b.entries[e] \in [key : Numbers, refs : Nat, inCache : BOOLEAN]
    BY <2>2, <2>3
  <2>5. QED
    BY <2>1, <2>3, <2>4 DEF r
<1>6. CachedIn(b) = CachedIn(c) \ {e}
  BY <1>5 DEF CachedIn
<1>7. Formed(b)
  <2>1. b.entries \in [DOMAIN b.entries -> [key : Numbers, refs : Nat, inCache : BOOLEAN]]
    BY <1>4, <1>5
  <2>2. b.lru \in Seq(Handles) /\ Distinct(b.lru)
    BY <1>1, <1>4, UnlinkedList DEF Formed
  <2>3. QED
    BY <1>1, <1>4, <1>5, <2>1, <2>2 DEF Formed
<1>8. Listed(b)
  <2>1. \A o \in CachedIn(c) : o \in DOMAIN c.entries
    BY DEF CachedIn
  <2>2. \A x : On(b.lru, x) <=> On(c.lru, x) /\ x # e
    BY <1>1, <1>4, UnlinkedList DEF Formed
  <2>3. \A x : On(b.lru, x) <=> x \in CachedIn(b) /\ b.entries[x].refs = 1
    BY <1>1, <1>5, <1>6, <2>1, <2>2 DEF Listed
  <2>4. b.inUse = {o \in CachedIn(b) : b.entries[o].refs > 1}
    BY <1>1, <1>4, <1>5, <1>6, <2>1 DEF Listed
  <2>5. QED
    BY <2>3, <2>4 DEF Listed
<1>9. Tabled(b, {})
  <2>1. \A o \in CachedIn(c) : o \in DOMAIN c.entries
    BY DEF CachedIn
  <2>2. QED
    BY <1>1, <1>4, <1>5, <1>6, <2>1 DEF Tabled
<1>10. Counted(b, h, more \cup {e})
  <2>1. ASSUME NEW o \in DOMAIN b.entries
        PROVE  /\ b.entries[o].refs # 0
               /\ b.entries[o].refs = Cardinality(Holders(h, o)) + (IF o \in CachedIn(b) THEN 1 ELSE 0)
                                        + (IF o \in more \cup {e} THEN 1 ELSE 0)
    <3>1. /\ c.entries[o].refs # 0
          /\ c.entries[o].refs = Cardinality(Holders(h, o)) + (IF o \in CachedIn(c) THEN 1 ELSE 0)
                                   + (IF o \in more THEN 1 ELSE 0)
      BY <1>1, <1>5 DEF Counted
    <3>2. Cardinality(Holders(h, o)) \in Nat
      BY HoldersFinite
    <3>3. CASE o = e
      BY <1>5, <1>6, <3>1, <3>2, <3>3
    <3>4. CASE o # e
      BY <1>5, <1>6, <3>1, <3>2, <3>4
    <3>5. QED
      BY <3>3, <3>4
  <2>2. QED
    BY <1>1, <1>5, <2>1 DEF Counted
<1>11. Charged(b)
  <2>1. IsFiniteSet(CachedIn(c)) /\ \A o \in CachedIn(c) : c.entries[o].key \in Numbers
    <3>1. CachedIn(c) \in SUBSET DOMAIN c.entries
      BY DEF CachedIn
    <3>2. QED
      BY <1>1, <3>1, FS_Subset DEF Formed
  <2>2. {e} \subseteq CachedIn(c)
    OBVIOUS
  <2>3. /\ TotalCharge(c, CachedIn(c) \ {e}) = TotalCharge(c, CachedIn(c)) - TotalCharge(c, {e})
    BY <2>1, <2>2, ChargeOfRest
  <2>4. TotalCharge(c, {e}) = Charge[c.entries[e].key]
    BY <2>1, ChargeOfOne
  <2>5. TotalCharge(b, CachedIn(b)) = TotalCharge(c, CachedIn(b))
    <3>1. \A o \in CachedIn(b) : b.entries[o].key = c.entries[o].key
      BY <1>5, <1>6 DEF CachedIn
    <3>2. QED
      BY <3>1, ChargeOfSame
  <2>6. QED
    BY <1>1, <1>4, <1>6, <2>3, <2>4, <2>5 DEF Charged
<1>12. Sound(b, h, {}, more \cup {e})
  BY <1>7, <1>8, <1>9, <1>10, <1>11 DEF Sound
<1>13. /\ Sound(Unref(b, e), h, {}, more)
       /\ DOMAIN b.entries \ {e} \subseteq DOMAIN Unref(b, e).entries
       /\ DOMAIN Unref(b, e).entries \subseteq DOMAIN b.entries
       /\ \A o \in DOMAIN Unref(b, e).entries : Unref(b, e).entries[o].key = b.entries[o].key
  BY <1>2, <1>5, <1>12, UnrefKeeps
<1>14. QED
  BY <1>3, <1>5, <1>13

(* Erase: the entry of a table, if there is one, goes.                     *)
LEMMA EraseKeeps ==
    ASSUME TableCacheAssumption, NEW c, NEW h \in Held, NEW k \in DOMAIN c.table, Sound(c, h, {}, {})
    PROVE  /\ Sound(Erase(c, k), h, {}, {})
           /\ DOMAIN Erase(c, k).entries \subseteq DOMAIN c.entries
           /\ \A o \in DOMAIN Erase(c, k).entries : Erase(c, k).entries[o].key = c.entries[o].key
<1> DEFINE b == [c EXCEPT !.table = Without(@, {k})]
           e == c.table[k]
<1>1. Formed(c) /\ Listed(c) /\ Tabled(c, {}) /\ Counted(c, h, {}) /\ Charged(c)
  BY DEF Sound
<1>2. e \in CachedIn(c) /\ c.entries[e].key = k
  BY <1>1 DEF Tabled
<1>3. Erase(c, k) = FinishErase(b, e)
  BY DEF Erase
<1>4. /\ DOMAIN b = DOMAIN c
      /\ b.entries = c.entries /\ b.lru = c.lru /\ b.inUse = c.inUse /\ b.usage = c.usage
      /\ b.table = [j \in DOMAIN c.table \ {k} |-> c.table[j]]
  BY <1>1 DEF Formed, Without
<1> HIDE DEF b
<1>5. CachedIn(b) = CachedIn(c)
  BY <1>4 DEF CachedIn
<1>6. Tabled(b, {e})
  <2> HIDE DEF e
  <2>1. \A j \in DOMAIN b.table : b.table[j] \in CachedIn(b) \ {e} /\ b.entries[b.table[j]].key = j
    BY <1>1, <1>2, <1>4, <1>5 DEF Tabled
  <2>2. ASSUME NEW o \in CachedIn(b) \ {e}
        PROVE  b.entries[o].key \in DOMAIN b.table /\ b.table[b.entries[o].key] = o
    <3>1. c.entries[o].key \in DOMAIN c.table /\ c.table[c.entries[o].key] = o
      BY <1>1, <1>5, <2>2 DEF Tabled
    <3>2. c.entries[o].key # k
      BY <2>2, <3>1 DEF e
    <3>3. QED
      BY <1>4, <3>1, <3>2
  <2>3. QED
    BY <2>1, <2>2 DEF Tabled
<1>7. Formed(b) /\ Listed(b) /\ Counted(b, h, {})
  BY <1>1, <1>4, <1>5 DEF Formed, Listed, Counted
<1>8. Charged(b)
  <2>1. TotalCharge(b, CachedIn(b)) = TotalCharge(c, CachedIn(c))
    BY <1>4, <1>5, ChargeOfSame
  <2>2. QED
    BY <1>1, <1>4, <2>1 DEF Charged
<1>9. Sound(b, h, {e}, {})
  BY <1>6, <1>7, <1>8 DEF Sound
<1> HIDE DEF e
<1>10. e \in CachedIn(b)
  BY <1>2, <1>5
<1>11. /\ Sound(FinishErase(b, e), h, {}, {})
       /\ DOMAIN FinishErase(b, e).entries \subseteq DOMAIN b.entries
       /\ \A o \in DOMAIN FinishErase(b, e).entries : FinishErase(b, e).entries[o].key = b.entries[o].key
  <2>1. e \notin {}
    OBVIOUS
  <2>2. QED
    BY <1>9, <1>10, <2>1, FinishEraseKeeps
<1>12. QED
  BY <1>3, <1>4, <1>11

(* The n oldest entries of lru_ go: nobody else referred to them.          *)
LEMMA EvictOldestKeeps ==
    ASSUME TableCacheAssumption, NEW c, NEW h \in Held, NEW more, Sound(c, h, {}, more),
           NEW n \in 0 .. Len(c.lru)
    PROVE  /\ Sound(EvictOldest(c, n), h, {}, more)
           /\ DOMAIN EvictOldest(c, n).entries \subseteq DOMAIN c.entries
           /\ \A o \in more : o \in DOMAIN c.entries => o \in DOMAIN EvictOldest(c, n).entries
           /\ \A o \in DOMAIN EvictOldest(c, n).entries :
                 EvictOldest(c, n).entries[o].key = c.entries[o].key
           /\ EvictOldest(c, n).usage = c.usage - TotalCharge(c, Oldest(c, n))
           /\ n = Len(c.lru) => \A x : ~On(EvictOldest(c, n).lru, x)
<1> DEFINE d == EvictOldest(c, n)
           gone == Oldest(c, n)
           keys == {c.entries[e].key : e \in gone}
<1>1. Formed(c) /\ Listed(c) /\ Tabled(c, {}) /\ Counted(c, h, more) /\ Charged(c)
  BY DEF Sound
<1>2. /\ DOMAIN d = DOMAIN c
      /\ d.entries = [o \in DOMAIN c.entries \ gone |-> c.entries[o]]
      /\ d.lru = SubSeq(c.lru, n + 1, Len(c.lru)) /\ d.inUse = c.inUse
      /\ d.table = [k \in DOMAIN c.table \ keys |-> c.table[k]]
      /\ d.usage = c.usage - TotalCharge(c, gone)
  BY <1>1 DEF EvictOldest, Without, Formed
<1>3. gone = {c.lru[i] : i \in 1 .. n}
  BY DEF Oldest
<1> HIDE DEF d, gone
<1>4. /\ d.lru \in Seq(Handles) /\ Distinct(d.lru) /\ Len(d.lru) = Len(c.lru) - n
      /\ \A x : On(d.lru, x) <=> On(c.lru, x) /\ x \notin gone
  <2>1. c.lru \in Seq(Handles) /\ Distinct(c.lru)
    BY <1>1 DEF Formed
  <2> DEFINE s == c.lru
             u == SubSeq(s, n + 1, Len(s))
  <2>2. /\ u \in Seq(Handles) /\ Distinct(u) /\ Len(u) = Len(s) - n
        /\ \A x : On(u, x) <=> On(s, x) /\ x \notin {s[i] : i \in 1 .. n}
    <3> HIDE DEF s
    <3>1. s \in Seq(Handles) /\ Distinct(s) /\ n \in 0 .. Len(s)
      BY <2>1 DEF s
    <3>2. QED
      BY <3>1, RestOfList
  <2>3. d.lru = u /\ gone = {s[i] : i \in 1 .. n}
    BY <1>2, <1>3
  <2> HIDE DEF s, u
  <2>4. QED
    BY <2>2, <2>3 DEF s
<1>5. ASSUME NEW e \in gone
      PROVE  /\ e \in CachedIn(c) /\ c.entries[e].refs = 1 /\ e \in DOMAIN c.entries
             /\ Holders(h, e) = {} /\ e \notin more
  <2>1. On(c.lru, e)
    <3>1. PICK i \in 1 .. n : e = c.lru[i]
      BY <1>3
    <3>2. i \in 1 .. Len(c.lru)
      BY <1>1, LenProperties DEF Formed
    <3>3. QED
      BY <3>1, <3>2 DEF On
  <2>2. e \in CachedIn(c) /\ c.entries[e].refs = 1
    BY <1>1, <2>1 DEF Listed
  <2>3. e \in DOMAIN c.entries
    BY <2>2 DEF CachedIn
  <2>4. 1 = Cardinality(Holders(h, e)) + 1 + (IF e \in more THEN 1 ELSE 0)
    BY <1>1, <2>2, <2>3 DEF Counted
  <2>5. Cardinality(Holders(h, e)) \in Nat
    BY HoldersFinite
  <2>6. Cardinality(Holders(h, e)) = 0 /\ e \notin more
    BY <2>4, <2>5
  <2>7. QED
    BY <2>2, <2>3, <2>6, HoldersFinite
<1>6. DOMAIN d.entries = DOMAIN c.entries \ gone /\ \A o \in DOMAIN d.entries : d.entries[o] = c.entries[o]
  BY <1>2
<1>7. CachedIn(d) = CachedIn(c) \ gone
  BY <1>6 DEF CachedIn
<1>8. Formed(d)
  <2>1. d.entries \in [DOMAIN d.entries -> [key : Numbers, refs : Nat, inCache : BOOLEAN]]
    BY <1>1, <1>2, <1>6 DEF Formed
  <2>2. DOMAIN d.entries \in SUBSET DOMAIN c.entries
    BY <1>6
  <2>3. IsFiniteSet(DOMAIN d.entries)
    BY <1>1, <2>2, FS_Subset DEF Formed
  <2>4. QED
    BY <1>1, <1>2, <1>4, <2>1, <2>2, <2>3 DEF Formed
<1>9. Listed(d)
  <2>1. \A o \in CachedIn(d) : o \in DOMAIN d.entries
    BY DEF CachedIn
  <2>2. \A x : On(d.lru, x) <=> x \in CachedIn(d) /\ d.entries[x].refs = 1
    BY <1>1, <1>4, <1>6, <1>7, <2>1 DEF Listed
  <2>3. d.inUse = {o \in CachedIn(d) : d.entries[o].refs > 1}
    <3>1. \A o \in gone : ~(c.entries[o].refs > 1)
      BY <1>5
    <3>2. QED
      BY <1>1, <1>2, <1>6, <1>7, <2>1, <3>1 DEF Listed
  <2>4. QED
    BY <2>2, <2>3 DEF Listed
<1>10. Tabled(d, {})
  <2>1. \A o \in CachedIn(d) : o \in DOMAIN d.entries
    BY DEF CachedIn
  <2>2. ASSUME NEW k \in DOMAIN d.table
        PROVE  d.table[k] \in CachedIn(d) \ {} /\ d.entries[d.table[k]].key = k
    <3>1. k \in DOMAIN c.table /\ k \notin keys /\ d.table[k] = c.table[k]
      BY <1>2
    <3>2. c.table[k] \in CachedIn(c) /\ c.entries[c.table[k]].key = k
      BY <1>1, <3>1 DEF Tabled
    <3>3. c.table[k] \notin gone
      BY <3>1, <3>2
    <3>4. QED
      BY <1>6, <1>7, <2>1, <3>1, <3>2, <3>3
  <2>3. ASSUME NEW o \in CachedIn(d) \ {}
        PROVE  d.entries[o].key \in DOMAIN d.table /\ d.table[d.entries[o].key] = o
    <3>1. o \in CachedIn(c) /\ o \notin gone /\ d.entries[o] = c.entries[o]
      BY <1>6, <1>7, <2>1
    <3>2. c.entries[o].key \in DOMAIN c.table /\ c.table[c.entries[o].key] = o
      BY <1>1, <3>1 DEF Tabled
    <3>3. ASSUME NEW e \in gone, c.entries[e].key = c.entries[o].key
          PROVE  FALSE
      <4>1. c.table[c.entries[e].key] = e
        BY <1>1, <1>5 DEF Tabled
      <4>2. QED
        BY <3>1, <3>2, <3>3, <4>1
    <3>4. c.entries[o].key \notin keys
      BY <3>3
    <3>5. /\ c.entries[o].key \in DOMAIN d.table
          /\ d.table[c.entries[o].key] = c.table[c.entries[o].key]
      BY <1>2, <3>2, <3>4
    <3>6. QED
      BY <3>1, <3>2, <3>5
  <2>4. QED
    BY <2>2, <2>3 DEF Tabled
<1>11. Counted(d, h, more)
  <2>1. ASSUME NEW t \in Threads, h[t] # None
        PROVE  h[t] \in DOMAIN d.entries
    <3>1. h[t] \in DOMAIN c.entries
      BY <1>1, <2>1 DEF Counted
    <3>2. h[t] \notin gone
      <4>1. t \in Holders(h, h[t])
        BY DEF Holders
      <4>2. QED
        BY <1>5, <4>1
    <3>3. QED
      BY <1>6, <3>1, <3>2
  <2>2. \A o \in DOMAIN d.entries : o \in CachedIn(d) <=> o \in CachedIn(c)
    BY <1>6, <1>7
  <2>3. QED
    BY <1>1, <1>6, <2>1, <2>2 DEF Counted
<1>12. Charged(d)
  <2>1. IsFiniteSet(CachedIn(c)) /\ \A o \in CachedIn(c) : c.entries[o].key \in Numbers
    <3>1. CachedIn(c) \in SUBSET DOMAIN c.entries
      BY DEF CachedIn
    <3>2. QED
      BY <1>1, <3>1, FS_Subset DEF Formed
  <2>2. gone \subseteq CachedIn(c)
    BY <1>5
  <2>3. TotalCharge(c, CachedIn(c) \ gone) = TotalCharge(c, CachedIn(c)) - TotalCharge(c, gone)
    BY <2>1, <2>2, ChargeOfRest
  <2>4. TotalCharge(d, CachedIn(d)) = TotalCharge(c, CachedIn(d))
    <3>1. \A o \in CachedIn(d) : d.entries[o].key = c.entries[o].key
      BY <1>6 DEF CachedIn
    <3>2. QED
      BY <3>1, ChargeOfSame
  <2>5. QED
    BY <1>1, <1>2, <1>7, <2>3, <2>4 DEF Charged
<1>13. Sound(d, h, {}, more)
  BY <1>8, <1>9, <1>10, <1>11, <1>12 DEF Sound
<1>14. n = Len(c.lru) => \A x : ~On(d.lru, x)
  <2>1. Len(c.lru) \in Nat
    BY <1>1, LenProperties DEF Formed
  <2>2. QED
    BY <1>4, <2>1 DEF On
<1>15. \A o \in more : o \in DOMAIN c.entries => o \in DOMAIN d.entries
  BY <1>5, <1>6
<1>16. QED
  BY <1>2, <1>6, <1>13, <1>14, <1>15 DEF d, gone

(* The oldest entry of lru_ is cached, and only the cache refers to it.    *)
LEMMA OldestUnused ==
    ASSUME NEW c, NEW h, NEW more, Sound(c, h, {}, more), NEW i \in 1 .. Len(c.lru)
    PROVE  /\ c.lru[i] \in CachedIn(c) /\ c.lru[i] \in DOMAIN c.entries
           /\ c.entries[c.lru[i]].refs = 1 /\ c.lru[i] \notin c.inUse
           /\ c.entries[c.lru[i]].key \in DOMAIN c.table
           /\ c.table[c.entries[c.lru[i]].key] = c.lru[i]
<1> DEFINE e == c.lru[i]
<1>1. On(c.lru, e)
  BY DEF On
<1> HIDE DEF e
<1>2. e \in CachedIn(c) /\ c.entries[e].refs = 1 /\ e \notin c.inUse
  BY <1>1 DEF Sound, Listed
<1>3. e \in DOMAIN c.entries /\ c.entries[e].key \in DOMAIN c.table /\ c.table[c.entries[e].key] = e
  BY <1>2 DEF Sound, Tabled, CachedIn
<1>4. QED
  BY <1>2, <1>3 DEF e

(* The loops of Insert and Prune: to evict the first entry of lru_ is to   *)
(* erase its table.                                                        *)
LEMMA FirstRound ==
    ASSUME TableCacheAssumption, NEW c, NEW h, NEW more, Sound(c, h, {}, more), Len(c.lru) > 0
    PROVE  Erase(c, c.entries[c.lru[1]].key) = EvictOldest(c, 1)
<1> DEFINE e == c.lru[1]
           k == c.entries[e].key
           n == Charge[k]
           a == [c EXCEPT !.table = Without(@, {k})]
           b == [a EXCEPT !.entries[e].inCache = FALSE,
                          !.lru = Unlinked(@, e), !.inUse = @ \ {e},
                          !.usage = @ - Charge[a.entries[e].key]]
           d == Erase(c, k)
           f == EvictOldest(c, 1)
<1>1. Formed(c) /\ Len(c.lru) \in Nat
  BY LenProperties DEF Sound, Formed
<1>2. /\ e \in CachedIn(c) /\ e \in DOMAIN c.entries /\ c.entries[e].refs = 1 /\ e \notin c.inUse
      /\ k \in DOMAIN c.table /\ c.table[k] = e
  BY <1>1, OldestUnused
<1>3. d = Unref(b, e)
  BY <1>2 DEF Erase, FinishErase
<1>4. /\ DOMAIN c = {"entries", "lru", "inUse", "table", "usage"}
      /\ c.entries \in [DOMAIN c.entries -> [key : Numbers, refs : Nat, inCache : BOOLEAN]]
  BY <1>1 DEF Formed
<1>5. /\ DOMAIN b = DOMAIN c
      /\ b.entries = [c.entries EXCEPT ![e].inCache = FALSE]
      /\ b.lru = Unlinked(c.lru, e) /\ b.inUse = c.inUse \ {e}
      /\ b.usage = c.usage - n
      /\ b.table = [j \in DOMAIN c.table \ {k} |-> c.table[j]]
  <2>1. /\ DOMAIN a = DOMAIN c
        /\ a.entries = c.entries /\ a.lru = c.lru /\ a.inUse = c.inUse /\ a.usage = c.usage
        /\ a.table = [j \in DOMAIN c.table \ {k} |-> c.table[j]]
    BY <1>4 DEF Without
  <2> HIDE DEF a, e
  <2>2. /\ DOMAIN b = DOMAIN a
        /\ b.entries = [a.entries EXCEPT ![e].inCache = FALSE]
        /\ b.lru = Unlinked(a.lru, e) /\ b.inUse = a.inUse \ {e}
        /\ b.usage = a.usage - Charge[a.entries[e].key] /\ b.table = a.table
    BY <1>4, <2>1
  <2>3. QED
    BY <2>1, <2>2
<1> HIDE DEF a, b, k
<1>6. DOMAIN b.entries = DOMAIN c.entries /\ b.entries[e].refs = 1 /\ ~b.entries[e].inCache
      /\ \A o \in DOMAIN c.entries : o # e => b.entries[o] = c.entries[o]
  <2> DEFINE r == c.entries[e]
  <2>1. r \in [key : Numbers, refs : Nat, inCache : BOOLEAN] /\ r.refs = 1
    BY <1>2, <1>4
  <2>2. DOMAIN b.entries = DOMAIN c.entries /\ b.entries[e] = [r EXCEPT !.inCache = FALSE]
        /\ \A o \in DOMAIN c.entries : o # e => b.entries[o] = c.entries[o]
    BY <1>2, <1>5
  <2> HIDE DEF r
  <2>3. QED
    BY <2>1, <2>2
<1>7. /\ d = [x \in DOMAIN c |-> d[x]]
      /\ d.entries = [o \in DOMAIN c.entries \ {e} |-> c.entries[o]]
      /\ d.lru = Unlinked(c.lru, e) /\ d.inUse = c.inUse
      /\ d.table = [j \in DOMAIN c.table \ {k} |-> c.table[j]] /\ d.usage = c.usage - n
  <2> HIDE DEF e, d
  <2>1. d = [x \in DOMAIN c |-> d[x]]
    BY <1>3, <1>5 DEF Unref
  <2>2. d.entries = Without(b.entries, {e})
    BY <1>3, <1>4, <1>5, <1>6 DEF Unref
  <2>3. d.entries = [o \in DOMAIN c.entries \ {e} |-> c.entries[o]]
    BY <1>6, <2>2 DEF Without
  <2>4. d.lru = b.lru /\ d.inUse = b.inUse /\ d.table = b.table /\ d.usage = b.usage
    BY <1>3, <1>4, <1>5, <1>6 DEF Unref
  <2>5. c.inUse \ {e} = c.inUse
    BY <1>2
  <2>6. QED
    BY <1>5, <2>1, <2>3, <2>4, <2>5
<1>8. Oldest(c, 1) = {e}
  <2>1. 1 .. 1 = {1}
    OBVIOUS
  <2>2. QED
    BY <2>1 DEF Oldest
<1>9. Unlinked(c.lru, e) = SubSeq(c.lru, 2, Len(c.lru))
  <2> DEFINE s == c.lru
  <2>1. s \in Seq(Handles) /\ Distinct(s) /\ Len(s) \in Nat /\ 1 \in DOMAIN s /\ DOMAIN s = 1 .. Len(s)
    BY <1>1, LenProperties DEF Formed
  <2> HIDE DEF s
  <2>2. e = s[1]
    BY DEF s
  <2>3. (CHOOSE i \in DOMAIN s : s[i] = e) = 1
    <3>1. \A i \in DOMAIN s : s[i] = e => i = 1
      BY <2>1, <2>2 DEF Distinct
    <3>2. QED
      BY <2>1, <2>2, <3>1
  <2>4. e \in ToSet(s)
    BY <2>1, <2>2 DEF ToSet
  <2>5. Unlinked(s, e) = RemoveAt(s, 1)
    BY <2>3, <2>4 DEF Unlinked
  <2>6. SubSeq(s, 1, 1 - 1) = <<>>
    <3>1. 1 \in Int /\ 1 - 1 \in Int /\ 1 > 1 - 1
      OBVIOUS
    <3>2. QED
      BY <3>1, SubSeqEmpty
  <2>7. SubSeq(s, 1 + 1, Len(s)) \in Seq(Handles)
    <3>1. 1 + 1 \in Int /\ Len(s) \in Int /\ \A i \in 1 + 1 .. Len(s) : s[i] \in Handles
      BY <2>1
    <3>2. QED
      BY <3>1, SubSeqProperties
  <2>8. RemoveAt(s, 1) = SubSeq(s, 1 + 1, Len(s))
    BY <2>6, <2>7, ConcatEmptySeq DEF RemoveAt
  <2>9. 1 + 1 = 2
    OBVIOUS
  <2>10. QED
    BY <2>5, <2>8, <2>9 DEF s
<1>10. /\ f = [x \in DOMAIN c |-> f[x]]
       /\ f.entries = [o \in DOMAIN c.entries \ {e} |-> c.entries[o]]
       /\ f.lru = SubSeq(c.lru, 2, Len(c.lru)) /\ f.inUse = c.inUse
       /\ f.table = [j \in DOMAIN c.table \ {k} |-> c.table[j]] /\ f.usage = c.usage - n
  <2>1. TotalCharge(c, {e}) = n
    <3>1. c.entries[e].key \in Numbers
      BY <1>2, <1>4
    <3>2. QED
      BY <3>1, ChargeOfOne DEF k
  <2>2. {c.entries[o].key : o \in {e}} = {k}
    BY DEF k
  <2>3. f = [c EXCEPT !.entries = Without(@, {e}), !.lru = SubSeq(@, 1 + 1, Len(@)),
                      !.table = Without(@, {k}), !.usage = @ - n]
    BY <1>8, <2>1, <2>2 DEF EvictOldest
  <2>4. 1 + 1 = 2
    OBVIOUS
  <2> HIDE DEF f, e, n
  <2>5. QED
    BY <1>4, <2>3, <2>4 DEF Without
<1> HIDE DEF d, f, e, n
<1>11. \A x \in DOMAIN c : d[x] = f[x]
  BY <1>4, <1>7, <1>9, <1>10
<1>12. d = f
  BY <1>7, <1>10, <1>11
<1>13. QED
  BY <1>12 DEF d, f, e, k

(* So a round that follows n rounds makes them n + 1, and to evict none is *)
(* to begin: Shrink ends the loop of Insert at the first round that finds  *)
(* usage_ within capacity_ or lru_ empty, and Prune runs it to the end.    *)
THEOREM EachRound ==
    ASSUME TableCacheAssumption, NEW c, NEW h \in Held, NEW more, Sound(c, h, {}, more),
           NEW n \in 0 .. Len(c.lru), n < Len(c.lru), NEW d, d = EvictOldest(c, n)
    PROVE  Len(d.lru) > 0 /\ Erase(d, d.entries[d.lru[1]].key) = EvictOldest(c, n + 1)
<1> DEFINE s == c.lru
           e == s[n + 1]
           gone == Oldest(c, n)
           f == EvictOldest(d, 1)
           g == EvictOldest(c, n + 1)
<1>1. Formed(c) /\ s \in Seq(Handles) /\ Len(s) \in Nat /\ n \in Nat /\ n + 1 \in 1 .. Len(s)
  BY LenProperties DEF Sound, Formed
<1>2. Sound(d, h, {}, more)
  BY EvictOldestKeeps
<1>3. /\ DOMAIN d = DOMAIN c /\ DOMAIN c = {"entries", "lru", "inUse", "table", "usage"}
      /\ d.entries = [o \in DOMAIN c.entries \ gone |-> c.entries[o]]
      /\ d.lru = SubSeq(s, n + 1, Len(s)) /\ d.inUse = c.inUse
      /\ d.table = [k \in DOMAIN c.table \ {c.entries[o].key : o \in gone} |-> c.table[k]]
      /\ d.usage = c.usage - TotalCharge(c, gone)
  BY <1>1 DEF EvictOldest, Without, Formed
<1> HIDE DEF gone, s, f, g
<1>4. Len(d.lru) = Len(s) - n /\ Len(d.lru) > 0 /\ d.lru[1] = e
  <2>1. n + 1 \in Int /\ Len(s) \in Int /\ \A i \in n + 1 .. Len(s) : s[i] \in Handles
    BY <1>1
  <2>2. /\ Len(d.lru) = (IF n + 1 <= Len(s) THEN Len(s) - (n + 1) + 1 ELSE 0)
        /\ \A i \in 1 .. Len(s) - (n + 1) + 1 : d.lru[i] = s[n + 1 + i - 1]
    BY <1>3, <2>1, SubSeqProperties
  <2>3. Len(d.lru) = Len(s) - n /\ Len(d.lru) > 0
    BY <1>1, <2>2
  <2>4. 1 \in 1 .. Len(s) - (n + 1) + 1 /\ n + 1 + 1 - 1 = n + 1
    BY <1>1
  <2>5. d.lru[1] = s[n + 1]
    BY <2>2, <2>4
  <2>6. QED
    BY <2>3, <2>5
<1>5. Erase(d, d.entries[d.lru[1]].key) = f
  BY <1>2, <1>4, FirstRound DEF f
<1>6. /\ e \in CachedIn(d) /\ e \in DOMAIN d.entries /\ e \notin gone /\ e \in DOMAIN c.entries
      /\ d.entries[e] = c.entries[e]
  <2>1. 1 \in 1 .. Len(d.lru)
    BY <1>4, LenProperties DEF Sound, Formed
  <2>2. e \in CachedIn(d) /\ e \in DOMAIN d.entries
    BY <1>2, <1>4, <2>1, OldestUnused
  <2>3. QED
    BY <1>3, <2>2
<1>7. Oldest(c, n + 1) = gone \cup {e} /\ Oldest(d, 1) = {e}
  <2>1. 1 .. n + 1 = (1 .. n) \cup {n + 1} /\ 1 .. 1 = {1}
    BY <1>1
  <2>2. QED
    BY <1>4, <2>1 DEF Oldest, gone, s
<1>8. SubSeq(d.lru, 1 + 1, Len(d.lru)) = SubSeq(s, n + 1 + 1, Len(s))
  <2>1. /\ n + 1 \in 1 .. Len(s) + 1 /\ Len(s) \in (n + 1) - 1 .. Len(s)
        /\ 1 + 1 \in 1 .. 2 + Len(s) - (n + 1)
        /\ Len(s) - n \in (1 + 1) - 1 .. 1 + Len(s) - (n + 1)
        /\ n + 1 + (1 + 1) - 1 = n + 1 + 1 /\ n + 1 + (Len(s) - n) - 1 = Len(s)
    BY <1>1
  <2>2. SubSeq(SubSeq(s, n + 1, Len(s)), 1 + 1, Len(s) - n)
            = SubSeq(s, n + 1 + (1 + 1) - 1, n + 1 + (Len(s) - n) - 1)
    BY <1>1, <2>1, SubSeqOfSubSeq
  <2>3. QED
    BY <1>3, <1>4, <2>1, <2>2
<1>9. TotalCharge(c, gone \cup {e}) = TotalCharge(c, gone) + TotalCharge(d, {e})
      /\ TotalCharge(c, gone) \in Nat /\ TotalCharge(d, {e}) \in Nat
  <2> DEFINE S == gone \cup {e}
  <2>1. IsFiniteSet(S) /\ \A o \in S : c.entries[o].key \in Numbers
    <3>1. gone \subseteq DOMAIN c.entries
      <4>1. ASSUME NEW i \in 1 .. n
            PROVE  c.lru[i] \in DOMAIN c.entries
        <5>1. i \in 1 .. Len(c.lru)
          BY <1>1 DEF s
        <5>2. QED
          BY <5>1, OldestUnused
      <4>2. QED
        BY <4>1 DEF gone, Oldest
    <3>2. S \in SUBSET DOMAIN c.entries
      BY <1>6, <3>1
    <3>3. QED
      BY <1>1, <3>2, FS_Subset DEF Formed
  <2>2. {e} \subseteq S /\ S \ {e} = gone
    BY <1>6
  <2> HIDE DEF S
  <2>3. /\ TotalCharge(c, S) \in Nat /\ TotalCharge(c, {e}) \in Nat
        /\ TotalCharge(c, S \ {e}) = TotalCharge(c, S) - TotalCharge(c, {e})
    BY <2>1, <2>2, ChargeOfRest
  <2>4. gone \subseteq S
    BY <2>2
  <2>5. TotalCharge(c, gone) \in Nat
    BY <2>1, <2>4, ChargeOfRest
  <2>6. TotalCharge(d, {e}) = TotalCharge(c, {e})
    <3>1. \A o \in {e} : d.entries[o].key = c.entries[o].key
      BY <1>6
    <3>2. QED
      BY <3>1, ChargeOfSame
  <2>7. TotalCharge(c, S) = TotalCharge(c, gone) + TotalCharge(d, {e})
    <3>1. TotalCharge(c, gone) = TotalCharge(c, S) - TotalCharge(c, {e})
      BY <2>2, <2>3, Zenon
    <3>2. QED
      BY <2>3, <2>5, <2>6, <3>1
  <2>8. QED
    BY <2>3, <2>5, <2>6, <2>7 DEF S
<1>10. c.usage \in Nat
  <2>1. CachedIn(c) \in SUBSET DOMAIN c.entries
    BY DEF CachedIn
  <2>2. IsFiniteSet(CachedIn(c)) /\ \A o \in CachedIn(c) : c.entries[o].key \in Numbers
    BY <1>1, <2>1, FS_Subset DEF Formed
  <2>3. TotalCharge(c, CachedIn(c)) \in Nat
    BY <2>2, ChargeOfRest
  <2>4. QED
    BY <2>3 DEF Sound, Charged
<1> HIDE DEF e
<1>11. /\ f = [x \in DOMAIN c |-> f[x]]
       /\ f.entries = Without(d.entries, {e}) /\ f.lru = SubSeq(d.lru, 1 + 1, Len(d.lru))
       /\ f.inUse = d.inUse /\ f.usage = d.usage - TotalCharge(d, {e})
       /\ f.table = Without(d.table, {d.entries[o].key : o \in {e}})
  <2>1. f = [d EXCEPT !.entries = Without(@, {e}), !.lru = SubSeq(@, 1 + 1, Len(@)),
                      !.table = Without(@, {d.entries[o].key : o \in {e}}),
                      !.usage = @ - TotalCharge(d, {e})]
    BY <1>7 DEF f, EvictOldest
  <2>2. QED
    BY <1>3, <2>1
<1>12. /\ g = [x \in DOMAIN c |-> g[x]]
       /\ g.entries = Without(c.entries, gone \cup {e}) /\ g.lru = SubSeq(s, n + 1 + 1, Len(s))
       /\ g.inUse = c.inUse /\ g.usage = c.usage - TotalCharge(c, gone \cup {e})
       /\ g.table = Without(c.table, {c.entries[o].key : o \in gone \cup {e}})
  <2>1. g = [c EXCEPT !.entries = Without(@, gone \cup {e}), !.lru = SubSeq(@, n + 1 + 1, Len(@)),
                      !.table = Without(@, {c.entries[o].key : o \in gone \cup {e}}),
                      !.usage = @ - TotalCharge(c, gone \cup {e})]
    BY <1>7 DEF g, EvictOldest
  <2>2. QED
    BY <1>3, <2>1 DEF s
<1>13. f.entries = g.entries
  <2>1. d.entries = [o \in DOMAIN c.entries \ gone |-> c.entries[o]]
    BY <1>3
  <2>2. f.entries = [o \in DOMAIN d.entries \ {e} |-> d.entries[o]]
        /\ g.entries = [o \in DOMAIN c.entries \ (gone \cup {e}) |-> c.entries[o]]
    BY <1>11, <1>12 DEF Without
  <2>3. QED
    BY <2>1, <2>2
<1>14. f.table = g.table
  <2> DEFINE K == {c.entries[o].key : o \in gone}
             k == c.entries[e].key
  <2>1. {d.entries[o].key : o \in {e}} = {k} /\ {c.entries[o].key : o \in gone \cup {e}} = K \cup {k}
    BY <1>6
  <2>2. d.table = [j \in DOMAIN c.table \ K |-> c.table[j]]
    BY <1>3
  <2> HIDE DEF K, k
  <2>3. f.table = [j \in DOMAIN d.table \ {k} |-> d.table[j]]
        /\ g.table = [j \in DOMAIN c.table \ (K \cup {k}) |-> c.table[j]]
    BY <1>11, <1>12, <2>1 DEF Without
  <2>4. QED
    BY <2>2, <2>3
<1>15. f.usage = g.usage
  <2>1. f.usage = (c.usage - TotalCharge(c, gone)) - TotalCharge(d, {e})
    BY <1>3, <1>11
  <2>2. g.usage = c.usage - (TotalCharge(c, gone) + TotalCharge(d, {e}))
    BY <1>9, <1>12
  <2>3. QED
    BY <1>9, <1>10, <2>1, <2>2
<1>16. \A x \in DOMAIN c : f[x] = g[x]
  BY <1>3, <1>8, <1>11, <1>12, <1>13, <1>14, <1>15
<1>17. f = g
  BY <1>11, <1>12, <1>16
<1>18. QED
  BY <1>4, <1>5, <1>17 DEF g

(* Shrink: nothing else is unused then, or no more is cached than fits.    *)
LEMMA ShrinkKeeps ==
    ASSUME TableCacheAssumption, NEW c, NEW h \in Held, NEW more, Sound(c, h, {}, more)
    PROVE  /\ Sound(Shrink(c), h, {}, more)
           /\ DOMAIN Shrink(c).entries \subseteq DOMAIN c.entries
           /\ \A o \in more : o \in DOMAIN c.entries => o \in DOMAIN Shrink(c).entries
           /\ \A o \in DOMAIN Shrink(c).entries : Shrink(c).entries[o].key = c.entries[o].key
           /\ Shrink(c).usage <= Capacity \/ \A x : ~On(Shrink(c).lru, x)
<1> DEFINE n == Min(Enough(c))
<1>1. Formed(c) /\ Listed(c) /\ Charged(c) /\ Len(c.lru) \in Nat
  BY LenProperties DEF Sound, Formed
<1>2. Len(c.lru) \in Enough(c)
  BY <1>1 DEF Enough
<1>3. Enough(c) \subseteq Nat
  BY DEF Enough
<1>4. n \in Enough(c)
  <2> HIDE DEF n
  <2> DEFINE E == Enough(c)
  <2>1. E \subseteq Nat /\ E # {} /\ n = Min(E)
    BY <1>2, <1>3 DEF n
  <2> HIDE DEF E
  <2>2. n \in E
    BY <2>1, LeastThere
  <2>3. QED
    BY <2>2 DEF E
<1>5. Shrink(c) = EvictOldest(c, n)
  BY DEF Shrink
<1> HIDE DEF n
<1>6. n \in 0 .. Len(c.lru) /\ (n = Len(c.lru) \/ c.usage <= Capacity + TotalCharge(c, Oldest(c, n)))
  BY <1>4 DEF Enough
<1>7. /\ Sound(EvictOldest(c, n), h, {}, more)
      /\ DOMAIN EvictOldest(c, n).entries \subseteq DOMAIN c.entries
      /\ \A o \in more : o \in DOMAIN c.entries => o \in DOMAIN EvictOldest(c, n).entries
      /\ \A o \in DOMAIN EvictOldest(c, n).entries :
            EvictOldest(c, n).entries[o].key = c.entries[o].key
  BY <1>6, EvictOldestKeeps
<1>8. EvictOldest(c, n).usage <= Capacity \/ \A x : ~On(EvictOldest(c, n).lru, x)
  <2>1. /\ EvictOldest(c, n).usage = c.usage - TotalCharge(c, Oldest(c, n))
        /\ n = Len(c.lru) => \A x : ~On(EvictOldest(c, n).lru, x)
    BY <1>6, EvictOldestKeeps
  <2>2. IsFiniteSet(CachedIn(c)) /\ \A o \in CachedIn(c) : c.entries[o].key \in Numbers
    <3>1. CachedIn(c) \in SUBSET DOMAIN c.entries
      BY DEF CachedIn
    <3>2. QED
      BY <1>1, <3>1, FS_Subset DEF Formed
  <2>3. Oldest(c, n) \subseteq CachedIn(c)
    <3>1. ASSUME NEW i \in 1 .. n
          PROVE  c.lru[i] \in CachedIn(c)
      <4>1. i \in 1 .. Len(c.lru)
        BY <1>1, <1>6
      <4>2. QED
        BY <1>1, <4>1 DEF On, Listed
    <3>2. QED
      BY <3>1 DEF Oldest
  <2>4. TotalCharge(c, CachedIn(c)) \in Nat /\ TotalCharge(c, Oldest(c, n)) \in Nat
    BY <2>2, <2>3, ChargeOfRest
  <2>5. c.usage \in Nat /\ Capacity \in Nat
    BY <1>1, <2>4 DEF Charged, TableCacheAssumption
  <2>6. CASE n = Len(c.lru)
    BY <2>1, <2>6
  <2>7. CASE c.usage <= Capacity + TotalCharge(c, Oldest(c, n))
    <3>1. c.usage - TotalCharge(c, Oldest(c, n)) <= Capacity
      BY <2>4, <2>5, <2>7
    <3>2. QED
      BY <2>1, <3>1
  <2>8. QED
    BY <1>6, <2>6, <2>7
<1>9. QED
  BY <1>5, <1>7, <1>8

(* What threads hold is no more than they are.                             *)
LEMMA HeldFew ==
    ASSUME TableCacheAssumption, NEW h, NEW S, \A e \in S : \E t \in Threads : h[t] = e
    PROVE  IsFiniteSet(S) /\ Cardinality(S) \in Nat /\ Cardinality(S) <= Cardinality(Threads)
<1> DEFINE T == {t \in Threads : h[t] \in S}
           f == [t \in T |-> h[t]]
<1>1. IsFiniteSet(Threads) /\ T \in SUBSET Threads
  BY DEF TableCacheAssumption
<1>2. IsFiniteSet(T) /\ Cardinality(T) \in Nat /\ Cardinality(Threads) \in Nat
      /\ Cardinality(T) <= Cardinality(Threads)
  BY <1>1, FS_Subset, FS_CardinalityType
<1>3. f \in [T -> S] /\ \A e \in S : \E t \in T : f[t] = e
  <2>1. \A e \in S : \E t \in T : h[t] = e
    OBVIOUS
  <2>2. QED
    BY <2>1
<1> HIDE DEF f, T
<1>4. f \in Surjection(T, S)
  BY <1>3 DEF Surjection
<1>5. IsFiniteSet(S) /\ Cardinality(S) <= Cardinality(T)
  BY <1>2, <1>4, FS_Surjection
<1>6. Cardinality(S) \in Nat
  BY <1>5, FS_CardinalityType
<1>7. QED
  BY <1>2, <1>5, <1>6

(* What is open and not cached is held.                                    *)
LEMMA OthersHeld ==
    ASSUME TableCacheAssumption, NEW c, NEW h, Counted(c, h, {}), NEW e \in DOMAIN c.entries,
           c.entries[e].refs # 1 \/ e \notin CachedIn(c)
    PROVE  \E t \in Threads : h[t] = e
<1>1. /\ c.entries[e].refs # 0
      /\ c.entries[e].refs = Cardinality(Holders(h, e)) + (IF e \in CachedIn(c) THEN 1 ELSE 0) + 0
  BY DEF Counted
<1>2. Cardinality(Holders(h, e)) \in Nat
  BY HoldersFinite
<1>3. Cardinality(Holders(h, e)) # 0
  BY <1>1, <1>2
<1>4. Holders(h, e) # {}
  BY <1>3, HoldersFinite
<1>5. QED
  BY <1>4 DEF Holders

(* There is a name for one more entry.                                     *)
LEMMA FreeThere ==
    ASSUME TableCacheAssumption, NEW c, NEW h \in Held, Sound(c, h, {}, {})
    PROVE  Free(c) \in Handles /\ Free(c) \notin DOMAIN c.entries
<1> DEFINE A == CachedIn(c)
           B == DOMAIN c.entries \ CachedIn(c)
           f == [e \in A |-> c.entries[e].key]
<1>1. Formed(c) /\ Tabled(c, {}) /\ Counted(c, h, {})
  BY DEF Sound
<1>2. A \in SUBSET DOMAIN c.entries /\ B \in SUBSET DOMAIN c.entries
      /\ A \cup B = DOMAIN c.entries /\ A \cap B = {}
  BY DEF CachedIn
<1>3. IsFiniteSet(A) /\ IsFiniteSet(B) /\ IsFiniteSet(Numbers) /\ IsFiniteSet(Threads)
  BY <1>1, <1>2, FS_Subset DEF Formed, TableCacheAssumption
<1>4. f \in Injection(A, Numbers)
  <2>1. \A e \in A : c.entries[e].key \in Numbers
    BY <1>1, <1>2 DEF Formed
  <2>2. \A e \in A : c.table[c.entries[e].key] = e
    BY <1>1 DEF Tabled
  <2>3. f \in [A -> Numbers] /\ \A x, y \in DOMAIN f : f[x] = f[y] => x = y
    BY <2>1, <2>2
  <2> HIDE DEF f, A
  <2>4. QED
    BY <2>3 DEF Injection, IsInjective
<1>5. \A e \in B : \E t \in Threads : h[t] = e
  BY <1>1, OthersHeld
<1> HIDE DEF f, A, B
<1>6. Cardinality(A) <= Cardinality(Numbers) /\ Cardinality(B) <= Cardinality(Threads)
  BY <1>3, <1>4, <1>5, FS_Injection, HeldFew
<1>7. /\ Cardinality(A) \in Nat /\ Cardinality(B) \in Nat
      /\ Cardinality(Numbers) \in Nat /\ Cardinality(Threads) \in Nat
  BY <1>3, FS_CardinalityType
<1>8. Cardinality(DOMAIN c.entries) = Cardinality(A) + Cardinality(B)
  <2>1. Cardinality(A \cup B) = Cardinality(A) + Cardinality(B) - Cardinality(A \cap B)
    BY <1>3, FS_Union
  <2>2. Cardinality(A \cap B) = 0
    BY <1>2, FS_EmptySet
  <2> DEFINE n == Cardinality(A)
             m == Cardinality(B)
             i == Cardinality(A \cap B)
             u == Cardinality(DOMAIN c.entries)
  <2>3. u = n + m - i
    BY <1>2, <2>1
  <2>4. i = 0 /\ n \in Nat /\ m \in Nat
    BY <1>7, <2>2
  <2> HIDE DEF n, m, i, u
  <2>5. u = n + m
    BY <2>3, <2>4
  <2>6. QED
    BY <2>5 DEF n, m, u
<1>9. ~(Handles \subseteq DOMAIN c.entries)
  <2>1. ASSUME Handles \subseteq DOMAIN c.entries
        PROVE  FALSE
    <3>1. Handles = DOMAIN c.entries
      BY <1>1, <2>1 DEF Formed
    <3>2. Cardinality(Handles) > Cardinality(Numbers) + Cardinality(Threads)
      BY DEF TableCacheAssumption
    <3>3. Cardinality(Handles) <= Cardinality(Numbers) + Cardinality(Threads)
      BY <1>6, <1>7, <1>8, <3>1
    <3>4. Cardinality(Handles) \in Nat
      BY <1>7, <1>8, <3>1
    <3>5. QED
      BY <1>7, <3>2, <3>3, <3>4
  <2>2. QED
    BY <2>1
<1>10. QED
  BY <1>9 DEF Free

\* What Insert has made of c before it evicts.
Alone(c, k, e) == [c EXCEPT !.entries = With(@, e, [key |-> k, refs |-> 1, inCache |-> FALSE])]
Inserted(c, k, e) ==
    [c EXCEPT !.entries = With(@, e, [key |-> k, refs |-> 2, inCache |-> TRUE]),
              !.inUse = @ \cup {e}, !.usage = @ + Charge[k], !.table = With(@, k, e)]
Replaced(c, k) == {c.table[j] : j \in DOMAIN c.table \cap {k}}

(* A table whose entry is not to be cached is open for the caller alone.   *)
LEMMA AloneKeeps ==
    ASSUME TableCacheAssumption, NEW c, NEW h \in Held, Sound(c, h, {}, {}), NEW k \in Numbers,
           NEW e \in Handles, e \notin DOMAIN c.entries,
           NEW d, d = Alone(c, k, e)
    PROVE  /\ Sound(d, h, {}, {e})
           /\ DOMAIN d.entries = DOMAIN c.entries \cup {e} /\ d.entries[e].key = k
           /\ \A o \in DOMAIN c.entries : d.entries[o] = c.entries[o]
<1> DEFINE r == [key |-> k, refs |-> 1, inCache |-> FALSE]
<1>1. Formed(c) /\ Listed(c) /\ Tabled(c, {}) /\ Counted(c, h, {}) /\ Charged(c)
  BY DEF Sound
<1>2. /\ DOMAIN d = DOMAIN c
      /\ d.entries = [o \in DOMAIN c.entries \cup {e} |-> IF o = e THEN r ELSE c.entries[o]]
      /\ d.lru = c.lru /\ d.inUse = c.inUse /\ d.table = c.table /\ d.usage = c.usage
  BY <1>1 DEF With, Formed, Alone
<1>3. r \in [key : Numbers, refs : Nat, inCache : BOOLEAN]
      /\ r.key = k /\ r.refs = 1 /\ ~r.inCache
  OBVIOUS
<1> HIDE DEF r
<1>4. /\ DOMAIN d.entries = DOMAIN c.entries \cup {e} /\ d.entries[e] = r
      /\ \A o \in DOMAIN c.entries : d.entries[o] = c.entries[o]
  BY <1>2
<1>5. CachedIn(d) = CachedIn(c)
  BY <1>3, <1>4 DEF CachedIn
<1>6. \A o \in CachedIn(c) : o \in DOMAIN c.entries /\ d.entries[o] = c.entries[o]
  BY <1>4 DEF CachedIn
<1>7. Formed(d)
  <2>1. d.entries \in [DOMAIN d.entries -> [key : Numbers, refs : Nat, inCache : BOOLEAN]]
    <3>1. d.entries = [o \in DOMAIN d.entries |-> d.entries[o]]
      BY <1>2
    <3>2. \A o \in DOMAIN d.entries : d.entries[o] \in [key : Numbers, refs : Nat, inCache : BOOLEAN]
      BY <1>1, <1>3, <1>4 DEF Formed
    <3>3. QED
      BY <3>1, <3>2
  <2>2. IsFiniteSet(DOMAIN d.entries)
    BY <1>1, <1>4, FS_AddElement DEF Formed
  <2>3. QED
    BY <1>1, <1>2, <1>4, <2>1, <2>2 DEF Formed
<1>8. Listed(d)
  <2>1. d.lru = c.lru /\ d.inUse = c.inUse /\ CachedIn(d) = CachedIn(c)
    BY <1>2, <1>5
  <2>2. \A o \in CachedIn(c) : d.entries[o] = c.entries[o]
    BY <1>6
  <2>3. \A x : On(d.lru, x) <=> x \in CachedIn(d) /\ d.entries[x].refs = 1
    BY <1>1, <2>1, <2>2 DEF Listed
  <2>4. d.inUse = {o \in CachedIn(d) : d.entries[o].refs > 1}
    BY <1>1, <2>1, <2>2 DEF Listed
  <2>5. QED
    BY <2>3, <2>4 DEF Listed
<1>9. Tabled(d, {})
  <2>1. \A o \in CachedIn(c) : d.entries[o].key = c.entries[o].key
    BY <1>6
  <2>2. d.table = c.table
    BY <1>2
  <2>3. QED
    BY <1>1, <1>5, <2>1, <2>2, SameTable
<1>10. Counted(d, h, {e})
  <2>1. ASSUME NEW o \in DOMAIN d.entries
        PROVE  /\ d.entries[o].refs # 0
               /\ d.entries[o].refs = Cardinality(Holders(h, o)) + (IF o \in CachedIn(d) THEN 1 ELSE 0)
                                        + (IF o \in {e} THEN 1 ELSE 0)
    <3>1. Cardinality(Holders(h, o)) \in Nat
      BY HoldersFinite
    <3>2. CASE o = e
      <4>1. e # None
        BY DEF TableCacheAssumption
      <4>2. Holders(h, e) = {}
        BY <1>1, <4>1 DEF Counted, Holders
      <4>3. Cardinality(Holders(h, o)) = 0
        BY <3>2, <4>2, HoldersFinite
      <4>4. e \notin CachedIn(d)
        BY <1>5 DEF CachedIn
      <4>5. QED
        BY <1>3, <1>4, <3>2, <4>3, <4>4
    <3>3. CASE o # e
      <4>1. /\ c.entries[o].refs # 0
            /\ c.entries[o].refs = Cardinality(Holders(h, o)) + (IF o \in CachedIn(c) THEN 1 ELSE 0) + 0
        BY <1>1, <1>4, <3>3 DEF Counted
      <4>2. QED
        BY <1>4, <1>5, <3>1, <3>3, <4>1
    <3>4. QED
      BY <3>2, <3>3
  <2>2. QED
    BY <1>1, <1>4, <2>1 DEF Counted
<1>11. Charged(d)
  <2>1. TotalCharge(d, CachedIn(d)) = TotalCharge(c, CachedIn(c))
    <3>1. \A o \in CachedIn(c) : c.entries[o].key = d.entries[o].key
      BY <1>6
    <3>2. QED
      BY <1>5, <3>1, ChargeOfSame
  <2>2. QED
    BY <1>1, <1>2, <2>1 DEF Charged
<1>12. QED
  BY <1>3, <1>4, <1>7, <1>8, <1>9, <1>10, <1>11 DEF Sound

(* One that is to be cached is in use, in the table and in the usage; the  *)
(* entry of the same table that was there is no longer in the table.       *)
LEMMA AddedKeeps ==
    ASSUME TableCacheAssumption, NEW c, NEW h \in Held, Sound(c, h, {}, {}), NEW k \in Numbers,
           NEW e \in Handles, e \notin DOMAIN c.entries,
           NEW d, d = Inserted(c, k, e)
    PROVE  /\ Sound(d, h, Replaced(c, k), {e}) /\ Replaced(c, k) \subseteq CachedIn(d)
           /\ DOMAIN d.entries = DOMAIN c.entries \cup {e} /\ d.entries[e].key = k
           /\ \A o \in DOMAIN c.entries : d.entries[o] = c.entries[o]
<1> DEFINE x == Replaced(c, k)
           r == [key |-> k, refs |-> 2, inCache |-> TRUE]
<1>1. Formed(c) /\ Listed(c) /\ Tabled(c, {}) /\ Counted(c, h, {}) /\ Charged(c)
  BY DEF Sound
<1>2. /\ DOMAIN d = DOMAIN c
      /\ d.entries = [o \in DOMAIN c.entries \cup {e} |-> IF o = e THEN r ELSE c.entries[o]]
      /\ d.lru = c.lru /\ d.inUse = c.inUse \cup {e} /\ d.usage = c.usage + Charge[k]
      /\ d.table = [j \in DOMAIN c.table \cup {k} |-> IF j = k THEN e ELSE c.table[j]]
  BY <1>1 DEF With, Formed, Inserted
<1>3. r \in [key : Numbers, refs : Nat, inCache : BOOLEAN]
      /\ r.key = k /\ r.refs = 2 /\ r.inCache
  OBVIOUS
<1> HIDE DEF r, x
<1>4. /\ DOMAIN d.entries = DOMAIN c.entries \cup {e} /\ d.entries[e] = r
      /\ \A o \in DOMAIN c.entries : d.entries[o] = c.entries[o]
  BY <1>2
<1>5. CachedIn(d) = CachedIn(c) \cup {e} /\ e \notin CachedIn(c)
  <2>1. e \notin CachedIn(c)
    BY DEF CachedIn
  <2>2. ASSUME NEW o
        PROVE  o \in CachedIn(d) <=> o \in CachedIn(c) \/ o = e
    <3>1. CASE o = e
      BY <1>3, <1>4, <3>1 DEF CachedIn
    <3>2. CASE o # e
      BY <1>4, <3>2 DEF CachedIn
    <3>3. QED
      BY <3>1, <3>2
  <2>3. QED
    BY <2>1, <2>2
<1>6. \A o \in CachedIn(c) : o # e /\ o \in DOMAIN c.entries /\ d.entries[o] = c.entries[o]
  BY <1>4 DEF CachedIn
<1>7. Formed(d)
  <2>1. d.entries \in [DOMAIN d.entries -> [key : Numbers, refs : Nat, inCache : BOOLEAN]]
    <3>1. d.entries = [o \in DOMAIN d.entries |-> d.entries[o]]
      BY <1>2
    <3>2. \A o \in DOMAIN d.entries : d.entries[o] \in [key : Numbers, refs : Nat, inCache : BOOLEAN]
      BY <1>1, <1>3, <1>4 DEF Formed
    <3>3. QED
      BY <3>1, <3>2
  <2>2. IsFiniteSet(DOMAIN d.entries)
    BY <1>1, <1>4, FS_AddElement DEF Formed
  <2>3. QED
    BY <1>1, <1>2, <1>4, <2>1, <2>2 DEF Formed
<1>8. Listed(d)
  <2>1. ASSUME NEW o
        PROVE  /\ On(d.lru, o) <=> o \in CachedIn(d) /\ d.entries[o].refs = 1
               /\ o \in d.inUse <=> o \in CachedIn(d) /\ d.entries[o].refs > 1
    <3>1. /\ On(d.lru, o) <=> o \in CachedIn(c) /\ c.entries[o].refs = 1
          /\ o \in d.inUse <=> (o \in CachedIn(c) /\ c.entries[o].refs > 1) \/ o = e
      BY <1>1, <1>2 DEF Listed
    <3>2. CASE o = e
      <4>1. d.entries[o].refs = 2 /\ o \in CachedIn(d) /\ o \notin CachedIn(c)
        BY <1>3, <1>4, <1>5, <3>2
      <4>2. QED
        BY <3>1, <3>2, <4>1
    <3>3. CASE o # e
      <4>1. o \in CachedIn(d) <=> o \in CachedIn(c)
        BY <1>5, <3>3
      <4>2. o \in CachedIn(c) => d.entries[o] = c.entries[o]
        BY <1>6
      <4>3. QED
        BY <3>1, <3>3, <4>1, <4>2
    <3>4. QED
      BY <3>2, <3>3
  <2>2. d.inUse = {o \in CachedIn(d) : d.entries[o].refs > 1}
    BY <2>1
  <2>3. QED
    BY <2>1, <2>2 DEF Listed
<1>14. x = {c.table[j] : j \in DOMAIN c.table \cap {k}}
  BY DEF x, Replaced
<1>9. x \subseteq CachedIn(c)
  BY <1>1, <1>14 DEF Tabled
<1>10. Tabled(d, x)
  <2>1. ASSUME NEW j \in DOMAIN d.table
        PROVE  d.table[j] \in CachedIn(d) \ x /\ d.entries[d.table[j]].key = j
    <3>1. CASE j = k
      BY <1>2, <1>3, <1>4, <1>5, <1>9, <3>1
    <3>2. CASE j # k
      <4>1. j \in DOMAIN c.table /\ d.table[j] = c.table[j]
        BY <1>2, <3>2
      <4>2. c.table[j] \in CachedIn(c) /\ c.entries[c.table[j]].key = j
        BY <1>1, <4>1 DEF Tabled
      <4>3. c.table[j] \notin x
        BY <1>1, <1>14, <3>2, <4>2 DEF Tabled
      <4>4. QED
        BY <1>5, <1>6, <4>1, <4>2, <4>3
    <3>3. QED
      BY <3>1, <3>2
  <2>2. ASSUME NEW o \in CachedIn(d) \ x
        PROVE  d.entries[o].key \in DOMAIN d.table /\ d.table[d.entries[o].key] = o
    <3>1. CASE o = e
      BY <1>2, <1>3, <1>4, <3>1
    <3>2. CASE o # e
      <4>1. o \in CachedIn(c) /\ d.entries[o] = c.entries[o]
        BY <1>5, <1>6, <3>2
      <4>2. c.entries[o].key \in DOMAIN c.table /\ c.table[c.entries[o].key] = o
        BY <1>1, <4>1 DEF Tabled
      <4>3. c.entries[o].key # k
        BY <1>14, <2>2, <4>2
      <4>4. QED
        BY <1>2, <4>1, <4>2, <4>3
    <3>3. QED
      BY <3>1, <3>2
  <2>3. QED
    BY <2>1, <2>2 DEF Tabled
<1>11. Counted(d, h, {e})
  <2>1. ASSUME NEW o \in DOMAIN d.entries
        PROVE  /\ d.entries[o].refs # 0
               /\ d.entries[o].refs = Cardinality(Holders(h, o)) + (IF o \in CachedIn(d) THEN 1 ELSE 0)
                                        + (IF o \in {e} THEN 1 ELSE 0)
    <3>1. Cardinality(Holders(h, o)) \in Nat
      BY HoldersFinite
    <3>2. CASE o = e
      <4>1. e # None
        BY DEF TableCacheAssumption
      <4>2. Holders(h, e) = {}
        BY <1>1, <4>1 DEF Counted, Holders
      <4>3. Cardinality(Holders(h, o)) = 0
        BY <3>2, <4>2, HoldersFinite
      <4>4. QED
        BY <1>3, <1>4, <1>5, <3>2, <4>3
    <3>3. CASE o # e
      <4>1. /\ c.entries[o].refs # 0
            /\ c.entries[o].refs = Cardinality(Holders(h, o)) + (IF o \in CachedIn(c) THEN 1 ELSE 0) + 0
        BY <1>1, <1>4, <3>3 DEF Counted
      <4>2. QED
        BY <1>4, <1>5, <3>1, <3>3, <4>1
    <3>4. QED
      BY <3>2, <3>3
  <2>2. QED
    BY <1>1, <1>4, <2>1 DEF Counted
<1>12. Charged(d)
  <2> DEFINE S == CachedIn(d)
  <2>1. IsFiniteSet(S) /\ \A o \in S : d.entries[o].key \in Numbers
    <3>1. S \in SUBSET DOMAIN d.entries
      BY DEF CachedIn
    <3>2. QED
      BY <1>7, <3>1, FS_Subset DEF Formed
  <2>2. {e} \subseteq S /\ S \ {e} = CachedIn(c)
    BY <1>5
  <2>3. TotalCharge(c, CachedIn(c)) = TotalCharge(d, CachedIn(c))
    <3>1. \A o \in CachedIn(c) : c.entries[o].key = d.entries[o].key
      BY <1>6
    <3>2. QED
      BY <3>1, ChargeOfSame
  <2> HIDE DEF S
  <2>4. TotalCharge(d, S) \in Nat /\ TotalCharge(d, S \ {e}) = TotalCharge(d, S) - TotalCharge(d, {e})
    BY <2>1, <2>2, ChargeOfRest
  <2>5. TotalCharge(d, {e}) = Charge[k] /\ Charge[k] \in Nat
    <3>1. d.entries[e].key = k
      BY <1>3, <1>4
    <3>2. QED
      BY <3>1, ChargeOfOne
  <2>6. c.usage = TotalCharge(d, S \ {e})
    BY <1>1, <2>2, <2>3 DEF Charged
  <2>7. c.usage + Charge[k] = TotalCharge(d, S)
    BY <2>4, <2>5, <2>6
  <2>8. QED
    BY <1>2, <2>7 DEF S, Charged
<1>13. QED
  BY <1>3, <1>4, <1>5, <1>7, <1>8, <1>9, <1>10, <1>11, <1>12 DEF Sound, x

\* Of the entries of c and the new e, those in b are what they were.
Extended(c, b, k, e) ==
    /\ e \in DOMAIN b.entries /\ b.entries[e].key = k
    /\ DOMAIN b.entries \subseteq DOMAIN c.entries \cup {e}
    /\ \A o \in DOMAIN b.entries : o # e => b.entries[o].key = c.entries[o].key

(* Insert: what the caller then takes is there, and either it fits or      *)
(* nothing else is unused.                                                 *)
LEMMA InsertKeeps ==
    ASSUME TableCacheAssumption, NEW c, NEW h \in Held, Sound(c, h, {}, {}), NEW k \in Numbers,
           NEW e, e = Free(c), NEW d, d = CacheInsert(c, k)
    PROVE  /\ e \in Handles /\ e \notin DOMAIN c.entries
           /\ Sound(d, h, {}, {e})
           /\ Extended(c, d, k, e)
           /\ d.usage <= Capacity \/ \A x : ~On(d.lru, x)
<1>1. e \in Handles /\ e \notin DOMAIN c.entries
  BY FreeThere
<1>2. ASSUME NEW b, Sound(b, h, {}, {e}), Extended(c, b, k, e), d = Shrink(b)
      PROVE  /\ Sound(d, h, {}, {e}) /\ Extended(c, d, k, e)
             /\ d.usage <= Capacity \/ \A x : ~On(d.lru, x)
  <2>1. /\ Sound(d, h, {}, {e}) /\ DOMAIN d.entries \subseteq DOMAIN b.entries
        /\ \A o \in {e} : o \in DOMAIN b.entries => o \in DOMAIN d.entries
        /\ \A o \in DOMAIN d.entries : d.entries[o].key = b.entries[o].key
        /\ d.usage <= Capacity \/ \A x : ~On(d.lru, x)
    BY <1>2, ShrinkKeeps
  <2>2. Extended(c, d, k, e)
    BY <1>2, <2>1 DEF Extended
  <2>3. QED
    BY <2>1, <2>2
<1>3. /\ Sound(Inserted(c, k, e), h, Replaced(c, k), {e})
      /\ Replaced(c, k) \subseteq CachedIn(Inserted(c, k, e))
      /\ DOMAIN Inserted(c, k, e).entries = DOMAIN c.entries \cup {e}
      /\ Inserted(c, k, e).entries[e].key = k
      /\ \A o \in DOMAIN c.entries : Inserted(c, k, e).entries[o] = c.entries[o]
  <2> DEFINE a == Inserted(c, k, e)
  <2>1. a = Inserted(c, k, e)
    OBVIOUS
  <2> HIDE DEF a
  <2>2. /\ Sound(a, h, Replaced(c, k), {e}) /\ Replaced(c, k) \subseteq CachedIn(a)
        /\ DOMAIN a.entries = DOMAIN c.entries \cup {e} /\ a.entries[e].key = k
        /\ \A o \in DOMAIN c.entries : a.entries[o] = c.entries[o]
    BY <1>1, <2>1, AddedKeeps
  <2>3. QED
    BY <2>1, <2>2
<1>4. CASE Capacity = 0
  <2> DEFINE b == Alone(c, k, e)
  <2>1. d = Shrink(b)
    BY <1>4 DEF CacheInsert, Alone
  <2>2. b = Alone(c, k, e)
    OBVIOUS
  <2> HIDE DEF b
  <2>3. /\ Sound(b, h, {}, {e})
        /\ DOMAIN b.entries = DOMAIN c.entries \cup {e} /\ b.entries[e].key = k
        /\ \A o \in DOMAIN c.entries : b.entries[o] = c.entries[o]
    BY <1>1, <2>2, AloneKeeps
  <2>4. Extended(c, b, k, e)
    BY <2>3 DEF Extended
  <2>5. QED
    BY <1>1, <1>2, <2>1, <2>3, <2>4
<1>5. CASE Capacity # 0 /\ k \notin DOMAIN c.table
  <2> DEFINE b == Inserted(c, k, e)
  <2>1. d = Shrink(b)
    BY <1>5 DEF CacheInsert, Inserted
  <2>20. b = Inserted(c, k, e)
    OBVIOUS
  <2>2. Replaced(c, k) = {}
    BY <1>5 DEF Replaced
  <2> HIDE DEF b
  <2>3. /\ Sound(b, h, Replaced(c, k), {e})
        /\ DOMAIN b.entries = DOMAIN c.entries \cup {e} /\ b.entries[e].key = k
        /\ \A o \in DOMAIN c.entries : b.entries[o] = c.entries[o]
    BY <1>3, <2>20
  <2>4. Sound(b, h, {}, {e})
    BY <2>2, <2>3
  <2>5. Extended(c, b, k, e)
    BY <2>3 DEF Extended
  <2>6. QED
    BY <1>1, <1>2, <2>1, <2>4, <2>5
<1>6. CASE Capacity # 0 /\ k \in DOMAIN c.table
  <2> DEFINE a == Inserted(c, k, e)
             old == c.table[k]
             b == FinishErase(a, old)
  <2>1. d = Shrink(b)
    BY <1>6 DEF CacheInsert, Inserted
  <2>20. a = Inserted(c, k, e)
    OBVIOUS
  <2>2. Replaced(c, k) = {old}
    BY <1>6 DEF Replaced
  <2>3. b = FinishErase(a, old)
    OBVIOUS
  <2>4. old \in DOMAIN c.entries /\ old # e
    <3>1. old \in CachedIn(c)
      BY <1>6 DEF Sound, Tabled
    <3>2. QED
      BY <1>1, <3>1 DEF CachedIn
  <2> HIDE DEF a, b, old
  <2>5. /\ Sound(a, h, Replaced(c, k), {e}) /\ Replaced(c, k) \subseteq CachedIn(a)
        /\ DOMAIN a.entries = DOMAIN c.entries \cup {e} /\ a.entries[e].key = k
        /\ \A o \in DOMAIN c.entries : a.entries[o] = c.entries[o]
    BY <1>3, <2>20
  <2>6. old \in CachedIn(a) /\ old \notin {e}
    BY <2>2, <2>4, <2>5
  <2>14. Sound(a, h, {old}, {e})
    BY <2>2, <2>5
  <2>7. /\ Sound(b, h, {}, {e})
        /\ DOMAIN a.entries \ {old} \subseteq DOMAIN b.entries
        /\ DOMAIN b.entries \subseteq DOMAIN a.entries
        /\ \A o \in DOMAIN b.entries : b.entries[o].key = a.entries[o].key
    BY <2>3, <2>6, <2>14, FinishEraseKeeps
  <2>8. e \in DOMAIN b.entries /\ b.entries[e].key = k
    BY <2>4, <2>5, <2>7
  <2>9. DOMAIN b.entries \subseteq DOMAIN c.entries \cup {e}
    BY <2>5, <2>7
  <2>10. \A o \in DOMAIN b.entries : o # e => b.entries[o].key = c.entries[o].key
    BY <2>5, <2>7, <2>9
  <2>11. Extended(c, b, k, e)
    BY <2>8, <2>9, <2>10 DEF Extended
  <2>12. Sound(b, h, {}, {e})
    BY <2>7
  <2>13. QED
    BY <1>1, <1>2, <2>1, <2>11, <2>12
<1>7. QED
  BY <1>1, <1>4, <1>5, <1>6

(* As many are open as the capacity and the users allow for, if no more is *)
(* cached than fits or all that is cached is used.                         *)
LEMMA BoundThen ==
    ASSUME TableCacheAssumption, NEW c, NEW h, Sound(c, h, {}, {}),
           c.usage <= Capacity \/ \A x : ~On(c.lru, x)
    PROVE  Cardinality(DOMAIN c.entries) <= Capacity + Cardinality(Threads)
<1>1. Formed(c) /\ Listed(c) /\ Counted(c, h, {}) /\ Charged(c)
  BY DEF Sound
<1>2. IsFiniteSet(Threads) /\ Cardinality(Threads) \in Nat /\ Capacity \in Nat
  BY FS_CardinalityType DEF TableCacheAssumption
<1>3. CASE \A x : ~On(c.lru, x)
  <2>1. \A e \in DOMAIN c.entries : c.entries[e].refs # 1 \/ e \notin CachedIn(c)
    BY <1>1, <1>3 DEF Listed
  <2>2. \A e \in DOMAIN c.entries : \E t \in Threads : h[t] = e
    BY <1>1, <2>1, OthersHeld
  <2> DEFINE S == DOMAIN c.entries
  <2>3. \A e \in S : \E t \in Threads : h[t] = e
    BY <2>2
  <2> HIDE DEF S
  <2>4. Cardinality(S) \in Nat /\ Cardinality(S) <= Cardinality(Threads)
    BY <2>3, HeldFew
  <2>5. Cardinality(S) <= Capacity + Cardinality(Threads)
    BY <1>2, <2>4
  <2>6. QED
    BY <2>5 DEF S
<1>4. CASE c.usage <= Capacity
  <2> DEFINE A == CachedIn(c)
             B == DOMAIN c.entries \ CachedIn(c)
  <2>1. A \in SUBSET DOMAIN c.entries /\ A \cup B = DOMAIN c.entries /\ A \cap B = {}
    BY DEF CachedIn
  <2>2. \A e \in B : \E t \in Threads : h[t] = e
    BY <1>1, OthersHeld
  <2>3. \A e \in A : c.entries[e].key \in Numbers
    BY <1>1, <2>1 DEF Formed
  <2>4. c.usage = TotalCharge(c, A)
    BY <1>1 DEF Charged
  <2> HIDE DEF A, B
  <2>5. IsFiniteSet(A)
    BY <1>1, <2>1, FS_Subset DEF Formed
  <2>6. Cardinality(A) \in Nat
    BY <2>5, FS_CardinalityType
  <2>7. Cardinality(A) <= TotalCharge(c, A) /\ TotalCharge(c, A) \in Nat
    BY <2>3, <2>5, ChargeOfAll, ChargeOfRest
  <2>8. IsFiniteSet(B) /\ Cardinality(B) \in Nat /\ Cardinality(B) <= Cardinality(Threads)
    BY <2>2, HeldFew
  <2>9. Cardinality(A \cup B) = Cardinality(A) + Cardinality(B) - Cardinality(A \cap B)
    BY <2>5, <2>8, FS_Union
  <2>10. Cardinality(A \cap B) = 0
    BY <2>1, FS_EmptySet
  <2>11. Cardinality(A) + Cardinality(B) <= Capacity + Cardinality(Threads)
    BY <1>2, <1>4, <2>4, <2>6, <2>7, <2>8
  <2>12. Cardinality(A \cup B) <= Capacity + Cardinality(Threads)
    BY <2>6, <2>8, <2>9, <2>10, <2>11
  <2>13. QED
    BY <2>1, <2>12
<1>5. QED
  BY <1>3, <1>4

(* A list without duplicates is as long as the set of what is on it.       *)
LEMMA ListLength ==
    ASSUME NEW S, NEW s \in Seq(S), Distinct(s)
    PROVE  Len(s) = Cardinality(ToSet(s)) /\ \A x : x \in ToSet(s) <=> On(s, x)
<1> DEFINE T == ToSet(s)
           n == Len(s)
<1>1. n \in Nat /\ DOMAIN s = 1 .. n /\ s = [i \in 1 .. n |-> s[i]]
  BY LenProperties
<1>2. \A x : x \in T <=> On(s, x)
  BY <1>1 DEF ToSet, On
<1>3. s \in [1 .. n -> T] /\ \A x \in T : \E i \in 1 .. n : s[i] = x
  BY <1>1, <1>2 DEF On
<1>4. \A i, j \in 1 .. n : s[i] = s[j] => i = j
  BY DEF Distinct
<1> HIDE DEF T, n
<1>5. s \in Surjection(1 .. n, T)
  BY <1>3 DEF Surjection
<1>6. s \in Injection(1 .. n, T)
  BY <1>1, <1>3, <1>4 DEF Injection, IsInjective
<1>7. IsFiniteSet(1 .. n) /\ Cardinality(1 .. n) = n
  <2>1. 1 \in Int /\ n \in Int
    BY <1>1
  <2>2. IsFiniteSet(1 .. n) /\ Cardinality(1 .. n) = IF 1 > n THEN 0 ELSE n - 1 + 1
    BY <2>1, FS_Interval
  <2>3. QED
    BY <1>1, <2>2
<1>8. Cardinality(T) = Cardinality(1 .. n)
  BY <1>5, <1>6, <1>7, FS_Surjection
<1>9. QED
  BY <1>2, <1>7, <1>8 DEF T, n

-----------------------------------------------------------------------------
(* The steps.                                                              *)

CacheInv ==
    /\ opening \in [Threads -> Numbers \cup {None}] /\ wanted \in [Threads -> Numbers \cup {None}]
    /\ holds \in Held
    /\ \A t \in Threads : opening[t] # None => holds[t] = None /\ wanted[t] = opening[t]
    /\ \A t \in Threads : holds[t] # None => cache.entries[holds[t]].key = wanted[t]
    /\ Sound(cache, holds, {}, {})
    /\ OpenBounded

(* The invariant says all of it.                                           *)
LEMMA InvSaysAll ==
    ASSUME TableCacheAssumption, CacheInv
    PROVE  CacheTrue
<1> DEFINE c == cache
<1>1. Formed(c) /\ Listed(c) /\ Tabled(c, {}) /\ Counted(c, holds, {}) /\ Charged(c)
  BY DEF CacheInv, Sound
<1>2. Cached = CachedIn(c) /\ Live = DOMAIN c.entries
  BY DEF Cached, CachedIn, Live
<1>3. \A e : Users(e) = Holders(holds, e)
  BY DEF Users, Holders
<1>4. c.usage \in Nat
  <2>1. CachedIn(c) \in SUBSET DOMAIN c.entries
    BY DEF CachedIn
  <2>2. IsFiniteSet(CachedIn(c)) /\ \A o \in CachedIn(c) : c.entries[o].key \in Numbers
    BY <1>1, <2>1, FS_Subset DEF Formed
  <2>3. TotalCharge(c, CachedIn(c)) \in Nat
    BY <2>2, ChargeOfRest
  <2>4. QED
    BY <1>1, <2>3 DEF Charged
<1>5. ASSUME NEW e \in DOMAIN c.entries
      PROVE  /\ c.entries[e].key \in Numbers
             /\ c.entries[e].refs \in 1 .. Cardinality(Threads) + 1
             /\ c.entries[e].refs = Cardinality(Users(e)) + (IF e \in Cached THEN 1 ELSE 0)
  <2>1. /\ c.entries[e].refs # 0
        /\ c.entries[e].refs = Cardinality(Holders(holds, e)) + (IF e \in CachedIn(c) THEN 1 ELSE 0) + 0
    BY <1>1 DEF Counted
  <2>2. Cardinality(Holders(holds, e)) \in Nat /\ Cardinality(Holders(holds, e)) <= Cardinality(Threads)
    BY HoldersFinite
  <2>3. Cardinality(Threads) \in Nat
    BY FS_CardinalityType DEF TableCacheAssumption
  <2>4. c.entries[e].refs \in 1 .. Cardinality(Threads) + 1
    BY <2>1, <2>2, <2>3
  <2>5. c.entries[e].key \in Numbers
    BY <1>1 DEF Formed
  <2>6. c.entries[e].refs = Cardinality(Holders(holds, e)) + (IF e \in CachedIn(c) THEN 1 ELSE 0)
    BY <2>1, <2>2
  <2>7. QED
    BY <1>2, <1>3, <2>4, <2>5, <2>6
<1>6. CacheTypeOK
  BY <1>1, <1>2, <1>4, <1>5 DEF CacheTypeOK, CacheInv, Formed, Held
<1>7. HeldIsOpen
  BY <1>1, <1>2, <1>5 DEF HeldIsOpen, CacheInv, Counted
<1>8. ListsAgree
  <2>1. Len(c.lru) = Cardinality(ToSet(c.lru)) /\ \A x : x \in ToSet(c.lru) <=> On(c.lru, x)
    BY <1>1, ListLength DEF Formed
  <2>2. ToSet(c.lru) = {e \in CachedIn(c) : c.entries[e].refs = 1}
    BY <1>1, <2>1 DEF Listed
  <2>3. c.inUse = {e \in CachedIn(c) : c.entries[e].refs > 1}
    BY <1>1 DEF Listed
  <2>4. CachedIn(c) = {c.table[k] : k \in DOMAIN c.table}
        /\ \A k \in DOMAIN c.table : c.entries[c.table[k]].key = k
    BY <1>1 DEF Tabled
  <2>5. QED
    BY <1>2, <2>1, <2>2, <2>3, <2>4 DEF ListsAgree
<1>9. UsageCounts
  BY <1>1, <1>2 DEF Charged, UsageCounts
<1>10. QED
  BY <1>6, <1>7, <1>8, <1>9 DEF CacheTrue, CacheInv

(* At first nothing is cached.                                             *)
LEMMA InitCache ==
    ASSUME TableCacheAssumption, CacheInit
    PROVE  CacheInv
<1> DEFINE c == cache
<1>1. /\ DOMAIN c = {"entries", "lru", "inUse", "table", "usage"}
      /\ DOMAIN c.entries = {} /\ DOMAIN c.table = {} /\ c.lru = <<>> /\ c.inUse = {} /\ c.usage = 0
      /\ c.entries \in [{} -> [key : Numbers, refs : Nat, inCache : BOOLEAN]]
  BY DEF CacheInit
<1>2. opening = [t \in Threads |-> None] /\ holds = [t \in Threads |-> None]
      /\ wanted = [t \in Threads |-> None]
  BY DEF CacheInit
<1> HIDE DEF c
<1>3. CachedIn(c) = {}
  BY <1>1 DEF CachedIn
<1>4. Formed(c) /\ \A x : ~On(c.lru, x)
  <2>1. IsFiniteSet({})
    BY FS_EmptySet
  <2>2. <<>> \in Seq(Handles) /\ Len(<<>>) = 0
    OBVIOUS
  <2>3. Distinct(<<>>) /\ \A x : ~On(<<>>, x)
    BY <2>2 DEF Distinct, On
  <2>4. QED
    BY <1>1, <2>1, <2>2, <2>3 DEF Formed
<1>5. Listed(c) /\ Tabled(c, {})
  BY <1>1, <1>3, <1>4 DEF Listed, Tabled
<1>6. Counted(c, holds, {})
  BY <1>1, <1>2 DEF Counted
<1>7. Charged(c)
  <2>1. TotalCharge(c, {}) = Cardinality({})
    BY DEF TotalCharge
  <2>2. QED
    BY <1>1, <1>3, <2>1, FS_EmptySet DEF Charged
<1>8. Sound(c, holds, {}, {})
  BY <1>4, <1>5, <1>6, <1>7 DEF Sound
<1>9. OpenBounded
  <2>1. Cardinality(Live) = 0
    BY <1>1, FS_EmptySet DEF c, Live
  <2>2. Cardinality(Threads) \in Nat /\ Capacity \in Nat
    BY FS_CardinalityType DEF TableCacheAssumption
  <2>3. QED
    BY <2>1, <2>2 DEF OpenBounded
<1>10. QED
  BY <1>2, <1>8, <1>9 DEF CacheInv, Held, c

(* Where nothing more is open, the bound stays.                            *)
LEMMA FewerOpen ==
    ASSUME TableCacheAssumption, CacheInv, DOMAIN cache'.entries \subseteq DOMAIN cache.entries
    PROVE  OpenBounded'
<1> DEFINE A == DOMAIN cache.entries
           B == DOMAIN cache'.entries
<1>1. IsFiniteSet(A) /\ B \in SUBSET A
  BY DEF CacheInv, Sound, Formed
<1>2. Cardinality(A) <= Capacity + Cardinality(Threads)
  BY DEF CacheInv, OpenBounded, Live
<1>3. Cardinality(Threads) \in Nat /\ Capacity \in Nat
  BY FS_CardinalityType DEF TableCacheAssumption
<1> HIDE DEF A, B
<1>4. Cardinality(A) \in Nat /\ Cardinality(B) \in Nat /\ Cardinality(B) <= Cardinality(A)
  BY <1>1, FS_Subset, FS_CardinalityType
<1>5. Cardinality(B) <= Capacity + Cardinality(Threads)
  BY <1>2, <1>3, <1>4
<1>6. QED
  BY <1>5 DEF OpenBounded, Live, B

(* Where threads hold what they held, keys that stay are right.            *)
LEMMA SameHeld ==
    ASSUME TableCacheAssumption, CacheInv, UNCHANGED <<opening, holds, wanted>>,
           Sound(cache', holds, {}, {}), DOMAIN cache'.entries \subseteq DOMAIN cache.entries,
           \A o \in DOMAIN cache'.entries : cache'.entries[o].key = cache.entries[o].key
    PROVE  CacheInv'
<1>1. OpenBounded'
  BY FewerOpen
<1>2. \A t \in Threads : holds[t] # None => holds[t] \in DOMAIN cache'.entries
  BY DEF Sound, Counted
<1>3. \A t \in Threads : holds[t] # None => cache'.entries[holds[t]].key = wanted[t]
  BY <1>2 DEF CacheInv
<1>4. QED
  BY <1>1, <1>3 DEF CacheInv

(* FindTable: a table that is there is held; another is opened first.      *)
LEMMA FindStep ==
    ASSUME TableCacheAssumption, CacheInv, NEW t \in Threads, NEW k \in Numbers, FindTable(t, k)
    PROVE  CacheInv'
<1>1. /\ opening[t] = None /\ holds[t] = None
      /\ wanted' = [wanted EXCEPT ![t] = k]
      /\ wanted' \in [Threads -> Numbers \cup {None}] /\ wanted'[t] = k
      /\ \A s \in Threads : s # t => wanted'[s] = wanted[s]
  BY DEF FindTable, Idle, CacheInv
<1>2. CASE k \in DOMAIN cache.table
  <2> DEFINE e == cache.table[k]
             d == Ref(cache, e)
  <2>1. cache' = d /\ holds' = [holds EXCEPT ![t] = e] /\ opening' = opening
    BY <1>2 DEF FindTable
  <2>2. e \in CachedIn(cache) /\ cache.entries[e].key = k
    BY <1>2 DEF CacheInv, Sound, Tabled
  <2>3. e \in DOMAIN cache.entries /\ e \in Handles
    BY <2>2 DEF CachedIn, CacheInv, Sound, Formed
  <2>4. /\ Sound(d, holds, {}, {e})
        /\ DOMAIN d.entries = DOMAIN cache.entries
        /\ \A o \in DOMAIN cache.entries : d.entries[o].key = cache.entries[o].key
    <3> HIDE DEF e
    <3> QED BY <2>2, RefKeeps DEF CacheInv
  <2> HIDE DEF d, e
  <2>5. Sound(cache', holds', {}, {})
    <3>1. e \in DOMAIN d.entries /\ holds \in Held
      BY <2>3, <2>4 DEF CacheInv
    <3>2. Sound(d, [holds EXCEPT ![t] = e], {}, {})
      BY <1>1, <2>4, <3>1, Grasped
    <3>3. QED
      BY <2>1, <3>2
  <2>6. /\ holds' \in Held /\ holds'[t] = e /\ \A s \in Threads : s # t => holds'[s] = holds[s]
    BY <2>1, <2>3 DEF CacheInv, Held
  <2>7. ASSUME NEW s \in Threads
        PROVE  /\ opening'[s] # None => holds'[s] = None /\ wanted'[s] = opening'[s]
               /\ holds'[s] # None => cache'.entries[holds'[s]].key = wanted'[s]
    <3>1. CASE s = t
      BY <1>1, <2>1, <2>2, <2>3, <2>4, <2>6, <3>1
    <3>2. CASE s # t
      <4>1. holds[s] # None => holds[s] \in DOMAIN cache.entries /\ cache.entries[holds[s]].key = wanted[s]
        BY DEF CacheInv, Sound, Counted
      <4>2. opening[s] # None => holds[s] = None /\ wanted[s] = opening[s]
        BY DEF CacheInv
      <4>3. QED
        BY <1>1, <2>1, <2>4, <2>6, <3>2, <4>1, <4>2
    <3>3. QED
      BY <3>1, <3>2
  <2>8. OpenBounded'
    BY <2>1, <2>4, FewerOpen
  <2>9. opening' \in [Threads -> Numbers \cup {None}]
    BY <2>1 DEF CacheInv
  <2>10. QED
    BY <1>1, <2>5, <2>6, <2>7, <2>8, <2>9 DEF CacheInv
<1>3. CASE k \notin DOMAIN cache.table
  <2>1. opening' = [opening EXCEPT ![t] = k] /\ cache' = cache /\ holds' = holds
    BY <1>3 DEF FindTable
  <2>2. /\ opening' \in [Threads -> Numbers \cup {None}] /\ opening'[t] = k
        /\ \A s \in Threads : s # t => opening'[s] = opening[s]
    BY <2>1 DEF CacheInv
  <2>3. OpenBounded'
    BY <2>1, FewerOpen
  <2>4. \A s \in Threads : /\ opening'[s] # None => holds'[s] = None /\ wanted'[s] = opening'[s]
                           /\ holds'[s] # None => cache'.entries[holds'[s]].key = wanted'[s]
    BY <1>1, <2>1, <2>2 DEF CacheInv
  <2>5. QED
    BY <1>1, <2>1, <2>2, <2>3, <2>4 DEF CacheInv
<1>4. QED
  BY <1>2, <1>3

(* The table that was opened is inserted, and held.                        *)
LEMMA CacheInsertStep ==
    ASSUME TableCacheAssumption, CacheInv, NEW t \in Threads, InsertTable(t)
    PROVE  CacheInv'
<1> DEFINE k == opening[t]
           e == Free(cache)
           d == CacheInsert(cache, k)
<1>1. /\ k # None /\ k \in Numbers /\ holds[t] = None /\ wanted[t] = k
      /\ cache' = d /\ holds' = [holds EXCEPT ![t] = e]
      /\ opening' = [opening EXCEPT ![t] = None] /\ wanted' = wanted
  BY DEF InsertTable, CacheInv
<1>2. e = Free(cache) /\ d = CacheInsert(cache, k)
  OBVIOUS
<1> HIDE DEF k, e, d
<1>3. /\ e \in Handles /\ e \notin DOMAIN cache.entries
      /\ Sound(d, holds, {}, {e}) /\ Extended(cache, d, k, e)
      /\ d.usage <= Capacity \/ \A x : ~On(d.lru, x)
  <2>1. holds \in Held /\ Sound(cache, holds, {}, {}) /\ k \in Numbers
    BY <1>1 DEF CacheInv
  <2>2. QED
    BY <1>2, <2>1, InsertKeeps
<1>4. Sound(cache', holds', {}, {})
  <2>1. e \in DOMAIN d.entries /\ holds \in Held
    BY <1>3 DEF CacheInv, Extended
  <2>2. Sound(d, [holds EXCEPT ![t] = e], {}, {})
    BY <1>1, <1>3, <2>1, Grasped
  <2>3. QED
    BY <1>1, <2>2
<1>5. /\ holds' \in Held /\ holds'[t] = e /\ \A s \in Threads : s # t => holds'[s] = holds[s]
  BY <1>1, <1>3 DEF CacheInv, Held
<1>6. /\ opening' \in [Threads -> Numbers \cup {None}] /\ opening'[t] = None
      /\ \A s \in Threads : s # t => opening'[s] = opening[s]
  BY <1>1 DEF CacheInv
<1>7. ASSUME NEW s \in Threads
      PROVE  /\ opening'[s] # None => holds'[s] = None /\ wanted'[s] = opening'[s]
             /\ holds'[s] # None => cache'.entries[holds'[s]].key = wanted'[s]
  <2>1. CASE s = t
    BY <1>1, <1>3, <1>5, <1>6, <2>1 DEF Extended
  <2>2. CASE s # t
    <3>1. holds[s] # None => holds[s] \in DOMAIN cache.entries /\ cache.entries[holds[s]].key = wanted[s]
      BY DEF CacheInv, Sound, Counted
    <3>2. holds[s] # None => holds[s] \in DOMAIN d.entries
      BY <1>3 DEF Sound, Counted
    <3>3. opening[s] # None => holds[s] = None /\ wanted[s] = opening[s]
      BY DEF CacheInv
    <3>4. holds[s] # None => d.entries[holds[s]].key = wanted[s]
      BY <1>3, <3>1, <3>2 DEF Extended
    <3>5. QED
      BY <1>1, <1>5, <1>6, <2>2, <3>3, <3>4
  <2>3. QED
    BY <2>1, <2>2
<1>8. OpenBounded'
  <2>1. Cardinality(DOMAIN cache'.entries) <= Capacity + Cardinality(Threads)
    BY <1>1, <1>3, <1>4, BoundThen
  <2>2. QED
    BY <2>1 DEF OpenBounded, Live
<1>9. QED
  BY <1>1, <1>4, <1>5, <1>6, <1>7, <1>8 DEF CacheInv

(* A file that could not be opened leaves the cache as it was.             *)
LEMMA OpenFailsStep ==
    ASSUME TableCacheAssumption, CacheInv, NEW t \in Threads, OpenFails(t)
    PROVE  CacheInv'
<1>1. /\ opening' = [opening EXCEPT ![t] = None]
      /\ cache' = cache /\ holds' = holds /\ wanted' = wanted
  BY DEF OpenFails
<1>2. /\ opening' \in [Threads -> Numbers \cup {None}] /\ opening'[t] = None
      /\ \A s \in Threads : s # t => opening'[s] = opening[s]
  BY <1>1 DEF CacheInv
<1>3. OpenBounded'
  BY <1>1, FewerOpen
<1>4. \A s \in Threads : opening'[s] # None => holds[s] = None /\ wanted[s] = opening'[s]
  BY <1>2 DEF CacheInv
<1>5. QED
  BY <1>1, <1>2, <1>3, <1>4 DEF CacheInv

(* Release: what a thread no longer needs may go.                          *)
LEMMA ReleaseStep ==
    ASSUME TableCacheAssumption, CacheInv, NEW t \in Threads, Release(t)
    PROVE  CacheInv'
<1> DEFINE e == holds[t]
           d == Unref(cache, e)
           g == [holds EXCEPT ![t] = None]
<1>1. e # None /\ cache' = d /\ holds' = g /\ opening' = opening /\ wanted' = wanted
  BY DEF Release
<1>2. /\ g \in Held /\ g[t] = None /\ \A s \in Threads : s # t => g[s] = holds[s]
  BY DEF CacheInv, Held
<1>3. Sound(cache, g, {}, {e})
  BY <1>1, LetGo DEF CacheInv
<1>4. e \in DOMAIN cache.entries
  BY <1>1 DEF CacheInv, Sound, Counted
<1> HIDE DEF e, g
<1>5. /\ Sound(d, g, {}, {}) /\ DOMAIN d.entries \subseteq DOMAIN cache.entries
      /\ \A o \in DOMAIN d.entries : d.entries[o].key = cache.entries[o].key
  <2>1. Sound(cache, g, {}, {} \cup {e}) /\ e \notin {}
    BY <1>3
  <2>2. QED
    BY <1>2, <1>4, <2>1, UnrefKeeps
<1> HIDE DEF d
<1>6. ASSUME NEW s \in Threads
      PROVE  /\ opening'[s] # None => holds'[s] = None /\ wanted'[s] = opening'[s]
             /\ holds'[s] # None => cache'.entries[holds'[s]].key = wanted'[s]
  <2>1. holds'[s] # None => holds'[s] = holds[s] /\ holds'[s] \in DOMAIN d.entries
    BY <1>1, <1>2, <1>5 DEF Sound, Counted
  <2>2. holds[s] # None => cache.entries[holds[s]].key = wanted[s]
    BY DEF CacheInv
  <2>3. opening[s] # None => holds[s] = None /\ wanted[s] = opening[s]
    BY DEF CacheInv
  <2>4. opening[s] # None => holds'[s] = None
    BY <1>1, <1>2, <2>3
  <2>5. QED
    BY <1>1, <1>5, <2>1, <2>2, <2>3, <2>4
<1>7. OpenBounded'
  BY <1>1, <1>5, FewerOpen
<1>8. QED
  BY <1>1, <1>2, <1>5, <1>6, <1>7 DEF CacheInv

(* Evict: the table of a file that was deleted leaves the cache, and stays *)
(* open for those that hold it.                                            *)
LEMMA EvictStep ==
    ASSUME TableCacheAssumption, CacheInv, NEW k \in Numbers, Evict(k)
    PROVE  CacheInv'
<1>1. k \in DOMAIN cache.table /\ cache' = Erase(cache, k) /\ UNCHANGED <<opening, holds, wanted>>
  BY DEF Evict
<1>2. /\ Sound(Erase(cache, k), holds, {}, {})
      /\ DOMAIN Erase(cache, k).entries \subseteq DOMAIN cache.entries
      /\ \A o \in DOMAIN Erase(cache, k).entries : Erase(cache, k).entries[o].key = cache.entries[o].key
  BY <1>1, EraseKeeps DEF CacheInv
<1>3. QED
  BY <1>1, <1>2, SameHeld

(* Prune: all that is unused goes.                                         *)
LEMMA PruneStep ==
    ASSUME TableCacheAssumption, CacheInv, PruneAll
    PROVE  CacheInv'
<1> DEFINE n == Len(cache.lru)
<1>1. cache' = EvictOldest(cache, n) /\ UNCHANGED <<opening, holds, wanted>>
  BY DEF PruneAll, Prune
<1>2. n \in 0 .. Len(cache.lru)
  BY LenProperties DEF CacheInv, Sound, Formed
<1> HIDE DEF n
<1>3. /\ Sound(EvictOldest(cache, n), holds, {}, {})
      /\ DOMAIN EvictOldest(cache, n).entries \subseteq DOMAIN cache.entries
      /\ \A o \in DOMAIN EvictOldest(cache, n).entries :
            EvictOldest(cache, n).entries[o].key = cache.entries[o].key
  BY <1>2, EvictOldestKeeps DEF CacheInv
<1>4. QED
  BY <1>1, <1>3, SameHeld

(* However threads find, open, insert and release tables while others are  *)
(* evicted and pruned: what a thread holds is open and is what it asked    *)
(* for, lists, table and usage agree, and no more is open than allowed     *)
(* (TableCache::FindTable, ShardedLRUCache).                               *)
THEOREM CacheIsTrue == ASSUME TableCacheAssumption PROVE CacheSpec => []CacheTrue
<1>1. CacheInit => CacheInv
  BY InitCache
<1>2. CacheInv /\ [CacheNext]_cacheVars => CacheInv'
  <2> SUFFICES ASSUME CacheInv, [CacheNext]_cacheVars
               PROVE  CacheInv'
    OBVIOUS
  <2>1. ASSUME NEW t \in Threads, NEW k \in Numbers, FindTable(t, k)
        PROVE  CacheInv'
    BY <2>1, FindStep
  <2>2. ASSUME NEW t \in Threads, InsertTable(t)
        PROVE  CacheInv'
    BY <2>2, CacheInsertStep
  <2>3. ASSUME NEW t \in Threads, OpenFails(t)
        PROVE  CacheInv'
    BY <2>3, OpenFailsStep
  <2>4. ASSUME NEW t \in Threads, Release(t)
        PROVE  CacheInv'
    BY <2>4, ReleaseStep
  <2>5. ASSUME NEW k \in Numbers, Evict(k)
        PROVE  CacheInv'
    BY <2>5, EvictStep
  <2>6. CASE PruneAll
    BY <2>6, PruneStep
  <2>7. CASE UNCHANGED cacheVars
    BY <2>7 DEF cacheVars, CacheInv, OpenBounded, Live
  <2>8. QED
    BY <2>1, <2>2, <2>3, <2>4, <2>5, <2>6, <2>7 DEF CacheNext
<1>3. CacheInv => CacheTrue
  BY InvSaysAll
<1>4. QED
  BY <1>1, <1>2, <1>3, PTL DEF CacheSpec
=============================================================================
